-------------------------- MODULE MultipathProofs --------------------------
(***************************************************************************)
(* Slicing a buffer of the multipath socket panics only when the buffer is *)
(* shorter than (NumConns - 1)^2 bytes, for every number of connections,   *)
(* every sequence of buffers and every order of the goroutines.            *)
(***************************************************************************)
EXTENDS Multipath, UtilsProofs, FiniteSetTheorems

\* CeilForceInt rounds up: the quotient times the divisor covers the dividend
\* and exceeds it by less than the divisor.
LEMMA CeilCovers ==
  ASSUME NEW x \in Nat, NEW y \in Nat \ {0}
  PROVE  /\ CeilForceInt(x, y) \in Nat
         /\ x <= y * CeilForceInt(x, y)
         /\ y * CeilForceInt(x, y) <= x + y - 1
<1>1. x = y * (x \div y) + (x % y) /\ x % y \in 0..(y - 1) /\ x \div y \in Nat
  OBVIOUS
<1>2. CASE x % y > 0
  <2>1. y * ((x \div y) + 1) = y * (x \div y) + y
    BY <1>1
  <2> QED BY <1>1, <1>2, <2>1 DEF CeilForceInt
<1>3. CASE x % y = 0
  BY <1>1, <1>3 DEF CeilForceInt
<1> QED BY <1>1, <1>2, <1>3

\* The slices of a buffer of at least (NumConns - 1)^2 bytes are in bounds.
LEMMA LongEnough ==
  ASSUME NEW len \in Nat, ~Short(len), NEW i \in Conns
  PROVE  InBounds(len, i)
<1> DEFINE n == NumConns
           p == PartLen(len)
<1>1. n \in Nat \ {0} /\ i \in Nat /\ i <= n - 1
  BY MultipathAssumption DEF Conns
<1>2. p \in Nat /\ n * p <= len + n - 1
  BY <1>1, CeilCovers DEF PartLen
<1> HIDE DEF p, n
<1>3. p * (n - 1) <= len
  <2>1. SUFFICES ASSUME p * (n - 1) >= len + 1 PROVE FALSE
    BY <1>1, <1>2
  <2>2. n * p - p >= len + 1
    BY <1>1, <1>2, <2>1
  <2>3. p <= n - 2
    BY <1>1, <1>2, <2>2
  <2>4. p * (n - 1) <= (n - 2) * (n - 1)
    BY <1>1, <1>2, <2>3
  <2>5. (n - 2) * (n - 1) <= (n - 1) * (n - 1)
    BY <1>1
  <2>6. len >= (n - 1) * (n - 1)
    BY <1>1 DEF n, Short
  <2> QED BY <1>1, <1>2, <2>1, <2>4, <2>5, <2>6
<1>4. p * i <= p * (n - 1)
  BY <1>1, <1>2
<1>5. p * i \in Nat /\ p * i <= len
  BY <1>1, <1>2, <1>3, <1>4
<1> QED BY <1>2, <1>5 DEF InBounds, Start, End, MinInt, p
-----------------------------------------------------------------------------
\* What is proved inductive: besides the two invariants, a socket being opened
\* wants a connection more, and a Write or a Read under way is one of the calls,
\* so its buffer has a length.
IInv ==
  /\ TypeOK
  /\ PanicsOnlyWhenShort
  /\ \A s \in Sides : socket[s] = "opening" => conns[s] < NumConns
  /\ wpc = "waiting" => wcall >= 1
  /\ rpc = "waiting" => rcall >= 1

LEMMA InitInv == Init => IInv
BY MultipathAssumption DEF Init, IInv, TypeOK, PanicsOnlyWhenShort

\* The buffer of a call has a length.
LEMMA CallHasLength ==
  ASSUME IInv
  PROVE  /\ wpc = "waiting" => lengths[wcall] \in Nat
         /\ rpc = "waiting" => lengths[rcall] \in Nat
<1>1. lengths \in [1..MaxCalls -> Lengths] /\ MaxCalls \in Nat /\ Lengths \subseteq Nat
  BY MultipathAssumption DEF IInv, TypeOK
<1>2. wpc = "waiting" => wcall \in 1..MaxCalls
  BY <1>1 DEF IInv, TypeOK
<1>3. rpc = "waiting" => rcall \in 1..MaxCalls
  BY <1>1 DEF IInv, TypeOK
<1> QED BY <1>1, <1>2, <1>3

\* A step that opens or accepts a connection, or a loss.
LEMMA OpenInv ==
  ASSUME IInv,
         \/ PacketLost
         \/ \E s \in Sides : OpenConn(s) \/ OpenFails(s)
         \/ AcceptMP
         \/ \E i \in Conns : Accept(i) \/ AcceptFails(i) \/ TakeResult(i)
  PROVE  IInv'
<1> USE MultipathAssumption DEF IInv, TypeOK, PanicsOnlyWhenShort, acceptVars,
        openVars, writeVars, readVars, Fails
<1>1. ASSUME NEW s \in Sides, OpenConn(s) PROVE IInv'
  BY <1>1 DEF OpenConn, LastOne
<1>2. ASSUME NEW s \in Sides, OpenFails(s) PROVE IInv'
  BY <1>2 DEF OpenFails
<1>3. CASE AcceptMP
  BY <1>3 DEF AcceptMP
<1>4. ASSUME NEW i \in Conns, Accept(i) PROVE IInv'
  BY <1>4 DEF Accept
<1>5. ASSUME NEW i \in Conns, AcceptFails(i) PROVE IInv'
  BY <1>5 DEF AcceptFails
<1>6. ASSUME NEW i \in Conns, TakeResult(i) PROVE IInv'
  BY <1>6 DEF TakeResult, After
<1>7. CASE PacketLost
  BY <1>7 DEF PacketLost
<1> QED BY <1>1, <1>2, <1>3, <1>4, <1>5, <1>6, <1>7

\* A step of Write or of one of its goroutines.
LEMMA WriteInv ==
  ASSUME IInv,
         \/ Write \/ WriteReturns
         \/ \E i \in Conns : WriteConn(i) \/ WriteConnReturns(i) \/ WriteConnFails(i)
  PROVE  IInv'
<1> USE MultipathAssumption DEF IInv, TypeOK, PanicsOnlyWhenShort, acceptVars,
        openVars, writeVars, readVars, Fails
<1>1. CASE Write
  BY <1>1 DEF Write
<1>2. CASE WriteReturns
  BY <1>2 DEF WriteReturns
<1>3. ASSUME NEW i \in Conns, WriteConn(i) PROVE IInv'
  <2>0. wpc = "waiting"
    BY <1>3 DEF WriteConn
  <2>1. lengths[wcall] \in Nat
    BY <2>0, CallHasLength
  <2>2. CASE InBounds(lengths[wcall], i) \/ lengths[wcall] <= PayloadSize
    BY <1>3, <2>1, <2>2 DEF WriteConn
  <2>3. CASE ~InBounds(lengths[wcall], i) /\ lengths[wcall] > PayloadSize
    <3>1. Short(lengths[wcall])
      BY <2>1, <2>3, LongEnough
    <3> QED BY <1>3, <2>1, <2>3, <3>1 DEF WriteConn
  <2> QED BY <2>1, <2>2, <2>3
<1>4. ASSUME NEW i \in Conns, WriteConnReturns(i) PROVE IInv'
  BY <1>4 DEF WriteConnReturns
<1>5. ASSUME NEW i \in Conns, WriteConnFails(i) PROVE IInv'
  BY <1>5 DEF WriteConnFails
<1> QED BY <1>1, <1>2, <1>3, <1>4, <1>5

\* A goroutine of Read whose slice is in bounds gets it and is done.
LEMMA ReadConnDone ==
  ASSUME NEW i \in Conns, ReadConn(i), lengths[rcall] \in Nat,
         InBounds(lengths[rcall], i) \/ lengths[rcall] <= PayloadSize
  PROVE  /\ reader' = [reader EXCEPT ![i] = "done"]
         /\ UNCHANGED <<rpc, rcall, openVars, acceptVars, writeVars, lengths, failures>>
<1>1. ~(lengths[rcall] > PayloadSize /\ ~InBounds(lengths[rcall], i))
  BY MultipathAssumption
<1> QED BY <1>1, Zenon DEF ReadConn

\* A step of Read or of one of its goroutines.
LEMMA ReadInv ==
  ASSUME IInv,
         \/ Read \/ ReadReturns
         \/ \E i \in Conns : ReadConn(i) \/ ReadConnAstray(i) \/ ReadConnFails(i)
  PROVE  IInv'
<1> USE MultipathAssumption DEF IInv, TypeOK, PanicsOnlyWhenShort, acceptVars,
        openVars, writeVars, readVars, Fails
<1>1. CASE Read
  BY <1>1 DEF Read
<1>2. CASE ReadReturns
  BY <1>2 DEF ReadReturns
<1>3. ASSUME NEW i \in Conns, ReadConn(i) PROVE IInv'
  <2>0. rpc = "waiting"
    BY <1>3 DEF ReadConn
  <2>1. lengths[rcall] \in Nat
    BY <2>0, CallHasLength
  <2>2. CASE InBounds(lengths[rcall], i) \/ lengths[rcall] <= PayloadSize
    BY <1>3, <2>1, <2>2, ReadConnDone
  <2>3. CASE ~InBounds(lengths[rcall], i) /\ lengths[rcall] > PayloadSize
    <3>1. Short(lengths[rcall])
      BY <2>1, <2>3, LongEnough
    <3> QED BY <1>3, <2>1, <2>3, <3>1 DEF ReadConn
  <2> QED BY <2>1, <2>2, <2>3
<1>4. ASSUME NEW i \in Conns, ReadConnFails(i) PROVE IInv'
  BY <1>4 DEF ReadConnFails
<1>5. ASSUME NEW i \in Conns, ReadConnAstray(i) PROVE IInv'
  BY <1>5 DEF ReadConnAstray
<1> QED BY <1>1, <1>2, <1>3, <1>4, <1>5

LEMMA NextInv == IInv /\ [Next]_vars => IInv'
<1> SUFFICES ASSUME IInv, [Next]_vars PROVE IInv'
  OBVIOUS
<1>1. CASE UNCHANGED vars
  BY <1>1 DEF IInv, TypeOK, PanicsOnlyWhenShort, vars, openVars, acceptVars,
              writeVars, readVars
<1>2. CASE Next
  BY <1>2, OpenInv, WriteInv, ReadInv DEF Next, ConnStep, SocketFails
<1> QED BY <1>1, <1>2

\* The state of the multipath socket (module Multipath) keeps its types.
THEOREM TypeCorrect == Spec => []TypeOK
<1>1. IInv => TypeOK
  BY DEF IInv
<1> QED BY <1>1, InitInv, NextInv, PTL DEF Spec

\* Write and Read of the multipath socket (mp.go:86, mp.go:109) slice their
\* buffer out of bounds only when it is shorter than (NumConns - 1)^2 bytes.
THEOREM SlicesInBounds == Spec => []PanicsOnlyWhenShort
<1>1. IInv => PanicsOnlyWhenShort
  BY DEF IInv
<1> QED BY <1>1, InitInv, NextInv, PTL DEF Spec
-----------------------------------------------------------------------------
(* AcceptMP.                                                               *)

\* The goroutines whose result AcceptMP has taken.
Taken == {i \in Conns : acceptor[i] \in {"accepted", "refused"}}

\* What is proved inductive for AcceptMP: it counts the results it has taken, and
\* goes on only while none of them is an error.
AInv ==
  /\ taken = Cardinality(Taken)
  /\ apc = "none" => \A i \in Conns : acceptor[i] = "none"
  /\ apc # "failed" => \A i \in Conns : acceptor[i] # "refused"
  /\ apc = "returned" => taken = NumConns

LEMMA AcceptInit == Init => AInv
<1> SUFFICES ASSUME Init PROVE AInv
  OBVIOUS
<1>1. Taken = {}
  BY DEF Init, Taken
<1>2. Cardinality(Taken) = 0
  BY <1>1, FS_EmptySet
<1> QED BY <1>2 DEF Init, AInv

LEMMA ConnsFinite == IsFiniteSet(Conns) /\ Cardinality(Conns) = NumConns
<1>1. NumConns \in Nat \ {0}
  BY MultipathAssumption
<1>2. /\ 0 \in Int /\ NumConns - 1 \in Int /\ ~(0 > NumConns - 1)
      /\ (NumConns - 1) - 0 + 1 = NumConns
  BY <1>1
<1> QED BY <1>2, FS_Interval DEF Conns

LEMMA AcceptNext == IInv /\ AInv /\ [Next]_vars => AInv'
<1> SUFFICES ASSUME IInv, AInv, [Next]_vars PROVE AInv'
  OBVIOUS
<1>1. CASE UNCHANGED <<apc, acceptor, taken>>
  <2>1. Taken' = Taken
    BY <1>1 DEF Taken
  <2> QED BY <1>1, <2>1 DEF AInv
<1>2. acceptor \in [Conns -> {"none", "accepting", "ok", "error", "accepted", "refused"}]
  BY DEF IInv, TypeOK
<1>3. CASE AcceptMP
  <2>1. /\ acceptor' = [i \in Conns |-> "accepting"] /\ apc = "none" /\ apc' = "waiting"
        /\ taken' = taken
    BY <1>3 DEF AcceptMP
  <2>2. Taken' = {} /\ Taken = {}
    BY <2>1 DEF Taken, AInv
  <2> QED BY <2>1, <2>2 DEF AInv
<1>4. ASSUME NEW i \in Conns, Accept(i) \/ AcceptFails(i) PROVE AInv'
  <2>1. /\ acceptor[i] = "accepting" /\ UNCHANGED <<apc, taken>>
        /\ \/ acceptor' = [acceptor EXCEPT ![i] = "ok"]
           \/ acceptor' = [acceptor EXCEPT ![i] = "error"]
    BY <1>4 DEF Accept, AcceptFails
  <2>2. Taken' = Taken
    BY <1>2, <2>1 DEF Taken
  <2> QED BY <1>2, <2>1, <2>2 DEF AInv
<1>5. ASSUME NEW i \in Conns, TakeResult(i) PROVE AInv'
  <2>1. /\ apc = "waiting" /\ acceptor[i] \in {"ok", "error"}
        /\ acceptor' = [acceptor EXCEPT ![i] = IF acceptor[i] = "ok" THEN "accepted" ELSE "refused"]
        /\ taken' = taken + 1
        /\ apc' = After(i)
    BY <1>5 DEF TakeResult
  <2>2. Taken' = Taken \cup {i} /\ i \notin Taken
    BY <1>2, <2>1 DEF Taken
  <2>3. IsFiniteSet(Taken)
    BY ConnsFinite, FS_Subset DEF Taken
  <2>4. Cardinality(Taken') = Cardinality(Taken) + 1
    BY <2>2, <2>3, FS_AddElement
  <2>5. taken' = Cardinality(Taken')
    BY <2>1, <2>4 DEF AInv
  <2>6. /\ apc' \in {"failed", "returned", "waiting"}
        /\ apc' = "returned" => taken + 1 = NumConns
        /\ apc' # "failed" => acceptor[i] = "ok"
    BY <2>1 DEF After
  <2>7. apc' # "failed" => \A j \in Conns : acceptor'[j] # "refused"
    BY <1>2, <2>1, <2>6 DEF AInv
  <2> QED BY <2>1, <2>5, <2>6, <2>7 DEF AInv
<1>6. CASE \/ \E s \in Sides : OpenConn(s) \/ OpenFails(s)
           \/ Write \/ WriteReturns \/ Read \/ ReadReturns
           \/ \E i \in Conns : \/ WriteConn(i) \/ WriteConnReturns(i) \/ WriteConnFails(i)
                               \/ ReadConn(i) \/ ReadConnAstray(i) \/ ReadConnFails(i)
           \/ PacketLost
  <2>1. UNCHANGED <<apc, acceptor, taken>>
    BY <1>6 DEF OpenConn, OpenFails, Write, WriteReturns, Read, ReadReturns, WriteConn,
           WriteConnReturns, WriteConnFails, ReadConn, ReadConnAstray, ReadConnFails,
           PacketLost, acceptVars
  <2> QED BY <1>1, <2>1
<1>7. CASE UNCHANGED vars
  BY <1>1, <1>7 DEF vars, acceptVars
<1> QED BY <1>3, <1>4, <1>5, <1>6, <1>7 DEF Next, ConnStep, SocketFails

\* AcceptMP (mp.go:68) returns without an error only when every connection is
\* accepted and no goroutine is left waiting at errChan, for every number of
\* connections and every order of their results.
THEOREM AcceptMPAcceptsAll == Spec => []AcceptsAll
<1>1. IInv /\ AInv => AcceptsAll
  <2> SUFFICES ASSUME IInv, AInv, apc = "returned", NEW i \in Conns
               PROVE  acceptor[i] = "accepted"
    BY DEF AcceptsAll
  <2>1. Cardinality(Taken) = Cardinality(Conns)
    BY ConnsFinite DEF AInv
  <2>2. Taken \subseteq Conns
    BY DEF Taken
  <2>3. Taken = Conns
    BY <2>1, <2>2, ConnsFinite, FS_Subset
  <2> QED BY <2>3 DEF Taken, AInv
<1> QED BY <1>1, InitInv, NextInv, AcceptInit, AcceptNext, PTL DEF Spec
-----------------------------------------------------------------------------
(* Write and Read.                                                         *)

\* What a Write puts on connection i.
Sent(i) == <<[call |-> wcall, slice |-> WriteSlice(lengths[wcall], i)]>>

\* Connection i when Write and Read are in the same call, when Write has begun the
\* next one, and when Read has.
BothIn(i) ==
  \/ writer[i] = "none" /\ reader[i] = "none" /\ link[i] = <<>>
  \/ writer[i] = "calling" /\ reader[i] = "calling" /\ link[i] = <<>>
  \/ writer[i] = "sent" /\ reader[i] = "calling" /\ link[i] = Sent(i)
  \/ writer[i] \in {"sent", "done"} /\ reader[i] = "done" /\ link[i] = <<>>

WriteAhead(i) ==
  /\ reader[i] \in {"none", "done"}
  /\ \/ writer[i] \in {"none", "calling"} /\ link[i] = <<>>
     \/ writer[i] = "sent" /\ link[i] = Sent(i)

ReadAhead(i) ==
  writer[i] \in {"none", "sent", "done"} /\ reader[i] \in {"none", "calling"} /\ link[i] = <<>>

InStep ==
  \/ wcall = rcall /\ \A i \in Conns : BothIn(i)
  \/ wcall = rcall + 1 /\ \A i \in Conns : WriteAhead(i)
  \/ rcall = wcall + 1 /\ \A i \in Conns : ReadAhead(i)

\* The goroutines of a call: one for each connection the buffer is split over.
Goroutines ==
  /\ DOMAIN link = Conns
  /\ \A i \in Conns :
       /\ writer[i] = "none" <=> wcall = 0 \/ i \notin WriteConns(lengths[wcall])
       /\ reader[i] = "none" <=> rcall = 0 \/ i \notin ReadConns(lengths[rcall])
  /\ wpc = "idle" => \A i \in Conns : writer[i] \in {"none", "done"}
  /\ rpc = "idle" => \A i \in Conns : reader[i] \in {"none", "done"}

\* What the goroutines of a Read that are done have put into its buffer.
Filled ==
  rcall > 0 => got = UNION {ReadSlice(lengths[rcall], i) : i \in {j \in Conns : reader[j] = "done"}}

\* What is proved inductive for Write and Read as long as nothing disturbs the
\* connections: Read and Write are never more than one call apart, and a slice is read in
\* the call it was written in.
CInv == Sound => InStep /\ Goroutines /\ Filled

\* Write and Read split a buffer in the same way, and use connection 0 always.
LEMMA SameSplit ==
  /\ 0 \in Conns
  /\ \A len : /\ WriteConns(len) = ReadConns(len) /\ 0 \in WriteConns(len)
              /\ \A i : WriteSlice(len, i) = ReadSlice(len, i)
<1>1. 0 \in Conns
  BY MultipathAssumption DEF Conns
<1> QED BY <1>1 DEF WriteConns, ReadConns, WriteSlice, ReadSlice

LEMMA CallInit == Init => CInv
<1> SUFFICES ASSUME Init PROVE CInv
  OBVIOUS
<1>1. /\ wcall = 0 /\ rcall = 0 /\ DOMAIN link = Conns
      /\ \A i \in Conns : writer[i] = "none" /\ reader[i] = "none" /\ link[i] = <<>>
  BY DEF Init
<1> QED BY <1>1 DEF CInv, InStep, BothIn, Goroutines, Filled

\* The types that the steps below need.
LEMMA CallTypes ==
  ASSUME IInv
  PROVE  /\ wcall \in Nat /\ rcall \in Nat
         /\ writer \in [Conns -> {"none", "calling", "sent", "done"}]
         /\ reader \in [Conns -> {"none", "calling", "done"}]
         /\ failures \in Nat
BY MultipathAssumption DEF IInv, TypeOK

\* A Write begins: Read is in the call that it joins, or done with the one before.
LEMMA WriteBegins ==
  ASSUME IInv, InStep, Goroutines, Filled, Write
  PROVE  InStep' /\ Goroutines' /\ Filled'
<1>1. /\ wcall \in Nat /\ rcall \in Nat
  BY CallTypes
<1>2. /\ wpc = "idle" /\ wpc' = "waiting" /\ wcall' = wcall + 1
      /\ writer' = [i \in Conns |->
                      IF i \in WriteConns(lengths[wcall + 1]) THEN "calling" ELSE "none"]
      /\ UNCHANGED <<lengths, link, rpc, rcall, reader, got>>
  BY DEF Write, readVars
<1>3. /\ \A i \in Conns : writer[i] \in {"none", "done"}
      /\ \A i \in Conns : writer'[i] = IF i \in WriteConns(lengths[wcall + 1])
                                       THEN "calling" ELSE "none"
  BY <1>2 DEF Goroutines
<1>4. Goroutines'
  <2>1. \A i \in Conns : writer'[i] = "none" <=> i \notin WriteConns(lengths'[wcall'])
    BY <1>2, <1>3
  <2>2. wcall' # 0
    BY <1>1, <1>2
  <2> QED BY <1>2, <2>1, <2>2 DEF Goroutines
<1>5. Filled'
  BY <1>2 DEF Filled
<1>6. InStep'
  <2>1. CASE wcall = rcall /\ \A i \in Conns : BothIn(i)
    <3>1. \A i \in Conns : WriteAhead(i)'
      BY <1>2, <1>3, <2>1 DEF BothIn, WriteAhead
    <3> QED BY <1>1, <1>2, <2>1, <3>1 DEF InStep
  <2>2. CASE wcall = rcall + 1 /\ \A i \in Conns : WriteAhead(i)
    <3>1. writer[0] = "none"
      BY <1>3, <2>2, SameSplit DEF WriteAhead
    <3>2. wcall # 0
      BY <1>1, <2>2
    <3> QED BY <3>1, <3>2, SameSplit DEF Goroutines
  <2>3. CASE rcall = wcall + 1 /\ \A i \in Conns : ReadAhead(i)
    <3>1. \A i \in Conns : reader[i] = "none" <=> i \notin ReadConns(lengths[wcall + 1])
      BY <1>1, <2>3 DEF Goroutines
    <3>2. \A i \in Conns : BothIn(i)'
      BY <1>2, <1>3, <2>3, <3>1, SameSplit DEF ReadAhead, BothIn
    <3> QED BY <1>2, <2>3, <3>2 DEF InStep
  <2> QED BY <2>1, <2>2, <2>3 DEF InStep
<1> QED BY <1>4, <1>5, <1>6

\* A Read begins: the same with the sides exchanged.
LEMMA ReadBegins ==
  ASSUME IInv, InStep, Goroutines, Filled, Read
  PROVE  InStep' /\ Goroutines' /\ Filled'
<1>1. /\ wcall \in Nat /\ rcall \in Nat
  BY CallTypes
<1>2. /\ rpc = "idle" /\ rpc' = "waiting" /\ rcall' = rcall + 1 /\ got' = {}
      /\ reader' = [i \in Conns |->
                      IF i \in ReadConns(lengths[rcall + 1]) THEN "calling" ELSE "none"]
      /\ UNCHANGED <<lengths, link, wpc, wcall, writer>>
  BY DEF Read, writeVars
<1>3. /\ \A i \in Conns : reader[i] \in {"none", "done"}
      /\ \A i \in Conns : reader'[i] = IF i \in ReadConns(lengths[rcall + 1])
                                       THEN "calling" ELSE "none"
  BY <1>2 DEF Goroutines
<1>4. Goroutines'
  <2>1. \A i \in Conns : reader'[i] = "none" <=> i \notin ReadConns(lengths'[rcall'])
    BY <1>2, <1>3
  <2>2. rcall' # 0
    BY <1>1, <1>2
  <2> QED BY <1>2, <2>1, <2>2 DEF Goroutines
<1>5. Filled'
  <2>1. {j \in Conns : reader'[j] = "done"} = {}
    BY <1>3
  <2> QED BY <1>2, <2>1 DEF Filled
<1>6. InStep'
  <2>1. CASE wcall = rcall /\ \A i \in Conns : BothIn(i)
    <3>1. \A i \in Conns : ReadAhead(i)'
      BY <1>2, <1>3, <2>1 DEF BothIn, ReadAhead
    <3> QED BY <1>1, <1>2, <2>1, <3>1 DEF InStep
  <2>2. CASE rcall = wcall + 1 /\ \A i \in Conns : ReadAhead(i)
    <3>1. reader[0] = "none"
      BY <1>3, <2>2, SameSplit DEF ReadAhead
    <3>2. rcall # 0
      BY <1>1, <2>2
    <3> QED BY <3>1, <3>2, SameSplit DEF Goroutines
  <2>3. CASE wcall = rcall + 1 /\ \A i \in Conns : WriteAhead(i)
    <3>1. \A i \in Conns : writer[i] = "none" <=> i \notin WriteConns(lengths[rcall + 1])
      BY <1>1, <2>3 DEF Goroutines
    <3>2. \A i \in Conns : BothIn(i)'
      BY <1>2, <1>3, <2>3, <3>1, SameSplit DEF WriteAhead, BothIn, Sent
    <3> QED BY <1>2, <2>3, <3>2 DEF InStep
  <2> QED BY <2>1, <2>2, <2>3 DEF InStep
<1> QED BY <1>4, <1>5, <1>6

\* One goroutine of Write puts its slice on its connection, or is done.
LEMMA WriterGoesOn ==
  ASSUME IInv, InStep, Goroutines, Filled, failures = 0, NEW i \in Conns,
         WriteConn(i) \/ WriteConnReturns(i)
  PROVE  InStep' /\ Goroutines' /\ Filled'
<1>1. /\ writer \in [Conns -> {"none", "calling", "sent", "done"}] /\ DOMAIN link = Conns
  BY CallTypes DEF Goroutines
<1>2. wpc = "waiting" /\ UNCHANGED <<lengths, rpc, wcall, rcall, reader, got>>
  BY DEF WriteConn, WriteConnReturns, readVars
<1>3. CASE wpc' = "panicked" /\ UNCHANGED <<writer, link>>
  BY <1>2, <1>3
  DEF InStep, BothIn, WriteAhead, ReadAhead, Sent, Goroutines, Filled
<1>4. CASE /\ writer[i] = "calling" /\ wpc' = wpc
           /\ writer' = [writer EXCEPT ![i] = "sent"]
           /\ link' = [link EXCEPT ![i] =
                         Append(@, [call |-> wcall, slice |-> WriteSlice(lengths[wcall], i)])]
  <2>1. /\ \A j \in Conns : j # i => writer'[j] = writer[j] /\ link'[j] = link[j]
        /\ writer'[i] = "sent" /\ DOMAIN link' = Conns
    BY <1>1, <1>4
  <2>2. link[i] = <<>>
    BY <1>4 DEF InStep, BothIn, WriteAhead, ReadAhead
  <2>3. link'[i] = Sent(i)
    <3>1. Append(<<>>, [call |-> wcall, slice |-> WriteSlice(lengths[wcall], i)]) = Sent(i)
      BY ShortSeqs, Zenon DEF Sent
    <3>2. link'[i] = Append(link[i], [call |-> wcall, slice |-> WriteSlice(lengths[wcall], i)])
      BY <1>1, <1>4
    <3> QED BY <2>2, <3>1, <3>2
  <2>4. \A j \in Conns : Sent(j)' = Sent(j)
    BY <1>2 DEF Sent
  <2>5. Goroutines'
    BY <1>2, <1>4, <2>1 DEF Goroutines
  <2>6. Filled'
    BY <1>2 DEF Filled
  <2>7. \A j \in Conns : BothIn(j) => BothIn(j)'
    BY <1>2, <1>4, <2>1, <2>2, <2>3, <2>4 DEF BothIn
  <2>8. \A j \in Conns : WriteAhead(j) => WriteAhead(j)'
    BY <1>2, <1>4, <2>1, <2>2, <2>3, <2>4 DEF WriteAhead
  <2>9. ~ReadAhead(i)
    BY <1>4 DEF ReadAhead
  <2>10. InStep'
    BY <1>2, <2>7, <2>8, <2>9 DEF InStep
  <2> QED BY <2>5, <2>6, <2>10
<1>5. CASE WriteConnReturns(i)
  <2>1. /\ writer[i] = "sent" /\ link[i] = <<>> /\ UNCHANGED <<wpc, link>>
        /\ writer'[i] = "done" /\ \A j \in Conns : j # i => writer'[j] = writer[j]
    BY <1>1, <1>5 DEF WriteConnReturns
  <2>2. \A j \in Conns : Sent(j)' = Sent(j) /\ Sent(j) # <<>>
    BY <1>2 DEF Sent
  <2>3. Goroutines'
    BY <1>2, <2>1 DEF Goroutines
  <2>4. Filled'
    BY <1>2 DEF Filled
  <2>5. \A j \in Conns : BothIn(j) => BothIn(j)'
    BY <1>2, <2>1, <2>2 DEF BothIn
  <2>6. ~WriteAhead(i)
    BY <2>1, <2>2 DEF WriteAhead
  <2>7. \A j \in Conns : ReadAhead(j) => ReadAhead(j)'
    BY <1>2, <2>1 DEF ReadAhead
  <2>8. InStep'
    BY <1>2, <2>5, <2>6, <2>7 DEF InStep
  <2> QED BY <2>3, <2>4, <2>8
<1>6. CASE WriteConn(i)
  BY <1>3, <1>4, <1>6 DEF WriteConn
<1> QED BY <1>5, <1>6

\* One goroutine of Read gets the slice that was written in the same call.
LEMMA ReaderGoesOn ==
  ASSUME IInv, InStep, Goroutines, Filled, NEW i \in Conns, ReadConn(i)
  PROVE  InStep' /\ Goroutines' /\ Filled'
<1> DEFINE len  == lengths[rcall]
           mine == [call |-> rcall, slice |-> ReadSlice(len, i)]
<1>1. /\ reader \in [Conns -> {"none", "calling", "done"}] /\ DOMAIN link = Conns
      /\ rcall \in Nat
  BY CallTypes DEF Goroutines
<1>2. /\ rpc = "waiting" /\ reader[i] = "calling"
      /\ UNCHANGED <<lengths, wpc, wcall, rcall, writer>>
  BY DEF ReadConn, writeVars
<1>3. CASE rpc' = "panicked" /\ UNCHANGED <<reader, got, link>>
  BY <1>2, <1>3
  DEF InStep, BothIn, WriteAhead, ReadAhead, Sent, Goroutines, Filled
<1>4. CASE /\ link[i] # <<>> /\ rpc' = rpc
           /\ link' = [link EXCEPT ![i] = Tail(@)]
           /\ reader' = [reader EXCEPT ![i] = "done"]
           /\ got' = got \cup (IF Head(link[i]) = mine THEN mine.slice ELSE {})
  <2>1. /\ \A j \in Conns : j # i => reader'[j] = reader[j] /\ link'[j] = link[j]
        /\ reader'[i] = "done" /\ DOMAIN link' = Conns /\ link'[i] = Tail(link[i])
    BY <1>1, <1>4
  <2>2. /\ wcall = rcall /\ \A j \in Conns : BothIn(j)
        /\ link[i] = Sent(i) /\ writer[i] = "sent"
    BY <1>2, <1>4 DEF InStep, BothIn, WriteAhead, ReadAhead
  <2>3. Tail(link[i]) = <<>> /\ Head(link[i]) = mine
    BY <2>2, SameSplit DEF Sent
  <2>4. \A j \in Conns : Sent(j)' = Sent(j)
    BY <1>2 DEF Sent
  <2>5. Goroutines'
    BY <1>2, <1>4, <2>1 DEF Goroutines
  <2>6. \A j \in Conns : BothIn(j)'
    BY <1>2, <2>1, <2>2, <2>3, <2>4 DEF BothIn
  <2>7. InStep'
    BY <1>2, <2>2, <2>6 DEF InStep
  <2>8. Filled'
    <3>1. {j \in Conns : reader'[j] = "done"} = {j \in Conns : reader[j] = "done"} \cup {i}
      BY <1>1, <2>1
    <3>2. got' = got \cup ReadSlice(len, i)
      BY <1>4, <2>3
    <3>3. CASE rcall > 0
      <4>1. got = UNION {ReadSlice(len, j) : j \in {k \in Conns : reader[k] = "done"}}
        BY <3>3 DEF Filled
      <4> QED BY <1>2, <3>1, <3>2, <4>1 DEF Filled
    <3>4. CASE ~(rcall > 0)
      BY <1>1, <1>2, <3>4 DEF Filled
    <3> QED BY <3>3, <3>4
  <2> QED BY <2>5, <2>7, <2>8
<1>5. CASE len > PayloadSize /\ ~InBounds(len, i)
  BY <1>3, <1>5 DEF ReadConn
<1>6. CASE ~(len > PayloadSize /\ ~InBounds(len, i))
  BY <1>4, <1>6, Zenon DEF ReadConn
<1> QED BY <1>5, <1>6

\* A call returns.
LEMMA CallReturns ==
  ASSUME InStep, Goroutines, Filled, WriteReturns \/ ReadReturns
  PROVE  InStep' /\ Goroutines' /\ Filled'
<1>1. /\ UNCHANGED <<lengths, link, wcall, rcall, writer, reader, got>>
      /\ \/ wpc' = wpc
         \/ \A i \in Conns : writer[i] \in {"none", "done"}
      /\ \/ rpc' = rpc
         \/ \A i \in Conns : reader[i] \in {"none", "done"}
  BY DEF WriteReturns, ReadReturns, writeVars, readVars
<1>2. InStep'
  BY <1>1 DEF InStep, BothIn, WriteAhead, ReadAhead, Sent
<1>3. Goroutines'
  BY <1>1 DEF Goroutines
<1> QED BY <1>1, <1>2, <1>3 DEF Filled

\* A connection that carried a part before a call did so before every later one.
LEMMA SoundBefore ==
  ASSUME IInv, [Next]_vars, Sound'
  PROVE  failures = 0 /\ Sound
<1>1. failures \in Nat /\ rcall \in Nat /\ 0 \in Conns
  BY CallTypes, SameSplit
<1>2. failures' = 0 /\ \A i \in Conns : ~Carried(i, rcall)'
  BY <1>1 DEF Sound, Undisturbed
<1>3. failures' = failures \/ failures' = failures + 1
  BY DEF Next, ConnStep, SocketFails, OpenFails, AcceptFails, WriteConnFails,
         ReadConnFails, PacketLost, Fails, OpenConn, AcceptMP, Accept, TakeResult, Write,
         WriteConn, WriteConnReturns, WriteReturns, Read, ReadConn, ReadConnAstray,
         ReadReturns, vars
<1>4. lengths' = lengths /\ (rcall' = rcall \/ rcall' = rcall + 1)
  BY DEF Next, ConnStep, SocketFails, OpenFails, AcceptFails, WriteConnFails,
         ReadConnFails, PacketLost, OpenConn, AcceptMP, Accept, TakeResult, Write,
         WriteConn, WriteConnReturns, WriteReturns, Read, ReadConn, ReadConnAstray,
         ReadReturns, vars, readVars
<1>5. 1..(rcall - 1) \subseteq 1..(rcall' - 1)
  BY <1>1, <1>4
<1>6. \A i \in Conns : ~Carried(i, rcall)
  BY <1>2, <1>4, <1>5 DEF Carried
<1> QED BY <1>1, <1>2, <1>3, <1>6 DEF Sound, Undisturbed

LEMMA CallNext == IInv /\ CInv /\ [Next]_vars => CInv'
<1> SUFFICES ASSUME IInv, CInv, [Next]_vars, Sound'
             PROVE  InStep' /\ Goroutines' /\ Filled'
  BY DEF CInv
<1>1. failures \in Nat /\ failures = 0 /\ Sound /\ 0 \in Conns
  BY CallTypes, SoundBefore, SameSplit
<1>2. failures' = 0
  BY <1>1 DEF Sound, Undisturbed
<1>3. ~SocketFails
  BY <1>1, <1>2
  DEF SocketFails, OpenFails, AcceptFails, WriteConnFails, ReadConnFails, PacketLost, Fails
<1>4. \A i \in Conns : ~ReadConnAstray(i)
  BY <1>1 DEF Sound, ReadConnAstray
<1>5. InStep /\ Goroutines /\ Filled
  BY <1>1 DEF CInv
<1>6. CASE \/ \E s \in Sides : OpenConn(s)
           \/ AcceptMP
           \/ \E i \in Conns : Accept(i) \/ TakeResult(i)
           \/ UNCHANGED vars
  <2>1. UNCHANGED <<lengths, link, wpc, rpc, wcall, rcall, writer, reader, got>>
    BY <1>6
    DEF OpenConn, AcceptMP, Accept, TakeResult, vars, writeVars, readVars
  <2> QED BY <1>5, <2>1
    DEF InStep, BothIn, WriteAhead, ReadAhead, Sent, Goroutines, Filled
<1> QED
  BY <1>1, <1>3, <1>4, <1>5, <1>6, WriteBegins, ReadBegins, WriterGoesOn, ReaderGoesOn, CallReturns
  DEF Next, ConnStep

\* The slices cover the buffer, and nothing beyond it.
LEMMA SlicesCover ==
  ASSUME NEW len \in Nat \ {0}
  PROVE  UNION {ReadSlice(len, i) : i \in ReadConns(len)} = 0..(len - 1)
<1>1. CASE len <= PayloadSize
  BY <1>1 DEF ReadConns, ReadSlice
<1>2. CASE ~(len <= PayloadSize)
  <2> DEFINE n == NumConns
             p == PartLen(len)
  <2>1. n \in Nat \ {0} /\ p \in Nat /\ len <= n * p
    BY MultipathAssumption, CeilCovers DEF PartLen
  <2>2. p # 0
    BY <2>1
  <2>3. \A i \in Conns : ReadSlice(len, i) = SliceOf(len, i)
    BY <1>2 DEF ReadSlice
  <2>4. ReadConns(len) = Conns
    BY <1>2 DEF ReadConns
  <2> HIDE DEF n, p
  <2>5. ASSUME NEW x \in 0..(len - 1) PROVE \E i \in Conns : x \in SliceOf(len, i)
    <3> DEFINE i == x \div p
    <3>1. /\ x = p * i + (x % p) /\ x % p \in 0..(p - 1) /\ i \in Nat
      BY <2>1, <2>2
    <3> HIDE DEF i
    <3>2. p * i <= x /\ x < p * i + p
      BY <2>1, <3>1
    <3>3. i < n
      <4> SUFFICES ASSUME i >= n PROVE FALSE
        BY <2>1, <3>1
      <4>1. p * i >= p * n
        BY <2>1, <3>1
      <4> QED BY <2>1, <3>1, <3>2, <4>1
    <3>4. i \in Conns
      BY <2>1, <3>1, <3>3 DEF Conns, n
    <3>5. p * i \in Nat
      BY <2>1, <3>1
    <3>6. x \in SliceOf(len, i)
      BY <2>1, <3>2, <3>5 DEF SliceOf, Start, End, MinInt, p
    <3> QED BY <3>4, <3>6
  <2>6. ASSUME NEW i \in Conns, NEW x \in SliceOf(len, i) PROVE x \in 0..(len - 1)
    <3>1. p * i \in Nat
      BY <2>1, MultipathAssumption DEF Conns
    <3> QED BY <2>1, <3>1 DEF SliceOf, Start, End, MinInt, p
  <2> QED BY <2>3, <2>4, <2>5, <2>6
<1> QED BY <1>1, <1>2

\* A Read of the multipath socket returns with every byte of its buffer, each from
\* the connection that was given it (mp.go:111), unless a connection has carried a
\* part before or something has failed: for every number of connections, every sequence of buffers and every
\* order of the goroutines.
THEOREM ReadsFillTheirBuffer == Spec => []ReadFillsBuffer
<1>1. IInv /\ CInv => ReadFillsBuffer
  <2> SUFFICES ASSUME IInv, CInv, rpc = "idle", rcall > 0, Sound
               PROVE  got = 0..(lengths[rcall] - 1)
    BY DEF ReadFillsBuffer
  <2>1. lengths[rcall] \in Nat \ {0} /\ rcall # 0
    <3>1. /\ rcall \in 1..MaxCalls /\ rcall # 0
          /\ lengths \in [1..MaxCalls -> Lengths] /\ Lengths \subseteq Nat \ {0}
      BY MultipathAssumption DEF IInv, TypeOK
    <3> QED BY <3>1
  <2>2. Goroutines /\ Filled
    BY DEF CInv
  <2>3. {j \in Conns : reader[j] = "done"} = ReadConns(lengths[rcall])
    <3>1. ReadConns(lengths[rcall]) \subseteq Conns
      BY SameSplit DEF ReadConns
    <3> QED BY <2>1, <2>2, <3>1 DEF Goroutines
  <2> QED BY <2>1, <2>2, <2>3, SlicesCover DEF Filled
<1> QED BY <1>1, InitInv, NextInv, CallInit, CallNext, PTL DEF Spec
=============================================================================
