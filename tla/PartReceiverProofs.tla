------------------------- MODULE PartReceiverProofs -------------------------
(***************************************************************************)
(* The gap lists of the receiver stay well formed and, while no packet is  *)
(* counted twice, tell exactly what is missing; a round of request packets *)
(* stays inside them while its context is the current one.  All this for   *)
(* every size of part, every number of gaps per request packet and every   *)
(* order, loss and repetition of packets.                                  *)
(***************************************************************************)
EXTENDS PartReceiver, UtilsProofs, FiniteSetTheorems
-----------------------------------------------------------------------------
\* A round that is under way is inside the list, unless the context is not the
\* one it began with; otherwise the local start is where the next tick puts it.
RoundInBounds ==
  /\ tick = "round" /\ rpc # "replaced" => start \in 1..(Len(rMissing) - 1)
  /\ tick # "round" => start = 0

\* What is proved inductive.  The gap lists change only outside a round, which
\* is why RoundInBounds is part of it.
IInv ==
  /\ ReceiverTypeOK
  /\ recvPackets <= reads
  /\ GapsWellFormed
  /\ RoundInBounds

LEMMA InitInv == ReceiverInit => IInv
BY PartAssumption, ReceiverAssumption
DEF ReceiverInit, IInv, ReceiverTypeOK, GapsWellFormed, ListsAligned,
    GapsBelowHighest, GapsDisjoint, RoundInBounds

\* The counters of an accepted packet.
LEMMA AcceptCounts ==
  ASSUME IInv, NEW p \in Packets, InLoop, Accept(p)
  PROVE  /\ reads' \in 0..NumPackets /\ recvPackets' \in 0..NumPackets
         /\ recvPackets' <= reads' /\ data' \subseteq 1..NumPackets
         /\ rpc' = rpc /\ packetChan' = packetChan
<1>1. p.seq \in 1..NumPackets
  BY DEF Packets, SequenceNumbers
<1>2. data' \subseteq 1..NumPackets
  BY <1>1 DEF IInv, ReceiverTypeOK, Accept
<1>3. /\ reads' \in 0..NumPackets /\ recvPackets' \in 0..NumPackets
      /\ recvPackets' <= reads'
  BY PartAssumption DEF IInv, ReceiverTypeOK, InLoop, Accept
<1> QED BY <1>2, <1>3 DEF Accept

LEMMA ReadInOrderInv ==
  ASSUME IInv, NEW p \in Packets, ReadInOrder(p)
  PROVE  IInv'
<1>1. /\ reads' \in 0..NumPackets /\ recvPackets' \in 0..NumPackets
      /\ recvPackets' <= reads' /\ data' \subseteq 1..NumPackets
      /\ rpc' = rpc /\ packetChan' = packetChan
  BY AcceptCounts DEF ReadInOrder
<1>2. /\ highest' \in 0..NumPackets /\ highest <= highest'
      /\ UNCHANGED <<rMissing, rOffsets, tick, start>>
  BY PartAssumption
  DEF ReadInOrder, Diff, Packets, SequenceNumbers, IInv, ReceiverTypeOK, tickVars
<1>3. GapsWellFormed'
  BY <1>2, SMTT(30) DEF IInv, GapsWellFormed, ListsAligned, GapsBelowHighest, GapsDisjoint,
              ReceiverTypeOK
<1> QED BY <1>1, <1>2, <1>3 DEF IInv, ReceiverTypeOK, RoundInBounds

\* The gap that a packet ahead opens is not in the list.
LEMMA ReadAheadIsNew ==
  ASSUME IInv, NEW p \in Packets, ReadAhead(p)
  PROVE  IndexOf(p.seq - (Diff(p) - 1), rMissing) = NotFound
<1> DEFINE num == p.seq - (Diff(p) - 1)
<1>1. p.seq \in Int /\ highest \in Int /\ num = highest + 1
  BY DEF Packets, SequenceNumbers, IInv, ReceiverTypeOK, Diff
<1>2. \A k \in 1..Len(rMissing) :
        /\ rMissing[k] \in Int /\ rOffsets[k] \in Int /\ rOffsets[k] >= 1
        /\ rMissing[k] + rOffsets[k] <= highest
  BY DEF IInv, ReceiverTypeOK, GapsWellFormed, ListsAligned, GapsBelowHighest
<1>3. \A k \in 1..Len(rMissing) : rMissing[k] # num
  BY <1>1, <1>2
<1> HIDE DEF num
<1> QED BY <1>3, IndexOfAbsent DEF num

\* The new gap starts above every other one and ends below the new highest.
LEMMA ReadAheadInv ==
  ASSUME IInv, NEW p \in Packets, ReadAhead(p)
  PROVE  IInv'
<1>1. /\ reads' \in 0..NumPackets /\ recvPackets' \in 0..NumPackets
      /\ recvPackets' <= reads' /\ data' \subseteq 1..NumPackets
      /\ rpc' = rpc /\ packetChan' = packetChan
  BY AcceptCounts DEF ReadAhead
<1>2. /\ p.seq \in 1..NumPackets /\ highest \in 0..NumPackets
      /\ p.seq - highest > 1 /\ highest' = p.seq
      /\ UNCHANGED <<tick, start>> /\ tick # "round" /\ start = 0
      /\ NumPackets \in Nat
  BY PartAssumption
  DEF ReadAhead, Diff, Packets, SequenceNumbers, IInv, ReceiverTypeOK, tickVars,
      RoundInBounds
<1> DEFINE num == p.seq - (Diff(p) - 1)
           off == Diff(p) - 1
<1>3. num = highest + 1 /\ off \in Nat \ {0} /\ num + off = p.seq
  BY <1>2 DEF Diff
<1>4. /\ rMissing \in Seq(Int) /\ rOffsets \in Seq(Int)
      /\ Len(rMissing) = Len(rOffsets)
      /\ \A i \in 1..Len(rMissing) :
           /\ rMissing[i] \in Int /\ rOffsets[i] \in Int
           /\ rMissing[i] >= 1 /\ rOffsets[i] >= 1
           /\ rMissing[i] + rOffsets[i] <= highest
      /\ \A j \in 1..Len(rMissing) : \A i \in 1..(j - 1) :
           rMissing[i] + rOffsets[i] < rMissing[j]
  BY DEF IInv, ReceiverTypeOK, GapsWellFormed, ListsAligned, GapsBelowHighest,
         GapsDisjoint
<1>5. IndexOf(num, rMissing) = NotFound
  BY ReadAheadIsNew
<1>6. rMissing' = Append(rMissing, num) /\ rOffsets' = Append(rOffsets, off)
  BY <1>5 DEF ReadAhead
<1> HIDE DEF num, off
<1> DEFINE n == Len(rMissing)
<1>7. /\ rMissing' \in Seq(Int) /\ rOffsets' \in Seq(Int)
      /\ Len(rMissing') = n + 1 /\ Len(rOffsets') = n + 1
      /\ \A i \in 1..n : rMissing'[i] = rMissing[i] /\ rOffsets'[i] = rOffsets[i]
      /\ rMissing'[n + 1] = num /\ rOffsets'[n + 1] = off
  BY <1>2, <1>3, <1>4, <1>6, AppendProperties
<1>8. ListsAligned'
  BY <1>7 DEF ListsAligned
<1>9. GapsBelowHighest'
  <2> SUFFICES ASSUME NEW i \in 1..(n + 1)
               PROVE  /\ rMissing'[i] >= 1 /\ rOffsets'[i] >= 1
                      /\ rMissing'[i] + rOffsets'[i] <= highest'
    BY <1>7 DEF GapsBelowHighest
  <2>1. CASE i = n + 1
    BY <1>2, <1>3, <1>7, <2>1
  <2>2. CASE i \in 1..n
    <3>1. /\ rMissing[i] \in Int /\ rOffsets[i] \in Int
          /\ rMissing[i] >= 1 /\ rOffsets[i] >= 1
          /\ rMissing[i] + rOffsets[i] <= highest
      BY <1>4, <2>2
    <3>2. rMissing'[i] = rMissing[i] /\ rOffsets'[i] = rOffsets[i]
      BY <1>7, <2>2
    <3> QED BY <1>2, <3>1, <3>2
  <2> QED BY <2>1, <2>2, <1>4
<1>10. GapsDisjoint'
  <2> SUFFICES ASSUME NEW j \in 1..(n + 1), NEW i \in 1..(j - 1)
               PROVE  rMissing'[i] + rOffsets'[i] < rMissing'[j]
    BY <1>7 DEF GapsDisjoint
  <2>1. i \in 1..n
    BY <1>4
  <2>2. CASE j = n + 1
    <3>1. /\ rMissing[i] \in Int /\ rOffsets[i] \in Int
          /\ rMissing[i] + rOffsets[i] <= highest
      BY <1>4, <2>1
    <3>2. rMissing'[i] = rMissing[i] /\ rOffsets'[i] = rOffsets[i]
      BY <1>7, <2>1
    <3>3. rMissing'[j] = highest + 1
      BY <1>3, <1>7, <2>2
    <3> QED BY <1>2, <3>1, <3>2, <3>3
  <2>3. CASE j \in 1..n
    BY <1>4, <1>7, <2>1, <2>3
  <2> QED BY <2>2, <2>3, <1>4
<1> QED
  BY <1>1, <1>2, <1>7, <1>8, <1>9, <1>10
  DEF IInv, ReceiverTypeOK, GapsWellFormed, RoundInBounds

\* The gap of a late packet: it is in the lists.
LEMMA LateIndex ==
  ASSUME IInv, NEW p \in Packets, ReadLate(p)
  PROVE  /\ IndexOfMin(p.seq, rMissing) \in 1..Len(rMissing)
         /\ IsIndexOfMin(p.seq, rMissing, IndexOfMin(p.seq, rMissing))
<1>1. /\ p.seq \in Int /\ rMissing \in Seq(Int) /\ Len(rMissing) \in Nat
      /\ \A i \in 1..Len(rMissing) :
           rMissing[i] \in Int /\ rOffsets[i] \in Int /\ rOffsets[i] >= 1
      /\ \A j \in 1..Len(rMissing) : \A i \in 1..(j - 1) :
           rMissing[i] + rOffsets[i] < rMissing[j]
  BY DEF Packets, SequenceNumbers, IInv, ReceiverTypeOK, GapsWellFormed, ListsAligned,
         GapsBelowHighest, GapsDisjoint
<1>2. \A j \in 1..Len(rMissing) : \A i \in 1..(j - 1) : rMissing[i] < rMissing[j]
  <2> SUFFICES ASSUME NEW j \in 1..Len(rMissing), NEW i \in 1..(j - 1)
               PROVE  rMissing[i] < rMissing[j]
    OBVIOUS
  <2>1. i \in 1..Len(rMissing)
    BY <1>1
  <2> QED BY <1>1, <2>1
<1> QED BY <1>1, <1>2, IndexOfMinInside DEF ReadLate, LateInGap

\* What a late packet does to the lists: its gap goes ...
LEMMA GapGoes ==
  ASSUME IInv, NEW k \in 1..Len(rMissing), DropGap(k)
  PROVE  /\ rMissing' \in Seq(Int) /\ rOffsets' \in Seq(Int)
         /\ Len(rMissing') = Len(rMissing) - 1 /\ Len(rOffsets') = Len(rMissing) - 1
         /\ \A i \in 1..(Len(rMissing) - 1) :
              /\ rMissing'[i] = IF i < k THEN rMissing[i] ELSE rMissing[i + 1]
              /\ rOffsets'[i] = IF i < k THEN rOffsets[i] ELSE rOffsets[i + 1]
<1> DEFINE Removed(q) == RemoveFromSliceByIndex(q, k)
           n          == Len(rMissing)
<1>1. rMissing \in Seq(Int) /\ rOffsets \in Seq(Int) /\ Len(rOffsets) = n
  BY DEF IInv, ReceiverTypeOK, GapsWellFormed, ListsAligned
<1>2. /\ Removed(rMissing) \in Seq(Int) /\ Len(Removed(rMissing)) = n - 1
      /\ \A i \in 1..(n - 1) :
           Removed(rMissing)[i] = IF i < k THEN rMissing[i] ELSE rMissing[i + 1]
  BY <1>1, RemoveNumber
<1>3. /\ Removed(rOffsets) \in Seq(Int) /\ Len(Removed(rOffsets)) = n - 1
      /\ \A i \in 1..(n - 1) :
           Removed(rOffsets)[i] = IF i < k THEN rOffsets[i] ELSE rOffsets[i + 1]
  BY <1>1, RemoveNumber
<1>4. rMissing' = Removed(rMissing) /\ rOffsets' = Removed(rOffsets)
  BY DEF DropGap
<1> HIDE DEF Removed
<1> QED BY <1>2, <1>3, <1>4

\* ... or has one packet less.
LEMMA GapShrinks ==
  ASSUME IInv, NEW k \in 1..Len(rMissing), rOffsets[k] # 1,
         rOffsets' = [rOffsets EXCEPT ![k] = @ - 1]
  PROVE  /\ rOffsets' \in Seq(Int) /\ Len(rOffsets') = Len(rMissing)
         /\ \A i \in 1..Len(rMissing) :
              /\ rOffsets'[i] = IF i = k THEN rOffsets[k] - 1 ELSE rOffsets[i]
              /\ rOffsets'[i] \in Int
              /\ rOffsets'[i] <= rOffsets[i] /\ rOffsets'[i] >= 1
<1> DEFINE n == Len(rMissing)
<1>1. /\ rOffsets \in Seq(Int) /\ Len(rOffsets) = n /\ n \in Nat
      /\ \A i \in 1..n : rOffsets[i] \in Int /\ rOffsets[i] >= 1
  BY DEF IInv, ReceiverTypeOK, GapsWellFormed, ListsAligned, GapsBelowHighest
<1>2. rOffsets' = [rOffsets EXCEPT ![k] = rOffsets[k] - 1]
  OBVIOUS
<1>3. rOffsets[k] \in Int /\ rOffsets[k] - 1 >= 1
  BY <1>1
<1>4. rOffsets' \in Seq(Int) /\ Len(rOffsets') = n
  BY <1>1, <1>2, <1>3, ExceptSeq
<1>5. \A i \in 1..n : rOffsets'[i] = IF i = k THEN rOffsets[k] - 1 ELSE rOffsets[i]
  BY <1>1, <1>2, <1>3, ExceptSeq
<1> QED BY <1>1, <1>3, <1>4, <1>5

\* Every gap left was there with the same first number, and was no shorter.
LEMMA LateGapsKept ==
  ASSUME IInv, NEW p \in Packets, ReadLate(p)
  PROVE  \A i \in 1..Len(rMissing') : \E j \in 1..Len(rMissing) :
           rMissing'[i] = rMissing[j] /\ rOffsets'[i] <= rOffsets[j]
<1> DEFINE k == IndexOfMin(p.seq, rMissing)
           n == Len(rMissing)
<1>1. k \in 1..n
  BY LateIndex
<1>2. /\ n \in Nat /\ \A i \in 1..n : rOffsets[i] \in Int
  BY DEF IInv, ReceiverTypeOK, GapsWellFormed, ListsAligned
<1>3. IF rOffsets[k] = 1
      THEN DropGap(k)
      ELSE rOffsets' = [rOffsets EXCEPT ![k] = @ - 1] /\ rMissing' = rMissing
  BY DEF ReadLate
<1> HIDE DEF k
<1> SUFFICES ASSUME NEW i \in 1..Len(rMissing')
             PROVE  \E j \in 1..n : rMissing'[i] = rMissing[j] /\ rOffsets'[i] <= rOffsets[j]
  OBVIOUS
<1>4. CASE rOffsets[k] = 1
  <2>1. /\ Len(rMissing') = n - 1
        /\ \A m \in 1..(n - 1) :
              /\ rMissing'[m] = IF m < k THEN rMissing[m] ELSE rMissing[m + 1]
              /\ rOffsets'[m] = IF m < k THEN rOffsets[m] ELSE rOffsets[m + 1]
    BY <1>1, <1>3, <1>4, GapGoes
  <2>2. i \in 1..(n - 1) /\ i \in 1..n /\ i + 1 \in 1..n
    BY <1>2, <2>1
  <2>3. PICK j \in {i, i + 1} : rMissing'[i] = rMissing[j] /\ rOffsets'[i] = rOffsets[j]
    BY <2>1, <2>2, Zenon
  <2>4. j \in 1..n
    BY <2>2
  <2>5. rOffsets'[i] <= rOffsets[j]
    BY <1>2, <2>3, <2>4
  <2> QED BY <2>3, <2>4, <2>5, Zenon
<1>5. CASE rOffsets[k] # 1
  BY <1>1, <1>3, <1>5, GapShrinks
<1> QED BY <1>4, <1>5

\* A gap that shrinks or goes disturbs no other one.
LEMMA ReadLateInv ==
  ASSUME IInv, NEW p \in Packets, ReadLate(p)
  PROVE  IInv'
<1>1. /\ reads' \in 0..NumPackets /\ recvPackets' \in 0..NumPackets
      /\ recvPackets' <= reads' /\ data' \subseteq 1..NumPackets
      /\ rpc' = rpc /\ packetChan' = packetChan
  BY AcceptCounts DEF ReadLate, LateInGap
<1>2. /\ UNCHANGED <<highest, tick, start>> /\ tick # "round" /\ start = 0
      /\ p.seq \in Int /\ highest \in Int
  BY PartAssumption
  DEF ReadLate, LateInGap, Packets, SequenceNumbers, IInv, ReceiverTypeOK, tickVars,
      RoundInBounds
<1> DEFINE n == Len(rMissing)
           k == IndexOfMin(p.seq, rMissing)
<1>3. /\ rMissing \in Seq(Int) /\ rOffsets \in Seq(Int)
      /\ n \in Nat /\ Len(rOffsets) = n
      /\ \A i \in 1..n : rMissing[i] \in Int /\ rOffsets[i] \in Int
      /\ \A i \in 1..n : rMissing[i] >= 1 /\ rOffsets[i] >= 1
                         /\ rMissing[i] + rOffsets[i] <= highest
      /\ \A j \in 1..n : \A i \in 1..(j - 1) :
           rMissing[i] + rOffsets[i] < rMissing[j]
  BY DEF IInv, ReceiverTypeOK, GapsWellFormed, ListsAligned, GapsBelowHighest,
         GapsDisjoint
<1>4. k \in 1..n
  BY LateIndex
<1>5. IF rOffsets[k] = 1
      THEN DropGap(k)
      ELSE /\ rOffsets' = [rOffsets EXCEPT ![k] = @ - 1]
           /\ rMissing' = rMissing
  BY DEF ReadLate
<1> HIDE DEF k
<1>6. /\ rMissing' \in Seq(Int) /\ rOffsets' \in Seq(Int)
      /\ ListsAligned' /\ GapsBelowHighest' /\ GapsDisjoint'
  <2>1. CASE rOffsets[k] = 1
    <3>1. /\ rMissing' \in Seq(Int) /\ rOffsets' \in Seq(Int)
          /\ Len(rMissing') = n - 1 /\ Len(rOffsets') = n - 1
          /\ \A i \in 1..(n - 1) :
               /\ rMissing'[i] = IF i < k THEN rMissing[i] ELSE rMissing[i + 1]
               /\ rOffsets'[i] = IF i < k THEN rOffsets[i] ELSE rOffsets[i + 1]
      BY <1>4, <1>5, <2>1, GapGoes
    <3>2. GapsBelowHighest'
      <4> SUFFICES ASSUME NEW i \in 1..(n - 1)
                   PROVE  /\ rMissing'[i] >= 1 /\ rOffsets'[i] >= 1
                          /\ rMissing'[i] + rOffsets'[i] <= highest'
        BY <3>1 DEF GapsBelowHighest
      <4>1. i \in 1..n /\ i + 1 \in 1..n
        BY <1>3
      <4> QED BY <1>2, <1>3, <3>1, <4>1
    <3>3. GapsDisjoint'
      <4> SUFFICES ASSUME NEW j \in 1..(n - 1), NEW i \in 1..(j - 1)
                   PROVE  rMissing'[i] + rOffsets'[i] < rMissing'[j]
        BY <3>1 DEF GapsDisjoint
      <4> DEFINE ii == IF i < k THEN i ELSE i + 1
                 jj == IF j < k THEN j ELSE j + 1
      <4>1. /\ i \in 1..(n - 1)
            /\ jj \in 1..n /\ ii \in 1..(jj - 1)
        BY <1>3, <1>4, SMTT(30)
      <4>2. /\ rMissing'[i] = rMissing[ii] /\ rOffsets'[i] = rOffsets[ii]
            /\ rMissing'[j] = rMissing[jj]
        BY <3>1, <4>1
      <4> HIDE DEF ii, jj
      <4> QED BY <1>3, <4>1, <4>2
    <3> QED BY <3>1, <3>2, <3>3 DEF ListsAligned
  <2>2. CASE rOffsets[k] # 1
    <3>1. /\ rMissing' = rMissing /\ rOffsets' \in Seq(Int) /\ Len(rOffsets') = n
          /\ \A i \in 1..n :
               /\ rOffsets'[i] \in Int
               /\ rOffsets'[i] <= rOffsets[i] /\ rOffsets'[i] >= 1
      BY <1>4, <1>5, <2>2, GapShrinks
    <3>2. GapsBelowHighest'
      <4> SUFFICES ASSUME NEW i \in 1..n
                   PROVE  /\ rMissing[i] >= 1 /\ rOffsets'[i] >= 1
                          /\ rMissing[i] + rOffsets'[i] <= highest
        BY <1>2, <3>1 DEF GapsBelowHighest
      <4> QED BY <1>2, <1>3, <3>1
    <3>3. GapsDisjoint'
      <4> SUFFICES ASSUME NEW j \in 1..n, NEW i \in 1..(j - 1)
                   PROVE  rMissing[i] + rOffsets'[i] < rMissing[j]
        BY <3>1 DEF GapsDisjoint
      <4>1. i \in 1..n
        BY <1>3
      <4> QED BY <1>3, <3>1, <4>1, SMTT(30)
    <3> QED BY <1>3, <3>1, <3>2, <3>3 DEF ListsAligned
  <2> QED BY <2>1, <2>2
<1>7. highest' \in 0..NumPackets
  BY <1>2 DEF IInv, ReceiverTypeOK
<1> QED
  BY <1>1, <1>2, <1>6, <1>7 DEF IInv, ReceiverTypeOK, GapsWellFormed, RoundInBounds

\* The steps that leave the gap lists and the round alone.
LEMMA GapsUntouched ==
  ASSUME IInv, UNCHANGED <<highest, rMissing, rOffsets, tick, start>>,
         rpc = "replaced" => rpc' = "replaced"
  PROVE  GapsWellFormed' /\ RoundInBounds'
BY DEF IInv, GapsWellFormed, ListsAligned, GapsBelowHighest, GapsDisjoint,
       RoundInBounds

\* One iteration of the loop that sends request packets.
LEMMA RequestRetransfersInv ==
  ASSUME IInv, RequestRetransfers
  PROVE  IInv'
<1>1. UNCHANGED <<rpc, reads, recvPackets, data, packetChan, highest, rMissing, rOffsets>>
  BY DEF RequestRetransfers, readVars, gapVars
<1>2. GapsWellFormed'
  BY <1>1 DEF IInv, GapsWellFormed, ListsAligned, GapsBelowHighest, GapsDisjoint
<1>3. start \in Nat /\ Len(rMissing) \in Nat /\ ChunkEnd \in Nat
  BY ReceiverAssumption DEF IInv, ReceiverTypeOK, ChunkEnd, MinInt
<1>4. RoundInBounds' /\ start' \in Nat /\ tick' \in {"idle", "round"}
  BY <1>1, <1>3 DEF RequestRetransfers, RoundEnds, RoundInBounds
<1> QED BY <1>1, <1>2, <1>4 DEF IInv, ReceiverTypeOK

\* Every step keeps the invariant.
LEMMA NextInv == IInv /\ [ReceiverNext]_recvVars => IInv'
<1> SUFFICES ASSUME IInv, [ReceiverNext]_recvVars PROVE IInv'
  OBVIOUS
<1>1. CASE \E p \in Packets : ReadPacket(p)
  <2>1. PICK p \in Packets : ReadPacket(p)
    BY <1>1
  <2>2. CASE ReadRefused(p)
    <3>1. UNCHANGED <<highest, rMissing, rOffsets, tick, start, rpc, recvPackets, data>>
      BY <2>2 DEF ReadRefused, gapVars, tickVars
    <3>2. /\ packetChan' \in 0..PacketChanCap /\ reads' \in 0..NumPackets
          /\ recvPackets <= reads'
      BY <2>2, PartAssumption, ReceiverAssumption
      DEF ReadRefused, InLoop, IInv, ReceiverTypeOK
    <3> QED BY <3>1, <3>2, GapsUntouched DEF IInv, ReceiverTypeOK
  <2>3. CASE ReadBlocks(p)
    BY <2>3, GapsUntouched DEF ReadBlocks, InLoop, IInv, ReceiverTypeOK, gapVars, tickVars
  <2> QED
    BY <2>1, <2>2, <2>3, ReadInOrderInv, ReadAheadInv, ReadLateInv DEF ReadPacket
<1>2. CASE ReadError
  BY <1>2, GapsUntouched DEF ReadError, InLoop, IInv, ReceiverTypeOK, gapVars, tickVars
<1>3. CASE SendPartFinish
  BY <1>3, GapsUntouched DEF SendPartFinish, IInv, ReceiverTypeOK, gapVars, tickVars
<1>4. CASE StopRetransfers
  <2>1. UNCHANGED <<reads, recvPackets, data, packetChan, highest, rMissing, rOffsets, start>>
    BY <1>4 DEF StopRetransfers, gapVars
  <2>2. GapsWellFormed'
    BY <2>1 DEF IInv, GapsWellFormed, ListsAligned, GapsBelowHighest, GapsDisjoint
  <2> QED BY <1>4, <2>1, <2>2 DEF StopRetransfers, IInv, ReceiverTypeOK, RoundInBounds
<1>5. CASE RequestRetransfers
  BY <1>5, RequestRetransfersInv
<1>6. CASE UNCHANGED recvVars
  BY <1>6, GapsUntouched DEF recvVars, IInv, ReceiverTypeOK
<1>7. CASE ReplaceContext
  <2>1. /\ rpc' = "replaced" /\ reads' = 0 /\ highest' = 0 /\ recvPackets' = 0
        /\ rMissing' = <<>> /\ rOffsets' = <<>> /\ data' = {}
        /\ UNCHANGED <<packetChan, tick, start>>
    BY <1>7 DEF ReplaceContext, tickVars
  <2>2. GapsWellFormed'
    BY <2>1 DEF GapsWellFormed, ListsAligned, GapsBelowHighest, GapsDisjoint
  <2> QED BY <2>1, <2>2, PartAssumption DEF IInv, ReceiverTypeOK, RoundInBounds
<1> QED BY <1>1, <1>2, <1>3, <1>4, <1>5, <1>6, <1>7 DEF ReceiverNext

\* The invariant holds in every state of every behaviour.
LEMMA ReceiverInvariant == ReceiverSpec => []IInv
BY InitInv, NextInv, PTL DEF ReceiverSpec

\* The receiver's state keeps its types.
THEOREM ReceiverTypeCorrect == ReceiverSpec => []ReceiverTypeOK
BY ReceiverInvariant, PTL DEF IInv

\* The two gap lists stay aligned, increasing, disjoint and below the highest
\* packet, whatever DeSerializePacket (partcontext.go:113) is given.
THEOREM GapsStayWellFormed == ReceiverSpec => []GapsWellFormed
BY ReceiverInvariant, PTL DEF IInv

\* Under the context it began with, a round of requestRetransfers never takes
\* the branch for "possible race condition occurred" (controlplane.go:408).
THEOREM RoundsStayInList == ReceiverSpec => []RoundStaysInList
<1>1. IInv => RoundStaysInList
  BY ReceiverAssumption
  DEF IInv, ReceiverTypeOK, RoundInBounds, RoundStaysInList, ChunkEnd, MinInt
<1> QED BY <1>1, ReceiverInvariant, PTL

-----------------------------------------------------------------------------
(* The books of the receiver: what each gap owes.                          *)

\* The first number of gap i; behind the last gap, the number after the highest.
Edge(i) == IF i > Len(rMissing) THEN highest + 1 ELSE rMissing[i]

\* The numbers missing in [a, b) when those of d have come.
Owing(a, b, d) == (a..(b - 1)) \ d

\* GapsOweTheirPackets in terms of the edges.
Owed ==
  /\ Owing(1, Edge(1), data) = {}
  /\ \A i \in 1..Len(rMissing) :
       rOffsets[i] = Cardinality(Owing(Edge(i), Edge(i + 1), data))

\* What is proved inductive beside IInv: data and its number, and the books.
Books ==
  /\ data \subseteq 1..highest
  /\ highest > 0 => highest \in data
  /\ Cardinality(data) <= recvPackets
  /\ recvPackets = Cardinality(data) => Owed

\* The edges increase.
LEMMA Edges ==
  ASSUME IInv
  PROVE  /\ Len(rMissing) \in Nat /\ highest \in Nat
         /\ \A i \in 1..(Len(rMissing) + 1) : Edge(i) \in 1..(highest + 1)
         /\ \A i, j \in 1..(Len(rMissing) + 1) : i < j => Edge(i) < Edge(j)
<1> DEFINE n == Len(rMissing)
<1>1. /\ n \in Nat /\ highest \in Nat
      /\ \A i \in 1..n : /\ rMissing[i] \in Int /\ rOffsets[i] \in Int /\ rOffsets[i] >= 1
                         /\ rMissing[i] >= 1 /\ rMissing[i] + rOffsets[i] <= highest
      /\ \A j \in 1..n : \A i \in 1..(j - 1) : rMissing[i] + rOffsets[i] < rMissing[j]
  BY PartAssumption
  DEF IInv, ReceiverTypeOK, GapsWellFormed, ListsAligned, GapsBelowHighest, GapsDisjoint
<1>2. \A i \in 1..(n + 1) : Edge(i) \in 1..(highest + 1)
  BY <1>1 DEF Edge
<1>3. ASSUME NEW i \in 1..(n + 1), NEW j \in 1..(n + 1), i < j
      PROVE  Edge(i) < Edge(j)
  <2>1. i \in 1..n /\ i \in 1..(j - 1)
    BY <1>1, <1>3
  <2>2. CASE j = n + 1
    BY <1>1, <2>1, <2>2 DEF Edge
  <2>3. CASE j \in 1..n
    BY <1>1, <2>1, <2>3 DEF Edge
  <2> QED BY <1>1, <2>2, <2>3
<1> QED BY <1>1, <1>2, <1>3

\* The two forms of the property are the same.
LEMMA OwedIsProperty ==
  ASSUME IInv
  PROVE  GapsOweTheirPackets <=> (recvPackets = Cardinality(data) => Owed)
<1>1. /\ Len(rMissing) \in Nat /\ highest \in Nat /\ rMissing \in Seq(Int)
      /\ \A i \in 1..(Len(rMissing) + 1) : Edge(i) \in Int
  BY Edges DEF IInv, ReceiverTypeOK
<1>2. BelowGaps = 1..(Edge(1) - 1)
  <2>1. CASE rMissing = <<>>
    BY <1>1, <2>1 DEF BelowGaps, Edge
  <2>2. CASE rMissing # <<>>
    <3>1. Len(rMissing) >= 1
      BY <1>1, <2>2
    <3> QED BY <1>1, <2>2, <3>1 DEF BelowGaps, Edge
  <2> QED BY <2>1, <2>2
<1>3. ASSUME NEW i \in 1..Len(rMissing)
      PROVE  GapRegion(i) \ data = Owing(Edge(i), Edge(i + 1), data)
  <2>1. CASE i = Len(rMissing)
    <3>1. Edge(i) = rMissing[i] /\ Edge(i + 1) = highest + 1
      BY <1>1, <2>1 DEF Edge
    <3>2. (highest + 1) - 1 = highest
      BY <1>1
    <3> QED BY <2>1, <3>1, <3>2 DEF GapRegion, Owing
  <2>2. CASE i # Len(rMissing)
    <3>1. Edge(i) = rMissing[i] /\ Edge(i + 1) = rMissing[i + 1]
      BY <1>1, <2>2 DEF Edge
    <3> QED BY <2>2, <3>1 DEF GapRegion, Owing
  <2> QED BY <2>1, <2>2
<1>4. (BelowGaps \subseteq data) <=> (Owing(1, Edge(1), data) = {})
  BY <1>2 DEF Owing
<1> QED BY <1>3, <1>4 DEF GapsOweTheirPackets, Owed

\* A packet that is counted: when none has been counted twice, it is new.
LEMMA CountedIsNew ==
  ASSUME IInv, Books, NEW p \in Packets, Accept(p)
  PROVE  /\ Cardinality(data') <= recvPackets'
         /\ recvPackets' = Cardinality(data') => p.seq \notin data /\ Owed
         /\ data' = data \cup {p.seq} /\ p.seq \in 1..NumPackets
<1>1. /\ data \subseteq 1..highest /\ highest \in Int /\ recvPackets \in Int
      /\ Cardinality(data) <= recvPackets
      /\ recvPackets = Cardinality(data) => Owed
  BY PartAssumption DEF Books, IInv, ReceiverTypeOK
<1>2. IsFiniteSet(data)
  <2>1. IsFiniteSet(1..highest)
    BY <1>1, FS_Interval
  <2> QED BY <1>1, <2>1, FS_Subset
<1>3. Cardinality(data) \in Nat
  BY <1>2, FS_CardinalityType
<1>4. data' = data \cup {p.seq} /\ recvPackets' = recvPackets + 1 /\ p.seq \in 1..NumPackets
  BY DEF Accept, Packets, SequenceNumbers
<1>5. Cardinality(data') = IF p.seq \in data THEN Cardinality(data) ELSE Cardinality(data) + 1
  BY <1>2, <1>4, FS_AddElement
<1> QED BY <1>1, <1>3, <1>4, <1>5

\* The expected packet extends the last region by a number that has come.
LEMMA ReadInOrderBooks ==
  ASSUME IInv, Books, NEW p \in Packets, ReadInOrder(p)
  PROVE  Books'
<1> DEFINE n == Len(rMissing)
<1>1. /\ n \in Nat /\ highest \in Nat
      /\ \A i \in 1..(n + 1) : Edge(i) \in Int /\ Edge(i) <= highest + 1
  BY Edges
<1>2. /\ Cardinality(data') <= recvPackets'
      /\ recvPackets' = Cardinality(data') => p.seq \notin data /\ Owed
      /\ data' = data \cup {p.seq} /\ p.seq \in 1..NumPackets
  BY CountedIsNew DEF ReadInOrder
<1>3. /\ p.seq \in Nat \ {0} /\ p.seq \in {highest, highest + 1} /\ highest' = p.seq
      /\ rMissing' = rMissing /\ rOffsets' = rOffsets
      /\ data \subseteq 1..highest /\ (highest > 0 => highest \in data)
  BY <1>1, <1>2, PartAssumption DEF ReadInOrder, Diff, Books
<1>4. data' \subseteq 1..highest' /\ highest' \in data'
  <2>1. data' = data \cup {p.seq} /\ highest' = p.seq
    BY <1>2, <1>3
  <2>2. p.seq \in 1..p.seq /\ 1..highest \subseteq 1..p.seq
    BY <1>1, <1>3
  <2> QED BY <1>3, <2>1, <2>2
<1>5. ASSUME recvPackets' = Cardinality(data') PROVE Owed'
  <2>1. p.seq \notin data /\ Owed
    BY <1>2, <1>5
  <2>2. p.seq = highest + 1
    BY <1>1, <1>2, <1>3, <2>1
  <2>3. \A i \in 1..(n + 1) : Edge(i)' = IF i = n + 1 THEN Edge(i) + 1 ELSE Edge(i)
    BY <1>1, <1>3, <2>2 DEF Edge
  <2>4. ASSUME NEW a \in Int, NEW i \in 1..(n + 1)
        PROVE  Owing(a, Edge(i)', data') = Owing(a, Edge(i), data)
    <3>1. Edge(i) \in Int /\ Edge(i) <= highest + 1
      BY <1>1
    <3>2. CASE i = n + 1
      <4>1. Edge(i) = highest + 1 /\ Edge(i)' = highest + 2
        BY <1>1, <2>3, <3>2 DEF Edge
      <4> QED BY <1>1, <1>2, <2>2, <4>1 DEF Owing
    <3>3. CASE i # n + 1
      BY <1>1, <1>2, <2>2, <2>3, <3>1, <3>3 DEF Owing
    <3> QED BY <3>2, <3>3
  <2>5. Owing(1, Edge(1)', data') = {}
    BY <1>1, <2>1, <2>4 DEF Owed
  <2>6. ASSUME NEW i \in 1..n
        PROVE  rOffsets[i] = Cardinality(Owing(Edge(i)', Edge(i + 1)', data'))
    <3>1. Edge(i)' = Edge(i) /\ Edge(i) \in Int /\ i + 1 \in 1..(n + 1)
      BY <1>1, <2>3
    <3>2. Owing(Edge(i)', Edge(i + 1)', data') = Owing(Edge(i), Edge(i + 1), data)
      BY <2>4, <3>1
    <3> QED BY <2>1, <3>2 DEF Owed
  <2> QED BY <1>3, <2>5, <2>6 DEF Owed
<1> QED BY <1>2, <1>3, <1>4, <1>5 DEF Books

\* A packet ahead: the new region has the gap's numbers and the packet's own.
LEMMA ReadAheadBooks ==
  ASSUME IInv, Books, NEW p \in Packets, ReadAhead(p)
  PROVE  Books'
<1> DEFINE x == p.seq
<1>0. PICK n \in Nat : n = Len(rMissing)
  BY Edges
<1>1. /\ n \in Nat /\ highest \in Nat
      /\ \A i \in 1..(n + 1) : Edge(i) \in Int /\ Edge(i) <= highest + 1
  BY <1>0, Edges
<1>2. /\ Cardinality(data') <= recvPackets'
      /\ recvPackets' = Cardinality(data') => x \notin data /\ Owed
      /\ data' = data \cup {x} /\ x \in 1..NumPackets
  BY CountedIsNew DEF ReadAhead
<1>3. /\ x \in Nat /\ x > highest + 1 /\ highest' = x /\ data \subseteq 1..highest
      /\ rMissing \in Seq(Int) /\ rOffsets \in Seq(Int) /\ Len(rOffsets) = n
  BY <1>1, <1>2, <1>0, PartAssumption
  DEF ReadAhead, Diff, Books, IInv, ReceiverTypeOK, GapsWellFormed, ListsAligned
<1>4. rMissing' = Append(rMissing, highest + 1) /\ rOffsets' = Append(rOffsets, x - highest - 1)
  <2>1. x - (Diff(p) - 1) = highest + 1 /\ Diff(p) - 1 = x - highest - 1
    BY <1>1, <1>3 DEF Diff
  <2> QED BY <2>1, ReadAheadIsNew DEF ReadAhead
<1> HIDE DEF x
<1>5. /\ Len(rMissing') = n + 1
      /\ \A i \in 1..n : rMissing'[i] = rMissing[i] /\ rOffsets'[i] = rOffsets[i]
      /\ rMissing'[n + 1] = highest + 1 /\ rOffsets'[n + 1] = x - highest - 1
  BY <1>1, <1>3, <1>4, <1>0, AppendProperties
<1>6. data' \subseteq 1..highest' /\ highest' \in data'
  BY <1>1, <1>2, <1>3
<1>7. ASSUME recvPackets' = Cardinality(data') PROVE Owed'
  <2>1. Owed
    BY <1>2, <1>7
  <2>2. /\ \A i \in 1..(n + 1) : Edge(i)' = Edge(i)
        /\ Edge(n + 1)' = highest + 1 /\ Edge((n + 1) + 1)' = x + 1
    <3>1. \A i \in 1..(n + 1) : Edge(i)' = rMissing'[i]
      BY <1>1, <1>5 DEF Edge
    <3>2. /\ \A i \in 1..n : Edge(i) = rMissing[i]
          /\ Edge(n + 1) = highest + 1
      BY <1>1, <1>0 DEF Edge
    <3>3. Edge((n + 1) + 1)' = x + 1
      BY <1>1, <1>3, <1>5 DEF Edge
    <3>4. \A i \in 1..(n + 1) : i \in 1..n \/ i = n + 1
      BY <1>1
    <3>5. n + 1 \in 1..(n + 1)
      BY <1>1
    <3>6. ASSUME NEW i \in 1..(n + 1) PROVE Edge(i)' = Edge(i)
      <4>1. CASE i \in 1..n
        BY <1>5, <3>1, <3>2, <4>1
      <4>2. CASE i = n + 1
        BY <1>5, <3>1, <3>2, <4>2
      <4> QED BY <3>4, <4>1, <4>2
    <3>7. Edge(n + 1)' = highest + 1
      BY <3>2, <3>5, <3>6
    <3> QED BY <3>3, <3>6, <3>7
  <2>3. ASSUME NEW a \in Int, NEW i \in 1..(n + 1)
        PROVE  Owing(a, Edge(i)', data') = Owing(a, Edge(i), data)
    <3>1. Edge(i) \in Int /\ Edge(i) <= highest + 1 /\ Edge(i)' = Edge(i)
      BY <1>1, <2>2
    <3> QED BY <1>1, <1>2, <1>3, <3>1 DEF Owing
  <2>4. Owing(1, Edge(1)', data') = {}
    BY <1>1, <2>1, <2>3 DEF Owed
  <2>5. ASSUME NEW i \in 1..n
        PROVE  rOffsets'[i] = Cardinality(Owing(Edge(i)', Edge(i + 1)', data'))
    <3>1. Edge(i)' = Edge(i) /\ Edge(i) \in Int /\ i + 1 \in 1..(n + 1)
      BY <1>1, <2>2
    <3>2. Owing(Edge(i)', Edge(i + 1)', data') = Owing(Edge(i), Edge(i + 1), data)
      BY <2>3, <3>1
    <3> QED BY <1>5, <1>0, <2>1, <3>2 DEF Owed
  <2>6. rOffsets'[n + 1] = Cardinality(Owing(Edge(n + 1)', Edge((n + 1) + 1)', data'))
    <3>1. Owing(highest + 1, x + 1, data') = (highest + 1)..(x - 1)
      BY <1>1, <1>2, <1>3 DEF Owing
    <3>2. Cardinality((highest + 1)..(x - 1)) = x - highest - 1
      <4>1. Cardinality((highest + 1)..(x - 1)) =
              IF highest + 1 > x - 1 THEN 0 ELSE (x - 1) - (highest + 1) + 1
        BY <1>1, <1>3, FS_Interval
      <4> QED BY <1>1, <1>3, <4>1
    <3> QED BY <1>5, <2>2, <3>1, <3>2
  <2>7. \A i \in 1..(n + 1) :
          rOffsets'[i] = Cardinality(Owing(Edge(i)', Edge(i + 1)', data'))
    <3> SUFFICES ASSUME NEW i \in 1..(n + 1)
                 PROVE  rOffsets'[i] = Cardinality(Owing(Edge(i)', Edge(i + 1)', data'))
      OBVIOUS
    <3>1. CASE i = n + 1
      BY <2>6, <3>1
    <3>2. CASE i \in 1..n
      BY <2>5, <3>2
    <3> QED BY <1>1, <3>1, <3>2
  <2> QED BY <1>5, <2>4, <2>7 DEF Owed
<1> QED BY <1>2, <1>6, <1>7 DEF Books

\* A late packet is in the region of the gap it is counted against.
LEMMA LateInRegion ==
  ASSUME IInv, NEW p \in Packets, ReadLate(p)
  PROVE  LET k == IndexOfMin(p.seq, rMissing)
         IN  /\ k \in 1..Len(rMissing)
             /\ Edge(k) <= p.seq /\ p.seq < Edge(k + 1)
<1> DEFINE k == IndexOfMin(p.seq, rMissing)
<1>1. k \in 1..Len(rMissing) /\ IsIndexOfMin(p.seq, rMissing, k)
  BY LateIndex
<1>2. p.seq \in Int /\ highest \in Nat /\ Len(rMissing) \in Nat /\ p.seq < highest
  BY Edges DEF ReadLate, LateInGap, Diff, Packets, SequenceNumbers
<1>3. \A i, j \in 1..(Len(rMissing) + 1) : i < j => Edge(i) < Edge(j)
  BY Edges
<1>4. \A i \in 1..(Len(rMissing) + 1) : Edge(i) \in Int
  BY Edges
<1> HIDE DEF k
<1>5. Edge(k) = rMissing[k] /\ Edge(k) \in Int
  BY <1>1, <1>2, <1>4 DEF Edge
<1>6. CASE k = Len(rMissing)
  <2>1. Edge(k + 1) = highest + 1
    BY <1>2, <1>6 DEF Edge
  <2> QED BY <1>1, <1>2, <1>5, <2>1 DEF IsIndexOfMin, k
<1>7. CASE k # Len(rMissing)
  <2>1. /\ k < Len(rMissing) /\ Edge(k + 1) = rMissing[k + 1] /\ Edge(k + 1) \in Int
        /\ Edge(k) < Edge(k + 1)
    BY <1>1, <1>2, <1>3, <1>4, <1>7 DEF Edge
  <2> QED BY <1>1, <1>2, <1>5, <2>1 DEF IsIndexOfMin, k
<1> QED BY <1>6, <1>7

\* One number that comes takes one off its own region and nothing off another.
LEMMA RegionsOfNew ==
  ASSUME NEW a \in Int, NEW b \in Int, NEW d, NEW x \in Int, x \notin d
  PROVE  /\ x < a \/ x >= b => Owing(a, b, d \cup {x}) = Owing(a, b, d)
         /\ a <= x /\ x < b =>
              /\ Cardinality(Owing(a, b, d \cup {x})) = Cardinality(Owing(a, b, d)) - 1
              /\ Cardinality(Owing(a, b, d)) = 1 => Owing(a, b, d \cup {x}) = {}
<1>1. IsFiniteSet(a..(b - 1))
  BY FS_Interval
<1>2. IsFiniteSet(Owing(a, b, d))
  BY <1>1, FS_Subset DEF Owing
<1>3. Owing(a, b, d \cup {x}) = Owing(a, b, d) \ {x}
  BY DEF Owing
<1>4. ASSUME a <= x, x < b
      PROVE  /\ Cardinality(Owing(a, b, d) \ {x}) = Cardinality(Owing(a, b, d)) - 1
             /\ Cardinality(Owing(a, b, d)) = 1 => Owing(a, b, d) \ {x} = {}
  <2>1. x \in Owing(a, b, d)
    BY <1>4 DEF Owing
  <2>2. /\ IsFiniteSet(Owing(a, b, d) \ {x})
        /\ Cardinality(Owing(a, b, d) \ {x}) = Cardinality(Owing(a, b, d)) - 1
    BY <1>2, <2>1, FS_RemoveElement
  <2>3. ASSUME Cardinality(Owing(a, b, d)) = 1 PROVE Owing(a, b, d) \ {x} = {}
    <3>1. Cardinality(Owing(a, b, d) \ {x}) = 0
      BY <2>2, <2>3
    <3> QED BY <2>2, <3>1, FS_EmptySet
  <2> QED BY <2>2, <2>3
<1>5. ASSUME x < a \/ x >= b PROVE Owing(a, b, d) \ {x} = Owing(a, b, d)
  BY <1>5 DEF Owing
<1> QED BY <1>3, <1>4, <1>5

\* A late packet that is new: its gap has one less to owe, and goes when that was
\* the last one, its region then joining the one before.
LEMMA ReadLateBooks ==
  ASSUME IInv, Books, NEW p \in Packets, ReadLate(p)
  PROVE  Books'
<1> DEFINE n == Len(rMissing)
           k == IndexOfMin(p.seq, rMissing)
           x == p.seq
<1>1. /\ n \in Nat /\ highest \in Nat
      /\ \A i \in 1..(n + 1) : Edge(i) \in Int /\ Edge(i) >= 1
      /\ \A i, j \in 1..(n + 1) : i < j => Edge(i) < Edge(j)
  BY Edges
<1>2. /\ Cardinality(data') <= recvPackets'
      /\ recvPackets' = Cardinality(data') => x \notin data /\ Owed
      /\ data' = data \cup {x} /\ x \in 1..NumPackets
  BY CountedIsNew DEF ReadLate, LateInGap
<1>3. /\ x \in Nat \ {0} /\ x < highest /\ highest' = highest /\ data \subseteq 1..highest
      /\ highest > 0 => highest \in data
  BY <1>1, <1>2, PartAssumption DEF ReadLate, LateInGap, Diff, Books
<1>4. k \in 1..n /\ Edge(k) <= x /\ x < Edge(k + 1)
  BY LateInRegion
<1>5. IF rOffsets[k] = 1
      THEN DropGap(k)
      ELSE rOffsets' = [rOffsets EXCEPT ![k] = @ - 1] /\ rMissing' = rMissing
  BY DEF ReadLate
<1> HIDE DEF k, x
<1>6. data' \subseteq 1..highest' /\ highest' \in data'
  <2>1. x \in 1..highest
    BY <1>1, <1>3
  <2>2. data' = data \cup {x} /\ highest' = highest /\ highest \in data
    BY <1>1, <1>2, <1>3
  <2> QED BY <1>3, <2>1, <2>2
<1>7. ASSUME recvPackets' = Cardinality(data') PROVE Owed'
  <2>1. x \notin data /\ Owed
    BY <1>2, <1>7
  <2>2. \A i \in 1..n : /\ i < k => x >= Edge(i + 1)
                        /\ i > k => x < Edge(i)
    <3> SUFFICES ASSUME NEW i \in 1..n
                 PROVE  (i < k => x >= Edge(i + 1)) /\ (i > k => x < Edge(i))
      OBVIOUS
    <3>1. /\ i \in 1..(n + 1) /\ i + 1 \in 1..(n + 1)
          /\ k \in 1..(n + 1) /\ k + 1 \in 1..(n + 1)
      BY <1>1, <1>4
    <3>2. /\ Edge(i) \in Int /\ Edge(i + 1) \in Int /\ Edge(k) \in Int /\ Edge(k + 1) \in Int
      BY <1>1, <3>1
    <3>3. i < k => Edge(i + 1) <= Edge(k)
      BY <1>1, <1>4, <3>1, <3>2
    <3>4. i > k => Edge(k + 1) <= Edge(i)
      BY <1>1, <1>4, <3>1, <3>2
    <3> QED BY <1>3, <1>4, <3>2, <3>3, <3>4
  <2>3. ASSUME NEW i \in 1..n, i # k
        PROVE  Owing(Edge(i), Edge(i + 1), data') = Owing(Edge(i), Edge(i + 1), data)
    <3>1. Edge(i) \in Int /\ Edge(i + 1) \in Int /\ (x < Edge(i) \/ x >= Edge(i + 1))
      BY <1>1, <1>4, <2>2, <2>3
    <3> QED BY <1>2, <1>3, <2>1, <3>1, RegionsOfNew
  <2>4. Owing(1, Edge(1), data') = {}
    <3>1. x >= Edge(1) /\ Edge(1) \in Int
      BY <1>1, <1>3, <1>4
    <3>2. Owing(1, Edge(1), data') = Owing(1, Edge(1), data)
      BY <1>2, <1>3, <2>1, <3>1, RegionsOfNew
    <3> QED BY <2>1, <3>2 DEF Owed
  <2>5. /\ Cardinality(Owing(Edge(k), Edge(k + 1), data')) = rOffsets[k] - 1
        /\ rOffsets[k] = 1 => Owing(Edge(k), Edge(k + 1), data') = {}
    <3>1. Edge(k) \in Int /\ Edge(k + 1) \in Int
      BY <1>1, <1>4
    <3>2. rOffsets[k] = Cardinality(Owing(Edge(k), Edge(k + 1), data))
      BY <1>4, <2>1 DEF Owed
    <3> QED BY <1>2, <1>3, <1>4, <2>1, <3>1, <3>2, RegionsOfNew
  <2>6. CASE rOffsets[k] # 1
    <3>1. /\ rMissing' = rMissing
          /\ \A i \in 1..n : rOffsets'[i] = IF i = k THEN rOffsets[k] - 1 ELSE rOffsets[i]
      BY <1>4, <1>5, <2>6, GapShrinks
    <3>2. \A i \in 1..(n + 1) : Edge(i)' = Edge(i)
      BY <1>3, <3>1 DEF Edge
    <3>3. ASSUME NEW i \in 1..n
          PROVE  rOffsets'[i] = Cardinality(Owing(Edge(i)', Edge(i + 1)', data'))
      <4>1. Edge(i)' = Edge(i) /\ Edge(i + 1)' = Edge(i + 1)
        BY <1>1, <3>2
      <4>2. CASE i = k
        BY <2>5, <3>1, <4>1, <4>2
      <4>3. CASE i # k
        <5>1. rOffsets'[i] = rOffsets[i]
          BY <3>1, <4>3
        <5> QED BY <2>1, <2>3, <4>1, <4>3, <5>1 DEF Owed
      <4> QED BY <4>2, <4>3
    <3>4. Owing(1, Edge(1)', data') = {}
      BY <1>1, <2>4, <3>2
    <3> QED BY <3>1, <3>3, <3>4 DEF Owed
  <2>7. CASE rOffsets[k] = 1
    <3>1. /\ Len(rMissing') = n - 1
          /\ \A i \in 1..(n - 1) :
               /\ rMissing'[i] = IF i < k THEN rMissing[i] ELSE rMissing[i + 1]
               /\ rOffsets'[i] = IF i < k THEN rOffsets[i] ELSE rOffsets[i + 1]
      BY <1>4, <1>5, <2>7, GapGoes
    <3>2. ASSUME NEW i \in 1..n
          PROVE  Edge(i)' = IF i < k THEN Edge(i) ELSE Edge(i + 1)
      <4>1. CASE i = n
        BY <1>1, <1>3, <1>4, <3>1, <4>1 DEF Edge
      <4>2. CASE i \in 1..(n - 1)
        BY <1>1, <1>3, <1>4, <3>1, <4>2 DEF Edge
      <4> QED BY <1>1, <4>1, <4>2
    <3>3. \A a \in Int : a <= Edge(k) =>
            Owing(a, Edge(k + 1), data') = Owing(a, Edge(k), data')
      <4>1. Edge(k) \in Int /\ Edge(k + 1) \in Int /\ Edge(k) < Edge(k + 1)
        BY <1>1, <1>4
      <4>2. (Edge(k)..(Edge(k + 1) - 1)) \subseteq data'
        BY <2>5, <2>7 DEF Owing
      <4> QED BY <4>1, <4>2 DEF Owing
    <3>4. Owing(1, Edge(1)', data') = {}
      <4>1. CASE k = 1
        <5>1. Edge(1)' = Edge(1 + 1) /\ 1 <= Edge(1)
          BY <1>1, <1>4, <3>2, <4>1
        <5> QED BY <2>4, <3>3, <4>1, <5>1
      <4>2. CASE k # 1
        BY <1>1, <1>4, <2>4, <3>2, <4>2
      <4> QED BY <4>1, <4>2
    <3>5. ASSUME NEW i \in 1..(n - 1)
          PROVE  rOffsets'[i] = Cardinality(Owing(Edge(i)', Edge(i + 1)', data'))
      <4>1. i \in 1..n /\ i + 1 \in 1..n
        BY <1>1
      <4>2. CASE i >= k
        <5>1. Edge(i)' = Edge(i + 1) /\ Edge(i + 1)' = Edge((i + 1) + 1)
          BY <1>4, <3>2, <4>1, <4>2
        <5>2. rOffsets'[i] = rOffsets[i + 1] /\ i + 1 # k
          BY <1>4, <3>1, <4>2
        <5> QED BY <2>1, <2>3, <4>1, <5>1, <5>2 DEF Owed
      <4>3. CASE i + 1 < k
        <5>1. Edge(i)' = Edge(i) /\ Edge(i + 1)' = Edge(i + 1)
          BY <1>4, <3>2, <4>1, <4>3
        <5>2. rOffsets'[i] = rOffsets[i] /\ i # k
          BY <1>4, <3>1, <4>3
        <5> QED BY <2>1, <2>3, <4>1, <5>1, <5>2 DEF Owed
      <4>4. CASE i + 1 = k
        <5>1. Edge(i)' = Edge(i) /\ Edge(i + 1)' = Edge(k + 1)
          BY <1>4, <3>2, <4>1, <4>4
        <5>2. rOffsets'[i] = rOffsets[i] /\ i # k
          BY <1>4, <3>1, <4>4
        <5>3. Edge(i) \in Int /\ Edge(i) <= Edge(k)
          BY <1>1, <1>4, <4>1, <4>4
        <5>4. Owing(Edge(i)', Edge(i + 1)', data') = Owing(Edge(i), Edge(i + 1), data')
          BY <3>3, <4>4, <5>1, <5>3
        <5> QED BY <2>1, <2>3, <4>1, <5>2, <5>4 DEF Owed
      <4> QED BY <1>4, <4>2, <4>3, <4>4
    <3> QED BY <3>1, <3>4, <3>5 DEF Owed
  <2> QED BY <2>6, <2>7
<1> QED BY <1>2, <1>3, <1>6, <1>7 DEF Books

LEMMA BooksNext ==
  ASSUME IInv, Books, [ReceiverNext]_recvVars
  PROVE  Books'
<1>1. CASE UNCHANGED <<recvPackets, data, rMissing, rOffsets, highest>>
  BY <1>1 DEF Books, Owed, Edge
<1>2. CASE \E p \in Packets : ReadPacket(p)
  <2>1. PICK p \in Packets : ReadPacket(p)
    BY <1>2
  <2>2. CASE ReadRefused(p) \/ ReadBlocks(p)
    BY <1>1, <2>2 DEF ReadRefused, ReadBlocks, gapVars
  <2> QED BY <2>1, <2>2, ReadInOrderBooks, ReadAheadBooks, ReadLateBooks DEF ReadPacket
<1>3. CASE ReadError \/ SendPartFinish \/ StopRetransfers \/ RequestRetransfers
  BY <1>1, <1>3
  DEF ReadError, SendPartFinish, StopRetransfers, RequestRetransfers, gapVars, readVars
<1>4. CASE ReplaceContext
  <2>1. /\ recvPackets' = 0 /\ data' = {} /\ highest' = 0
        /\ rMissing' = <<>> /\ rOffsets' = <<>>
    BY <1>4 DEF ReplaceContext
  <2> QED BY <2>1, FS_EmptySet DEF Books, Owed, Owing, Edge
<1>5. CASE UNCHANGED recvVars
  BY <1>1, <1>5 DEF recvVars
<1> QED BY <1>2, <1>3, <1>4, <1>5 DEF ReceiverNext

\* As long as no packet is counted twice, DeSerializePacket (partcontext.go:113)
\* keeps exact books of what is missing: all before the first gap has come, and
\* each gap owes as many packets as are missing before the next one.
THEOREM BooksAreExact == ReceiverSpec => []GapsOweTheirPackets
<1>1. ReceiverInit => Books
  BY FS_EmptySet DEF ReceiverInit, Books, Owed, Owing, Edge
<1>2. IInv /\ Books /\ [ReceiverNext]_recvVars => Books'
  BY BooksNext
<1>3. IInv /\ Books => GapsOweTheirPackets
  BY OwedIsProperty DEF Books
<1> QED BY <1>1, <1>2, <1>3, ReceiverInvariant, PTL DEF ReceiverSpec
=============================================================================
