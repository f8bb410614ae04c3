# A TLA+ verification of parts

parts is a transport protocol over SCION/UDP written in Go. `PartsConn.Write`
sends one buffer (a *part*) as numbered packets and keeps sending what the
receiver asks for again until a finish message arrives; `PartsConn.Read` collects
the packets and asks for the ones it misses. The modules in this directory model
that transfer, the connection that carries one part after another, the multipath
socket, the rate control and the single-packet transfer, check them with TLC on
small instances, and prove their invariants with TLAPS for every size.

## 1. The system

| Component | Source | State | Operations |
|---|---|---|---|
| Part receiver | `dataplane.go` ReadPart, `partcontext.go` DeSerializePacket, `controlplane.go` requestRetransfers, sendPartFinish | HighestSequenceNumber, the parallel lists MissingSequenceNums / MissingSequenceNumOffsets (the gaps), RecvPackets, the buffer, PacketChan | read one packet; one chunk of requests per tick of 50 ms; finish |
| Part sender | `dataplane.go` WritePart, RetransferMissingPackets, SetState; `controlplane.go` HandleAckPackets, handlePartAckPacket | next sequence number, the dataplane's state, the sender's copy of the two lists | send a packet; a pass over the list; add the gaps of a request; take the finish message |
| Rate control | `ratecontrol.go` | congestion window, phase, loss measurement, counters of the phases | Start, Stop, Add, AddAckMessage |
| Single-packet transfer | `dataplane.go` WriteSingle, ReadSingle | part id | send until the id comes back; return a packet and echo it |
| Connection and handshake | `conn.go`, `controlplane.go` (Accept, Handshake, AwaitHandshake), `handshake.go` | current part id, the dataplane's state and mutex, the goroutines earlier parts left, PacketChan | Dial, Listen, Accept, one handshake per part, Write after Write, Read after Read |
| Multipath socket | `mp.go` | list of connections | open and accept all, split a buffer over them |
| Metrics | `metrics.go` | counters | Collect, Stop |
| Packers, sockets | `partspacker.go`, `scionpacker`, `optimizedconn` | - | header bytes, system calls |
| Helpers | `utils.go` | - | IndexOf, IndexOfMin, RemoveFromSliceByIndex, Min, CeilForceInt, Sum ... |

Interaction. `Write` runs WritePart and then RetransferMissingPackets on the
caller's goroutine while HandleAckPackets runs on another; they share the
PartContext (its mutex is taken by the writers of the lists only) and the
dataplane's state. `Read` runs ReadPart on the caller's goroutine while
requestRetransfers runs on a ticker; they share the PartContext and are joined by
an unbuffered stop channel. The two hosts exchange data packets one way and
PartRequestPackets (a list of gaps, or the finish message) the other way.
Before each part its id goes to the receiver in a handshake and comes back as the
answer. A multipath socket calls Write or Read of all its connections at once.

What is hard: four goroutines on two hosts; requests that are old when they are
handled; lists read without the mutex; a finish message that is sent once; a gap
that only a later packet reveals; a loop that counts packets read and not packets
received; channels nobody receives from; goroutines and a locked mutex that one part
leaves to the next, and messages that nobody tells apart by their part.

What makes each part correct:

* receiver: the gap lists stay sorted, disjoint, aligned and below the highest
  number, they tell exactly what is missing until a packet has been counted twice,
  a round of requests stays inside the list;
* sender: only packets that were sent are asked for, one pass sends nothing twice,
  the two lists agree between handlings, a half-seen append is all that can end the
  process, Write does not return before Read is done;
* the transfer: Read ends with the whole part, both calls return;
* rate control: the window is never 0 and never above its maximum, whatever the
  loss measurement says, and how small a window can still grow;
* single packets: a Write that returned was read, each packet is read once, and
  Writes return;
* the connection: parts are read in the order they were written, each once, Write
  returns after its Read, and no goroutine of one part disturbs another;
* multipath: the slices of a buffer are in bounds and arrive in their places as long
  as their connections work, AcceptMP leaves nobody behind.

## 2. Modules

| Module | Models | Notes |
|---|---|---|
| `Utils` | `utils.go` | Go slices as sequences, index k as position k + 1, -1 as 0; GoDiv is Go's truncating division |
| `Part` | PartPacket, PartRequestPacket | what both sides of a part share |
| `PartReceiver` | ReadPart, DeSerializePacket, requestRetransfers, FinishReadpart | usable alone (ReceiverSpec) against a network that delivers anything |
| `PartSender` | WritePart, RetransferMissingPackets, HandleAckPackets, SetState | actions only; composed below |
| `PartTransfer` | Read and Write of one part with the network between them | EXTENDS both sides; every action conjoins a side's step with the network's |
| `MCPartTransfer` | - | the loss patterns that configurations choose from |
| `ReliablePart` | what README.md of the repository promises | abstract specification; refinement in PartTransfer!RP |
| `RateControl` | `ratecontrol.go` | over any number of parts |
| `Network` | UDP sockets (external) | bounded numbers of losses, mixups and failing calls, for the two modules below |
| `SinglePacket` | WriteSingle, ReadSingle | over successive calls |
| `Connection` | Dial, Accept, Handshake, AwaitHandshake, Write after Write and Read after Read | EXTENDS Network |
| `PartStream` | what README.md promises of a sequence of parts | abstract specification; refinement in Connection!PS |
| `Multipath` | `mp.go` | its connections do what the modules above show of PartsConn |
| `UtilsProofs` | - | lemmas about the helpers, and about removing from queues and lists |
| `PartReceiverProofs`, `PartTransferProofs`, `RateControlProofs`, `SinglePacketProofs`, `ConnectionProofs`, `MultipathProofs` | - | theorems about the module of that name |

### PartReceiver

`rpc`, `reads` are ReadPart's position and loop variable; `highest`, `rMissing`,
`rOffsets`, `recvPackets` fields of the PartContext; `data` the sequence numbers
whose payload has been copied into the caller's buffer; `packetChan` the fill of
PacketChan; `tick`, `start` the round of requestRetransfers. One packet is one step
(`ReadInOrder`, `ReadAhead`, `ReadLate`, `ReadRefused`, `ReadBlocks`): the
branches that touch the lists take the mutex, which requestRetransfers holds for a
whole round, so they wait while `tick = "round"`. IndexOfMin is evaluated before
the mutex is taken; only ReadPart's own goroutine changes the receiver's lists, so
it makes no difference. One iteration of the request loop is one step; `start`
advances by `min`, as in the code, and not by the size of the chunk.

A Read that fails leaves requestRetransfers running, and that reads cp.PartContext
anew at every use. `ReplaceContext` is the next Read putting its empty context there,
in the middle of a round too: the left-over round then finds `start` beyond the new
list and takes the branch that logs a possible race (controlplane.go:408).

### PartSender

`spc` is Write's position, `rangeLen`/`rangeIdx` the evaluated range statement,
`hpc`/`hmsg`/`hpos` handlePartAckPacket's. The two appends of a gap are two steps
under the mutex; ResetRetransfers needs the mutex; the range loop does not take it
and may run between the two appends. That read is a data race: the new length of a
slice may be seen before its new element. `Garbage` is what such an element may
be read as. The lists are reset to empty slices, so the first appends allocate, and
a slot that was just allocated may hold anything; the run takes 0 and a number
beyond the part, the theorems any set of integers. With `Garbage = {}` every append
is seen whole.
The other unlocked read, IndexOf in handlePartAckPacket while the lists are being
reset, is taken as atomic: it can only make a request be skipped that the next
tick repeats. `hpc = "stopping"` is the goroutine that stays for good in
metrics.Stop, because nothing calls Collect. RetransferGap sends the packets of one
gap in one step.

### PartTransfer

Each direction of the network is a sequence. `Losses` says which first
transmissions may be lost; `LossyControl` lets requests and the finish message be
lost; `Reorder` lets packets overtake; `ConnErrors` lets calls on sockets fail;
`DataBuf` is the socket buffer (a packet that finds it full is dropped, also one
that is retransferred); `MaxRequests` bounds the requests under way. Copies of a
packet come from retransfers.

### RateControl

The integer fields keep their names. A request packet is what AddAckMessage reads
of it. Any request may come at any time a part is being sent, as UDP allows. A Write
that fails does not call Stop, and its handler stays (`leftOver`), so requests are
then counted between parts too, where the switch over the state does nothing
(`IdleRound`). The unlocked Add may overwrite AddAckMessage's reset of the interval's
counters. The time-based fields (interval lengths, sleeps) are left out: nothing
depends on them. No field can overflow its 64 bits in a real run, so the integers are
unbounded.

### SinglePacket

A packet is its part id. The loop of WriteSingle alternates "send" and "await".

### Connection

On the sender `wpc` is the position of Dial and Write. For each part
`socketReader` is the goroutine inside HandleAckPackets that reads the socket (it
never ends; what it has read and wants to hand over is its value) and `handler` is
HandleAckPackets itself: "locking" when it handles the finish message and SetState
wants the dataplane's mutex, "stopping" when it has it and stays in metrics.Stop.
Handshake's read and all these goroutines take packets from the same socket. On
the receiver `rpc` is the position of Accept and Read, `tickers` counts the
requestRetransfers goroutines (a failed Read leaves its own), `rounds` those between
Lock and Unlock, `locked` the mutex of the current PartContext: each part has a new
one, and unlocking one that is not locked ends the process (`rpc = "crashed"`).

Parts have one packet, which a buffer of 1200 bytes or a few more really has, so
the lists of gaps stay empty; what the lists do is PartTransfer's subject. The
messages to the sender carry a part id nobody looks at, so they are reduced to
their kind. Data that AwaitHandshake meets does not decode (it begins with the
zeros of a part id); an answer that HandleAckPackets meets does not decode either
(no field of it is one of a request). Errors of socket writes that the code ignores
are lost packets. Only one side writes: connections that write both ways would have
two goroutines of one host read the same socket from the start.

### Multipath

`socket`, `conns` follow ListenMP and DialMP, `apc`, `acceptor`, `taken` AcceptMP
and its goroutines at the unbuffered errChan, `writer` and `reader` the goroutines of
a Write and a Read. Write and Read compute the split each for itself. `link` holds the
slices a connection has been given and not delivered.

A connection does what the other modules show of PartsConn. A slice of PayloadSize
bytes or more is a part (`IsPart`), a shorter one a single packet. Single packets, and
the first part after them, are delivered (SingleWriteReturns, FirstPartArrives) and
their Writes may return after that; fairness does not make them, since Write of a
part may loop for ever (`write_returns`). Once a connection has carried a part
(`Carried`) the goroutines of that part are in the way: a later call may hang, a Read
may return without its bytes (`ReadConnAstray`), and the Write of a second part
returns only if a call has failed (SecondWriteNeverReturns). The same holds after a
call has failed or a packet was lost (`failures`): ReadPart counts copies and returns
without an error (dataplane.go:314). Errors are ignored, as in the code, which also
returns n = 0 from every split Write and Read.

## 3. Runs

| Run | Checks | Shows |
|---|---|---|
| `receiver_gaps` | ReceiverTypeOK, GapsWellFormed, GapsOweTheirPackets, RoundStaysInList | the receiver with six packets of its own and of another part, in any order and any number of times: its lists stay well formed, they are exact until a packet is counted twice, and rounds stay inside them |
| `faulty_network` | TypeOK, OnlySentRequested, WriteAfterRead, ListsSettle, PassSendsOnce, CrashOnlyMidAppend | both sides over a network with every fault at once, two gaps of different age in the sender's list, and half-seen appends |
| `one_burst` | PartIsReliable, ReadReturns, FinishEndsRetransfer | in-order delivery and one burst of loss: the transfer implements ReliablePart, Read returns, the finish message ends the loop |
| `window` | TypeOK, WindowInRange, SmallWindowStays | the rate control over any sequence of parts, failed Writes and requests |
| `single_packets` | TypeOK, WrittenIsRead, ReadOnce, SingleWriteReturns | three single-packet Writes, with loss, copies, reordering and errors |
| `connection` | TypeOK, TickersStop, UnlocksItsOwn, PartsInOrder, FirstPartArrives | two parts on one connection with every fault: it implements PartStream while packets keep their order and no call fails (loss allowed); only failed calls leave a ticker behind or let a round unlock another part's context; the first part arrives |
| `multipath` | TypeOK, PanicsOnlyWhenShort, ReadFillsBuffer, AcceptsAll, ReadHasItsWrite | four connections and two buffers, small, too short for the split, split into single packets, and split into parts |
| `two_losses` | PartIsReliable, violated | see findings |
| `write_returns` | WriteReturns, violated | see findings |
| `tail_loss` | ReadReturns, violated | see findings |
| `loss_percent` | LossIsPercent, violated | see findings |
| `second_part` | SecondWriteReturns, violated | see findings |

Deadlock is not checked: a transfer ends, a failed call stops, and a goroutine
that blocks for good is a behaviour of the code, which the liveness properties
speak about.

### Bounds and why they are enough

* Receiver: six packets are enough for three gaps at a time, for gaps of two and
  more, and for chunks of requests that are skipped; one gap per request packet
  instead of 100 makes several chunks happen; a PacketChan of two places fills up.
* Faulty network: four packets are the fewest for two gaps, and give gaps of one
  to three, requests before and after one shrinks, and a full socket buffer of two.
  Two requests and the finish message can be under way at once and overtake each
  other. Any set of first transmissions may be lost. An unwritten slot reads as 0
  (a number 0 ends the process, an offset 0 sends nothing) or as 9, which is beyond the
  part.
* One burst: four packets and every burst among the first three.
* Rate control: a window that starts at 4 and has a maximum of 7 meets every rounding,
  and losses take it below 3; drain windows of two rounds; counters up to 8 pass the wait of four rounds and several windows;
  `MaxPackets` bounds what requests report. The constants of the code are 100,
  150000 and 20, and the theorems hold for them too.
* Single packets: three Writes, and three packets repeated or overtaken, let
  an answer of the first Write arrive in the third.
* Connection: two parts are the fewest for one to disturb the next; since the second
  Write does not return by itself, a third part only adds goroutines that block. Two
  failing calls give two tickers besides the Read's own, or a Write and a Read that
  fail; a PacketChan of one place fills up.
* Multipath: with four connections and a payload size of 3, buffers of 3, 4, 5 and 9
  bytes are a part on one connection, four single packets, a panic, and three parts
  with an empty single packet; 9 is also (4 - 1)^2, the bound of
  PanicsOnlyWhenShort. Two calls
  give every order of these, among them single packets before parts, which must
  arrive, and parts before anything, which may hang. One failure is enough: after it
  nothing is promised of the connections.

### Fairness

Every goroutine goes on while it can (weak fairness of Write's, the handler's,
Read's and the ticker's steps): the Go scheduler is preemptive and the ticker keeps
ticking. The steps that wait for a mutex or in a select get strong fairness: Go's
mutex hands over to the longest waiter after 1 ms, and select picks among ready
cases at random. Between two passes RetransferMissingPackets sleeps 100 ms; in that
time (`spc = "loop"`) a tick of 50 ms and the handling of a request do happen, again
and again. Nothing is assumed of the network beyond what the constants say: with
`LossyControl = FALSE` requests arrive, and retransferred packets if the buffer has room. In SinglePacket a call that
has begun goes on and the peer keeps reading; beginning a Write is not fair. The
same holds in Connection, where the ticker ticks and rounds end too (the one step
that waits in a select, StopRetransfers, gets strong fairness), and in Multipath,
where beginning a Read is not fair either, nor is any goroutine on a connection that
has carried a part or failed, nor the return of a Write. Their liveness properties exempt
behaviours with faults.

## 4. Findings

Each is the counterexample of a run, against a line of the repository.

* `two_losses`: ReadPart ends after NumPackets packets *read*, and copies and
  refused packets are read too. With packets 2 and 4 of 5 lost once, a second copy
  of 2 takes the place of 4. Reordering alone has the same effect (set
  `Losses <- NoLoss`, `Reorder = TRUE`): a late packet is requested although it is
  on its way, and its copy is counted.
* `write_returns`: the finish message may be handled before
  RetransferMissingPackets sets its state, which then overwrites it; Write loops for
  ever on a network that loses nothing.
* `tail_loss`: nothing reveals that the last packet is missing; Read and Write wait
  for ever.
* `loss_percent`: packetLossPercent, "between 1 and 100" by its comment, is the
  quotient of missing packets and packets *received*. When packets 1 and 2 are lost
  and 3 arrives it is 200; when a round names fewer missing packets than the one
  before it is negative, which counts as no loss. The window stays in its range
  nevertheless (WindowInRange).
* `second_part`: the goroutine that read the socket for the first part is never
  stopped (FinishWritepart leaves that out) and can take the answer that the second
  Write's handshake waits for. Also if it does not, SetState waits for the mutex
  that metrics.Stop has kept since the first finish message, so on this code no
  second Write of a part returns without an error.

The models also contain, without a run of their own: the end of the process by
"error 0 sequenceNumber" when a half-written element is read (`spc = "zero"`); Read
blocked on a full PacketChan (`rpc = "blocked"`); a packet returned by two Reads of
SinglePacket after a mixup; a single-packet Write that waits for ever after one loss,
as WriteSingle has no timeout; the end of the receiver's process when a ticker that a
failed Read left behind unlocks the next part's context (`rpc = "crashed"` in
Connection); a copy of Dial's handshake that AwaitHandshake takes for the first
part's, after which Read and Write both return and the data is lost; the panic of a
split of 1201 bytes over 40 connections; a number that is neither received nor owed:
of packets 1, 3, 4 and a copy of 3 the copy closes the gap at 2; counters of the drain
phase that are kept for a connection's whole life, so that only the second to fifth of
all its drain rounds wait, and rounds of an earlier drain phase count towards the next
probing.

## 5. Proofs

TLAPS proves these for all values of the constants that satisfy the modules'
assumptions: PartAssumption, ReceiverAssumption, RateControlAssumption and
MultipathAssumption (sizes are positive, the start window lies within the maximum),
SenderAssumption (an unwritten slot holds an integer), NetworkAssumption (only packets
of the part are lost, a socket buffer has room for a packet), and NetworkBounds,
SinglePacketAssumption and ConnectionAssumption (the bounds are natural numbers). The
inductive invariants were checked with TLC before they were proved.

**UtilsProofs** has the lemmas about helpers: what RemoveFromSliceByIndex keeps, where
IndexOf and IndexOfMin find their element, what a chunk of a list has, what is left of
a queue that loses one element.

**PartReceiverProofs**: `ReceiverTypeCorrect`, `GapsStayWellFormed`,
`RoundsStayInList` and `BooksAreExact`. The inductive invariant `IInv` joins the
types, GapsWellFormed, recvPackets <= reads (without it recvPackets has no bound) and
`RoundInBounds`: `start` stays below the length of the list while a round is under
way and its context is the current one, and is 0 between rounds. GapsWellFormed is
needed for types as well: only in an
increasing list does IndexOfMin find an index whose offset is positive. The main cases
are `ReadAheadInv` (the new gap starts behind all others, because they end before
`highest`) and `ReadLateInv` (a shrunk gap only moves away from the next; removing one
keeps the order). RoundStaysInList follows from RoundInBounds.

BooksAreExact is about packets that are counted once (`recvPackets` is the number of
different packets received). `Books` says that recvPackets is never below that number
and what the property says, so a step that leaves them equal has received a new
packet (`CountedIsNew`). A late packet is one that is missing in the region of the gap
IndexOfMin picks (`LateInRegion`), so that gap's count and its region lose one each; a
gap that is closed owes nothing, and its region joins the one before
(`RegionsOfNew`, `ReadLateBooks`).

**PartTransferProofs**: `TypeCorrect`, `ListsAlwaysSettle`, `WriteReturnsAfterRead`,
`OnlySentAreRequested`, `OnePassSendsOnce` and `CrashesOnlyMidAppend`, for every loss,
every order of packets and of goroutines, full buffers, failing calls and every
Garbage. The last three need to know where the sender's gaps come from. A gap leaves the receiver in a
request, is overtaken by younger ones, waits in handlePartAckPacket and ends in a list
with gaps of other requests, while the receiver goes on shrinking its own. `IsGap`
ranges over all these places, and the invariant `TInv` says of them together:
`GapsBelow`, a gap lies below the highest packet received, which was sent;
`GapsApart`, two gaps of whatever age overlap only when they start at the same packet
(a gap shrinks at its upper end, and a new one starts above all others).
handlePartAckPacket adds no number that is in the list already (`ListsOK`), so no two
gaps of the sender start alike, and hence none overlap. For WriteReturnsAfterRead
`FinishAfterRead` follows the finish message from the receiver to the state it sets.

Between the append of an offset and the moment its value is in memory, an unlocked
reader finds a value of `Garbage` there, and of that nothing can be said. So the last
three speak of the gaps that are in their slots (`Settled`): all but the one being
stored. CrashesOnlyMidAppend is what that means for RetransferMissingPackets: a gap in
its slots names sent packets, so its payload lies inside the data
(`SettledHasPayload`), and the pass has not gone beyond the list (`RangeOK`); what ends
the process is the gap under construction, and that can happen.

**RateControlProofs**: `TypeCorrect`, `WindowAlwaysInRange` and
`SmallWindowNeverGrows`. The types and the range are inductive together. The window
argument rests on `GoDivShare`: a half, third, quarter or fifth of a positive window is
less than the window, so no decrease reaches 0; every increase is capped. For small
windows `GoDivSmall` says that a third and a fifth of 1 or 2 is 0.

**SinglePacketProofs**: `TypeCorrect`, `ReturnedIsRead` and `EachReadOnce`.
WrittenIsRead needs that every id on its way back was read (`AnswersWereRead`), which
holds under every fault. ReadOnce is about networks that only lose packets:
`OneUnderWay` says that then at most one packet exists, in one of the two directions,
and has not been read while it is on its way to the reader.

**ConnectionProofs**: `TypeCorrect`, `TickersAreStopped` and `UnlocksOnlyItsOwn`
hold under every fault: the tickers exceed the failed calls by at most one, and
without failed calls the only round there is has the current context locked
(`RoundHasLock`). `StreamRefined` is the refinement: while packets are at most lost
(`Clean`), every step is a step of PartStream or leaves it alone. Messages carry no
part id that anyone looks at, so the invariant `CleanInv` has to know what can be under
way in each phase of both sides: `Phase` lists the phases, `WritesReturned` and
`FinishAfterRead` say which Write has returned and why, `NotStarted` that a part's
handler starts after its handshake. The phases end with the second part because of
`SecondWriteNeverReturns`: after the first Write a goroutine keeps the dataplane's
mutex for good. That is the finding `second_part` for any number of parts, also in the
behaviours where the answer does arrive. The refinement would need another
argument if the code released that mutex.

**MultipathProofs**: `TypeCorrect`, `SlicesInBounds`, `AcceptMPAcceptsAll` and
`ReadsFillTheirBuffer`. CeilForceInt(len, n) * n exceeds len by at most n - 1
(`CeilCovers`), so the last of n slices starts at or before the end of a buffer of
(n - 1)^2 bytes or more (`LongEnough`). `IInv` adds that a socket being opened wants a
connection more and that a call under way has a buffer. For 1201 bytes, the shortest
buffer that is split, this covers up to 35 connections. AcceptsAll is a count: `taken`
is the number of results handed over, so NumConns of them are those of all
connections (`AInv`). For ReadFillsBuffer `CInv` says that while nothing disturbs the
connections of the current Read (`Sound`, which once lost stays lost: `SoundBefore`)
Write and Read are never more than one call apart (`InStep`), so a slice is read in the
call that wrote it, that each goroutine that is done has filled its slice (`Filled`),
and `SlicesCover` that the slices together are the buffer.

Only model-checked:

* what needs fairness: ReadReturns, FinishEndsRetransfer, SingleWriteReturns,
  FirstPartArrives, ReadHasItsWrite (liveness is out of the prover's reach);
* PartIsReliable, the refinement of ReliablePart. It is false in general
  (`two_losses`) and true only for one burst of loss in order, with which
  retransferred packets arrive in a pattern that no invariant above describes. The half
  of it that always holds, that Write returns after Read, is WriteReturnsAfterRead.

## 6. Not modelled

Header bytes and gob encoding (a packet is the record it carries); SCION sockets
and addresses (external); readControlPackets (never started); metrics' counters
(nothing reads them); helpers without callers; the example programs. Close and the
deadlines make socket calls fail, which the models let every socket call do. Not
combined: parts of several packets with successive parts (PartTransfer has the
first, Connection the second), and traffic both ways on one connection. The part's
size in the handshake is left out, as the receiver takes its own buffer's.

## 7. Plan

Done: receiver, sender, their composition, rate control, single packets, the
connection, the multipath socket, and proofs of all their invariants. Next:

1. PartIsReliable as a theorem for networks that deliver in order and lose nothing:
   without gaps no request is sent, and packets are read as they were written.
2. The chunks of requestRetransfers: which gaps a round names when `start` advances
   by `min`, and that a gap skipped in one round is named once the list is shorter.
3. Action properties of the receiver: a gap is left only by the packets it names, and
   `highest` and `data` never shrink.
