----------------------------- MODULE RateControl -----------------------------
(***************************************************************************)
(* controlplane/ratecontrol.go: the congestion window of a sender.         *)
(*                                                                         *)
(* One RateControl lives as long as its connection and serves one part     *)
(* after the other: Write calls Start before a part and Stop after it.     *)
(* Add runs once per packet sent and sleeps when a window's worth has been *)
(* sent; AddAckMessage runs, in the goroutine of HandleAckPackets, for     *)
(* every request packet and moves the window.  That goroutine is started   *)
(* after Start and gets no further than the finish message that lets Write *)
(* go on to Stop.  A Write that fails (conn.go:147) leaves it behind       *)
(* without Stop, and it may meet requests when a later Write has stopped.  *)
(*                                                                         *)
(* A request packet is reduced to what AddAckMessage reads: whether it is  *)
(* the last one of its round (PacketTxIndex >= NumPacketsPerTx - 1), the   *)
(* sum of its offsets, and NumPackets, the packets the receiver has        *)
(* counted so far.  UDP may repeat, drop and reorder request packets, so   *)
(* any of them may come at any time.  The fields that are written and      *)
(* never read again (lastIntervalBytes, lastMissingSequenceNums,           *)
(* lastPacketTxIndex) are left out.                                        *)
(***************************************************************************)
EXTENDS Utils

CONSTANTS
  START_CONGESTION_WINDOW,        \* 100 in the code
  CONGESTION_WINDOW_MAX,          \* 150000
  PACKET_LOSS_THRESHOLD_PERCENT,  \* 5
  DRAIN_INCREASE_WINDOW,          \* 20
  MaxPackets,                     \* bound: packets of a part
  MaxCount                        \* bound: the counters of the phases

ASSUME RateControlAssumption ==
  /\ CONGESTION_WINDOW_MAX \in Nat
  /\ START_CONGESTION_WINDOW \in 1..CONGESTION_WINDOW_MAX
  /\ PACKET_LOSS_THRESHOLD_PERCENT \in Nat
  /\ DRAIN_INCREASE_WINDOW \in Nat \ {0}
  /\ MaxPackets \in Nat
  /\ MaxCount \in Nat

VARIABLES
  state,                 \* "startup", "drain", "probe" or "idle"
  congestionWindow,
  lastIntervalPackets,   \* packets sent since the last request packet
  packetLossPercent,
  curNumMissingPackets,
  curNumCheckedPackets,
  lastNumMissingPackets,
  drainIncreaseCount,
  drainLossCount,
  probeIncreaseCount,
  leftOver               \* a Write that failed has left HandleAckPackets behind

lossVars   == <<packetLossPercent, curNumMissingPackets, curNumCheckedPackets,
                lastNumMissingPackets>>
phaseVars  == <<drainIncreaseCount, drainLossCount, probeIncreaseCount>>
windowVars == <<state, congestionWindow, phaseVars>>
vars       == <<state, congestionWindow, lastIntervalPackets, lossVars,
                phaseVars, leftOver>>

Acks == [last : BOOLEAN, missing : 0..MaxPackets, NumPackets : 0..MaxPackets]

\* NewRateControl
Init ==
  /\ state = "idle"
  /\ congestionWindow = START_CONGESTION_WINDOW
  /\ lastIntervalPackets = 0
  /\ packetLossPercent = 0
  /\ curNumMissingPackets = 0
  /\ curNumCheckedPackets = 0
  /\ lastNumMissingPackets = 0
  /\ drainIncreaseCount = 0
  /\ drainLossCount = 0
  /\ probeIncreaseCount = 0
  /\ leftOver = FALSE

Start ==
  /\ state' = "startup"
  /\ UNCHANGED <<congestionWindow, lastIntervalPackets, lossVars, phaseVars, leftOver>>

Stop ==
  /\ state' = "idle"
  /\ UNCHANGED <<congestionWindow, lastIntervalPackets, lossVars, phaseVars, leftOver>>

\* WritePart fails: Write returns its error, and Stop is not called.
WriteFails ==
  /\ state # "idle"
  /\ leftOver' = TRUE
  /\ UNCHANGED <<windowVars, lastIntervalPackets, lossVars>>

\* A packet was sent.  When congestionWindow divides the new count the caller
\* sleeps, which changes nothing here.
Add ==
  /\ lastIntervalPackets < MaxPackets
  /\ lastIntervalPackets' = lastIntervalPackets + 1
  /\ UNCHANGED <<windowVars, lossVars, leftOver>>

-----------------------------------------------------------------------------
(* AddAckMessage.                                                          *)

\* Add does not take the mutex: an Add under way may overwrite the reset.
IntervalReset == lastIntervalPackets' \in {0, lastIntervalPackets}

Missing(m) == curNumMissingPackets + m.missing

LossPercent(m) ==
  IF m.NumPackets # curNumCheckedPackets
  THEN GoDiv((Missing(m) - lastNumMissingPackets) * 100,
             m.NumPackets - curNumCheckedPackets)
  ELSE packetLossPercent

\* Mutant: the difference is kept instead of the sum.
MeasureDifference(m) ==
  /\ packetLossPercent' = LossPercent(m)
  /\ lastNumMissingPackets' = Missing(m) - lastNumMissingPackets
  /\ curNumMissingPackets' = 0
  /\ curNumCheckedPackets' = m.NumPackets

\* What the last request packet of a round tells about loss.
Measure(m) ==
  /\ packetLossPercent' = LossPercent(m)
  /\ lastNumMissingPackets' = Missing(m)
  /\ curNumMissingPackets' = 0
  /\ curNumCheckedPackets' = m.NumPackets

Lossy(m) == LossPercent(m) >= PACKET_LOSS_THRESHOLD_PERCENT

\* Mutant: the window is not capped.
Uncapped(window) == window

Capped(window) == MinInt(window, CONGESTION_WINDOW_MAX)

\* A request packet that is not the last one of its round.
AckPart(m) ==
  /\ ~m.last
  /\ Missing(m) <= MaxPackets
  /\ curNumMissingPackets' = Missing(m)
  /\ UNCHANGED <<windowVars, packetLossPercent, curNumCheckedPackets,
                 lastNumMissingPackets>>

ProbeLoss(m) ==
  /\ state = "probe" /\ Lossy(m)
  /\ congestionWindow' = congestionWindow - GoDiv(congestionWindow, 4)
  /\ state' = "drain"
  /\ probeIncreaseCount' = 0
  /\ UNCHANGED <<drainIncreaseCount, drainLossCount>>

ProbeIncrease(m) ==
  /\ state = "probe" /\ ~Lossy(m)
  /\ probeIncreaseCount' = probeIncreaseCount + 1
  /\ congestionWindow' =
       IF (probeIncreaseCount + 1) % DRAIN_INCREASE_WINDOW = 0
       THEN Capped(congestionWindow + GoDiv(congestionWindow, 5))
       ELSE congestionWindow
  /\ UNCHANGED <<state, drainIncreaseCount, drainLossCount>>

\* The second to the fifth request of the drain phase are waited out.
DrainWaits == drainLossCount + 1 \in 2..5

DrainWait ==
  /\ state = "drain" /\ DrainWaits
  /\ drainLossCount' = drainLossCount + 1
  /\ UNCHANGED <<state, congestionWindow, drainIncreaseCount, probeIncreaseCount>>

DrainLoss(m) ==
  /\ state = "drain" /\ ~DrainWaits /\ Lossy(m)
  /\ drainLossCount' = drainLossCount + 1
  /\ congestionWindow' = congestionWindow - GoDiv(congestionWindow, 3)
  /\ drainIncreaseCount' = 0
  /\ UNCHANGED <<state, probeIncreaseCount>>

DrainIncrease(m) ==
  /\ state = "drain" /\ ~DrainWaits /\ ~Lossy(m)
  /\ drainLossCount' = drainLossCount + 1
  /\ drainIncreaseCount' = drainIncreaseCount + 1
  /\ state' = IF (drainIncreaseCount + 1) % DRAIN_INCREASE_WINDOW = 0
              THEN "probe" ELSE "drain"
  /\ UNCHANGED <<congestionWindow, probeIncreaseCount>>

StartupLoss(m) ==
  /\ state = "startup" /\ Lossy(m)
  /\ state' = "drain"
  /\ congestionWindow' =
       IF congestionWindow <= CONGESTION_WINDOW_MAX
       THEN congestionWindow - GoDiv(congestionWindow, 2)
       ELSE congestionWindow
  /\ UNCHANGED phaseVars

\* Mutant: the third is rounded up.
StartupIncreaseCeil(m) ==
  /\ state = "startup" /\ ~Lossy(m)
  /\ congestionWindow' = Capped(congestionWindow + CeilForceInt(congestionWindow, 3))
  /\ UNCHANGED <<state, phaseVars>>

StartupIncrease(m) ==
  /\ state = "startup" /\ ~Lossy(m)
  /\ congestionWindow' = Capped(congestionWindow + GoDiv(congestionWindow, 3))
  /\ UNCHANGED <<state, phaseVars>>

\* No case of the switch is for the idle state.
IdleRound == state = "idle" /\ UNCHANGED windowVars

\* The counters of the phases only grow within a phase; MaxCount bounds them.
CountsBounded ==
  /\ drainLossCount < MaxCount
  /\ drainIncreaseCount < MaxCount
  /\ probeIncreaseCount < MaxCount

AckRound(m) ==
  /\ m.last
  /\ Missing(m) <= MaxPackets
  /\ CountsBounded
  /\ Measure(m)
  /\ \/ ProbeLoss(m) \/ ProbeIncrease(m)
     \/ DrainWait \/ DrainLoss(m) \/ DrainIncrease(m)
     \/ StartupLoss(m) \/ StartupIncrease(m)
     \/ IdleRound

AddAckMessage(m) ==
  /\ state # "idle" \/ leftOver
  /\ IntervalReset
  /\ AckPart(m) \/ AckRound(m)
  /\ UNCHANGED leftOver

Next ==
  \/ Start
  \/ Stop
  \/ WriteFails
  \/ Add
  \/ \E m \in Acks : AddAckMessage(m)

Spec == Init /\ [][Next]_vars
-----------------------------------------------------------------------------
\* The types of the fields.  packetLossPercent is any integer: what the comment at
\* ratecontrol.go:47 says of it is LossIsPercent.
TypeOK ==
  /\ state \in {"startup", "drain", "probe", "idle"}
  /\ congestionWindow \in Int
  /\ lastIntervalPackets \in Nat
  /\ packetLossPercent \in Int
  /\ curNumMissingPackets \in Nat
  /\ curNumCheckedPackets \in Nat
  /\ lastNumMissingPackets \in Nat
  /\ drainIncreaseCount \in Nat
  /\ drainLossCount \in Nat
  /\ probeIncreaseCount \in Nat
  /\ leftOver \in BOOLEAN

\* No sequence of requests takes the window to 0 or beyond its maximum: Add's
\* remainder (ratecontrol.go:179) never divides by zero, however many parts
\* and losses a connection lives through.
WindowInRange == congestionWindow \in 1..CONGESTION_WINDOW_MAX

\* Go divides integers toward zero, so a third of a window below 3 is nothing to
\* add (ratecontrol.go:150): a window that has fallen there never gets out again,
\* whatever the later rounds and parts of the connection are like.
SmallWindowStays == [][congestionWindow < 3 => congestionWindow' < 3]_vars

\* The comment at ratecontrol.go:47: "between 1 and 100", with 0 for a connection
\* that has measured nothing.
LossIsPercent == packetLossPercent \in 0..100
=============================================================================
