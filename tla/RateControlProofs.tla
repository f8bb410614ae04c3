-------------------------- MODULE RateControlProofs --------------------------
(***************************************************************************)
(* The congestion window stays in 1..CONGESTION_WINDOW_MAX, and never      *)
(* grows again once it is below 3, for every value of the constants, every *)
(* sequence of requests and any number of parts.                           *)
(***************************************************************************)
EXTENDS RateControl, TLAPS

\* Truncated division of integers is an integer.
LEMMA GoDivInt ==
  ASSUME NEW x \in Int, NEW y \in Int, y # 0
  PROVE  GoDiv(x, y) \in Int
BY DEF GoDiv

\* The share of a positive window that a phase takes away is smaller than the
\* window, and the share it adds is not negative.
LEMMA GoDivShare ==
  ASSUME NEW w \in Nat \ {0}, NEW d \in Nat \ {0, 1}
  PROVE  GoDiv(w, d) \in 0..(w - 1)
BY DEF GoDiv

\* What is proved inductive.
IInv == TypeOK /\ WindowInRange

LEMMA InitInv == Init => IInv
<1> SUFFICES ASSUME Init PROVE IInv
  OBVIOUS
<1>1. leftOver \in BOOLEAN
  BY Zenon DEF Init
<1> QED BY <1>1, RateControlAssumption DEF Init, IInv, TypeOK, WindowInRange

\* A step of AddAckMessage that does not end a round keeps the window.
LEMMA AckPartInv ==
  ASSUME IInv, NEW m \in Acks, IntervalReset, AckPart(m), UNCHANGED leftOver
  PROVE  IInv'
BY RateControlAssumption
DEF IInv, TypeOK, WindowInRange, Acks, IntervalReset,
    AckPart, Missing, windowVars, phaseVars

\* The measurement at the end of a round yields integers.
LEMMA MeasureTypes ==
  ASSUME TypeOK, NEW m \in Acks, IntervalReset, Measure(m)
  PROVE  /\ lastIntervalPackets' \in Nat
         /\ packetLossPercent' \in Int
         /\ curNumMissingPackets' \in Nat
         /\ curNumCheckedPackets' \in Nat
         /\ lastNumMissingPackets' \in Nat
<1>1. /\ m.NumPackets \in Nat /\ m.missing \in Nat
      /\ Missing(m) \in Nat
  BY RateControlAssumption DEF Acks, TypeOK, Missing
<1>2. LossPercent(m) \in Int
  <2>1. CASE m.NumPackets # curNumCheckedPackets
    <3>1. /\ (Missing(m) - lastNumMissingPackets) * 100 \in Int
          /\ m.NumPackets - curNumCheckedPackets \in Int \ {0}
      BY <1>1, <2>1 DEF TypeOK
    <3>2. GoDiv((Missing(m) - lastNumMissingPackets) * 100,
                m.NumPackets - curNumCheckedPackets) \in Int
      BY <3>1, GoDivInt
    <3> QED BY <2>1, <3>2 DEF LossPercent
  <2>2. CASE m.NumPackets = curNumCheckedPackets
    BY <2>2 DEF LossPercent, TypeOK
  <2> QED BY <2>1, <2>2
<1> QED BY <1>1, <1>2 DEF Measure, IntervalReset, TypeOK

\* A round that ends keeps the window between its bounds, whatever it measured.
LEMMA AckRoundInv ==
  ASSUME IInv, NEW m \in Acks, IntervalReset, AckRound(m), UNCHANGED leftOver
  PROVE  IInv'
<1> DEFINE w == congestionWindow
<1>1. /\ w \in Nat \ {0} /\ w <= CONGESTION_WINDOW_MAX
      /\ CONGESTION_WINDOW_MAX \in Nat
      /\ DRAIN_INCREASE_WINDOW \in Nat \ {0}
  BY RateControlAssumption DEF IInv, WindowInRange
<1>2. /\ GoDiv(w, 2) \in 0..(w - 1) /\ GoDiv(w, 3) \in 0..(w - 1)
      /\ GoDiv(w, 4) \in 0..(w - 1) /\ GoDiv(w, 5) \in 0..(w - 1)
  BY <1>1, GoDivShare
<1>3. /\ lastIntervalPackets' \in Nat
      /\ packetLossPercent' \in Int
      /\ curNumMissingPackets' \in Nat
      /\ curNumCheckedPackets' \in Nat
      /\ lastNumMissingPackets' \in Nat
  BY MeasureTypes DEF IInv, AckRound
<1>4. ASSUME NEW d \in 2..5
      PROVE  /\ w - GoDiv(w, d) \in 1..CONGESTION_WINDOW_MAX
             /\ Capped(w + GoDiv(w, d)) \in 1..CONGESTION_WINDOW_MAX
  <2>1. GoDiv(w, d) \in 0..(w - 1)
    BY <1>1, GoDivShare
  <2> QED BY <1>1, <2>1 DEF Capped, MinInt
<1> DEFINE Fields ==
      /\ state \in {"startup", "drain", "probe", "idle"}
      /\ drainIncreaseCount \in Nat
      /\ drainLossCount \in Nat
      /\ probeIncreaseCount \in Nat
<1>5. SUFFICES Fields' /\ WindowInRange'
  BY <1>3, RateControlAssumption DEF IInv, TypeOK, WindowInRange
<1>6. Fields /\ WindowInRange
  BY DEF IInv, TypeOK
<1>7. CASE ProbeLoss(m)
  BY <1>1, <1>4, <1>6, <1>7 DEF ProbeLoss, WindowInRange
<1>8. CASE ProbeIncrease(m)
  BY <1>1, <1>4, <1>6, <1>8
  DEF ProbeIncrease, WindowInRange
<1>9. CASE DrainWait
  BY <1>6, <1>9 DEF DrainWait, WindowInRange
<1>10. CASE DrainLoss(m)
  BY <1>1, <1>4, <1>6, <1>10 DEF DrainLoss, WindowInRange
<1>11. CASE DrainIncrease(m)
  BY <1>1, <1>6, <1>11 DEF DrainIncrease, WindowInRange
<1>12. CASE StartupLoss(m)
  BY <1>1, <1>4, <1>6, <1>12
  DEF StartupLoss, WindowInRange, phaseVars
<1>13. CASE StartupIncrease(m)
  BY <1>1, <1>4, <1>6, <1>13
  DEF StartupIncrease, WindowInRange, phaseVars
<1>14. CASE IdleRound
  BY <1>6, <1>14 DEF IdleRound, WindowInRange, windowVars, phaseVars
<1> QED
  BY <1>7, <1>8, <1>9, <1>10, <1>11, <1>12, <1>13, <1>14 DEF AckRound

\* Every step keeps the invariant.
LEMMA NextInv == IInv /\ [Next]_vars => IInv'
<1> SUFFICES ASSUME IInv, [Next]_vars PROVE IInv'
  OBVIOUS
<1>1. CASE Start
  BY <1>1 DEF Start, IInv, TypeOK, WindowInRange,
              lossVars, phaseVars
<1>2. CASE Stop
  BY <1>2 DEF Stop, IInv, TypeOK, WindowInRange,
              lossVars, phaseVars
<1>3. CASE Add
  BY <1>3 DEF Add, IInv, TypeOK, WindowInRange,
              lossVars, windowVars, phaseVars
<1>4. CASE \E m \in Acks : AddAckMessage(m)
  BY <1>4, AckPartInv, AckRoundInv DEF AddAckMessage
<1>5. CASE UNCHANGED vars
  BY <1>5 DEF vars, IInv, TypeOK, WindowInRange,
              lossVars, phaseVars
<1>6. CASE WriteFails
  BY <1>6 DEF WriteFails, IInv, TypeOK, WindowInRange, lossVars, windowVars, phaseVars
<1> QED BY <1>1, <1>2, <1>3, <1>4, <1>5, <1>6 DEF Next

\* Both parts hold in every state of every behaviour.
LEMMA RateControlInvariant == Spec => []IInv
BY InitInv, NextInv, PTL DEF Spec

\* The fields of the rate control keep their types.
THEOREM TypeCorrect == Spec => []TypeOK
BY RateControlInvariant, PTL DEF IInv

\* The window never reaches 0, so the remainder in Add (ratecontrol.go:179) is
\* always defined, and never exceeds CONGESTION_WINDOW_MAX.
THEOREM WindowAlwaysInRange == Spec => []WindowInRange
BY RateControlInvariant, PTL DEF IInv

\* What a phase adds to a window below 3 is nothing.
LEMMA GoDivSmall ==
  ASSUME NEW w \in 1..2, NEW d \in 3..5
  PROVE  GoDiv(w, d) = 0
BY DEF GoDiv

\* One step from a window below 3.
LEMMA SmallStep ==
  ASSUME IInv, [Next]_vars, congestionWindow < 3
  PROVE  congestionWindow' < 3
<1> DEFINE w == congestionWindow
<1>1. w \in 1..2 /\ CONGESTION_WINDOW_MAX \in Nat
  BY RateControlAssumption DEF IInv, WindowInRange
<1>2. GoDiv(w, 3) = 0 /\ GoDiv(w, 4) = 0 /\ GoDiv(w, 5) = 0 /\ GoDiv(w, 2) \in 0..(w - 1)
  BY <1>1, GoDivSmall, GoDivShare
<1>3. Capped(w + 0) <= w
  BY <1>1 DEF Capped, MinInt
<1>4. CASE UNCHANGED congestionWindow
  BY <1>1, <1>4
<1>5. ASSUME NEW m \in Acks, AckRound(m) PROVE congestionWindow' < 3
  <2>1. CASE ProbeLoss(m)
    BY <1>1, <1>2, <2>1 DEF ProbeLoss
  <2>2. CASE ProbeIncrease(m)
    BY <1>1, <1>2, <1>3, <2>2 DEF ProbeIncrease, Capped, MinInt
  <2>3. CASE DrainLoss(m)
    BY <1>1, <1>2, <2>3 DEF DrainLoss
  <2>4. CASE StartupLoss(m)
    BY <1>1, <1>2, <2>4 DEF StartupLoss
  <2>5. CASE StartupIncrease(m)
    BY <1>1, <1>2, <1>3, <2>5 DEF StartupIncrease, Capped, MinInt
  <2>6. CASE DrainWait \/ DrainIncrease(m) \/ IdleRound
    BY <1>4, <2>6 DEF DrainWait, DrainIncrease, IdleRound, windowVars
  <2> QED BY <1>5, <2>1, <2>2, <2>3, <2>4, <2>5, <2>6 DEF AckRound
<1>6. CASE \E m \in Acks : AddAckMessage(m)
  BY <1>4, <1>5, <1>6 DEF AddAckMessage, AckPart, windowVars
<1>7. CASE Start \/ Stop \/ WriteFails \/ Add \/ UNCHANGED vars
  BY <1>4, <1>7 DEF Start, Stop, WriteFails, Add, windowVars, vars
<1> QED BY <1>6, <1>7 DEF Next

\* A window below 3 never grows again, in whatever phase or part of the connection
\* (ratecontrol.go:150).
THEOREM SmallWindowNeverGrows == Spec => SmallWindowStays
<1>1. IInv /\ [Next]_vars => [congestionWindow < 3 => congestionWindow' < 3]_vars
  BY SmallStep
<1> QED BY <1>1, RateControlInvariant, PTL DEF Spec, SmallWindowStays
=============================================================================
