------------------------------- MODULE Utils -------------------------------
(***************************************************************************)
(* The integer and slice helpers of utils/utils.go.                        *)
(*                                                                         *)
(* A Go slice is a sequence; Go's 0-based index k is position k + 1 of the *)
(* sequence, so Go's -1 ("not found") is position 0.                       *)
(***************************************************************************)
EXTENDS Integers, Sequences

NotFound == 0

MinInt(x, y) == IF x > y THEN y ELSE x

\* Mutant: the remainder is left out.
FloorInt(x, y) == x \div y

\* The quotient of two naturals rounded up (CeilForce is the same for int64).
CeilForceInt(x, y) == IF x % y > 0 THEN (x \div y) + 1 ELSE x \div y

\* The result of Go's "/" on integers: the quotient truncated toward zero.
GoDiv(x, y) ==
  LET abs(n) == IF n < 0 THEN -n ELSE n
      q      == abs(x) \div abs(y)
  IN  IF (x < 0) = (y < 0) THEN q ELSE -q

-----------------------------------------------------------------------------
\* The first position at which a loop over data would return, or NotFound.
FirstIndex(data, Test(_)) ==
  IF \E k \in 1..Len(data) : Test(k)
  THEN CHOOSE k \in 1..Len(data) : Test(k) /\ \A j \in 1..(k - 1) : ~Test(j)
  ELSE NotFound

IndexOf(element, data) == FirstIndex(data, LAMBDA k : data[k] = element)

\* The loop body of IndexOfMin: element is data[k], or lies beyond data[k] and
\* before the next entry (beyond the last entry there is no next one).
IsIndexOfMin(element, data, k) ==
  \/ data[k] = element
  \/ /\ data[k] < element
     /\ k < Len(data) => element < data[k + 1]

IndexOfMin(element, data) ==
  FirstIndex(data, LAMBDA k : IsIndexOfMin(element, data, k))

\* append(s[:index], s[index+1:]...)
RemoveFromSliceByIndex(s, index) ==
  SubSeq(s, 1, index - 1) \o SubSeq(s, index + 1, Len(s))
=============================================================================
