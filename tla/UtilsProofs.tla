---------------------------- MODULE UtilsProofs ----------------------------
(***************************************************************************)
(* What the slice helpers of utils/utils.go return, for slices of every    *)
(* length.                                                                 *)
(***************************************************************************)
EXTENDS Utils, SequenceTheorems, NaturalsInduction, WellFoundedInduction, TLAPS

\* A set of naturals has a least element.
LEMMA LeastOf ==
  ASSUME NEW T, T \subseteq Nat, T # {}
  PROVE  \E x \in T : \A y \in T : x <= y
<1>1. IsWellFoundedOn(OpToRel(<, Nat), Nat)
  BY NatLessThanWellFounded
<1>2. PICK x \in T : \A y \in T : ~(<<y, x>> \in OpToRel(<, Nat))
  BY <1>1, WFMin, Zenon
<1>3. \A y \in T : ~(y < x)
  BY <1>2 DEF OpToRel
<1> QED BY <1>3

\* A list without the entry at k.
LEMMA RemoveByIndex ==
  ASSUME NEW S, NEW s \in Seq(S), NEW k \in 1..Len(s)
  PROVE  /\ RemoveFromSliceByIndex(s, k) \in Seq(S)
         /\ Len(RemoveFromSliceByIndex(s, k)) = Len(s) - 1
         /\ \A i \in 1..(Len(s) - 1) :
              RemoveFromSliceByIndex(s, k)[i] = IF i < k THEN s[i] ELSE s[i + 1]
<1> DEFINE front == SubSeq(s, 1, k - 1)
           back  == SubSeq(s, k + 1, Len(s))
<1>1. /\ front \in Seq(S) /\ Len(front) = k - 1
      /\ \A i \in 1..(k - 1) : front[i] = s[i]
  OBVIOUS
<1>2. /\ back \in Seq(S) /\ Len(back) = Len(s) - k
      /\ \A i \in 1..(Len(s) - k) : back[i] = s[k + i]
  OBVIOUS
<1> HIDE DEF front, back
<1>3. /\ front \o back \in Seq(S) /\ Len(front \o back) = Len(s) - 1
      /\ \A i \in 1..(Len(s) - 1) :
           (front \o back)[i] = IF i <= k - 1 THEN front[i] ELSE back[i - (k - 1)]
  <2>1. /\ front \o back \in Seq(S)
        /\ Len(front \o back) = Len(front) + Len(back)
        /\ \A i \in 1..(Len(front) + Len(back)) :
             (front \o back)[i] =
               IF i <= Len(front) THEN front[i] ELSE back[i - Len(front)]
    BY <1>1, <1>2, ConcatProperties
  <2>2. Len(front) = k - 1 /\ Len(front) + Len(back) = Len(s) - 1
    BY <1>1, <1>2
  <2> QED BY <2>1, <2>2
<1>4. ASSUME NEW i \in 1..(Len(s) - 1)
      PROVE  (front \o back)[i] = IF i < k THEN s[i] ELSE s[i + 1]
  <2>1. CASE i < k
    <3>1. i \in 1..(k - 1)
      BY <2>1
    <3> QED BY <1>1, <1>3, <2>1, <3>1
  <2>2. CASE ~(i < k)
    <3>1. /\ i - (k - 1) \in 1..(Len(s) - k)
          /\ k + (i - (k - 1)) = i + 1
          /\ ~(i <= k - 1)
      BY <2>2
    <3>2. back[i - (k - 1)] = s[i + 1]
      BY <1>2, <3>1
    <3> QED BY <1>3, <2>2, <3>1, <3>2
  <2> QED BY <2>1, <2>2
<1> QED BY <1>3, <1>4 DEF RemoveFromSliceByIndex, front, back

\* The same for a list of integers.
LEMMA RemoveNumber ==
  ASSUME NEW s \in Seq(Int), NEW k \in 1..Len(s)
  PROVE  /\ RemoveFromSliceByIndex(s, k) \in Seq(Int)
         /\ Len(RemoveFromSliceByIndex(s, k)) = Len(s) - 1
         /\ \A i \in 1..(Len(s) - 1) :
              RemoveFromSliceByIndex(s, k)[i] = IF i < k THEN s[i] ELSE s[i + 1]
BY RemoveByIndex, Zenon

\* A part of a list.
LEMMA Chunk ==
  ASSUME NEW S, NEW s \in Seq(S), NEW m \in Nat, NEW n \in Nat, m <= n, n <= Len(s)
  PROVE  /\ SubSeq(s, m + 1, n) \in Seq(S)
         /\ Len(SubSeq(s, m + 1, n)) = n - m
         /\ \A i \in 1..(n - m) : SubSeq(s, m + 1, n)[i] = s[m + i]
<1>1. \A i \in (m + 1)..n : s[i] \in S
  OBVIOUS
<1>2. /\ SubSeq(s, m + 1, n) \in Seq(S)
      /\ Len(SubSeq(s, m + 1, n)) = IF m + 1 <= n THEN n - (m + 1) + 1 ELSE 0
      /\ \A i \in 1..(n - (m + 1) + 1) : SubSeq(s, m + 1, n)[i] = s[(m + 1) + i - 1]
  BY <1>1, SubSeqProperties
<1>3. /\ Len(SubSeq(s, m + 1, n)) = n - m
      /\ n - (m + 1) + 1 = n - m
      /\ \A i \in Int : (m + 1) + i - 1 = m + i
  BY <1>2
<1> QED BY <1>2, <1>3

\* What is left of a queue of packets when the one at k is taken out of it, or
\* is received and stays there.
LEMMA QueueLeft ==
  ASSUME NEW S, NEW s \in Seq(S), NEW k \in 1..Len(s), NEW t,
         \/ t = s
         \/ t = Tail(s)
         \/ t = RemoveFromSliceByIndex(s, k)
  PROVE  t \in Seq(S) /\ Len(t) <= Len(s)
<1>1. CASE t = s
  BY <1>1
<1>2. CASE t = Tail(s)
  BY <1>2
<1>3. CASE t = RemoveFromSliceByIndex(s, k)
  <2>1. /\ RemoveFromSliceByIndex(s, k) \in Seq(S)
        /\ Len(RemoveFromSliceByIndex(s, k)) = Len(s) - 1
    BY RemoveByIndex
  <2> QED BY <1>3, <2>1
<1> QED BY <1>1, <1>2, <1>3

\* Every packet of it was there before.
LEMMA QueueElements ==
  ASSUME NEW S, NEW s \in Seq(S), NEW k \in 1..Len(s), NEW t,
         t = RemoveFromSliceByIndex(s, k)
  PROVE  \A i \in 1..Len(t) : \E j \in 1..Len(s) : t[i] = s[j]
<1>1. /\ Len(t) = Len(s) - 1
      /\ \A i \in 1..(Len(s) - 1) : t[i] = IF i < k THEN s[i] ELSE s[i + 1]
  BY RemoveByIndex
<1> SUFFICES ASSUME NEW i \in 1..Len(t) PROVE \E j \in 1..Len(s) : t[i] = s[j]
  OBVIOUS
<1>2. i \in 1..Len(s) /\ i + 1 \in 1..Len(s) /\ i \in 1..(Len(s) - 1)
  BY <1>1
<1> QED BY <1>1, <1>2

\* Sequences of at most two entries.
LEMMA ShortSeqs ==
  ASSUME NEW a, NEW b
  PROVE  /\ Append(<<>>, a) = <<a>> /\ Append(<<a>>, b) = <<a, b>>
         /\ Tail(<<a>>) = <<>> /\ Tail(<<a, b>>) = <<b>>
         /\ <<a>>[1] = a /\ <<a, b>>[1] = a
         /\ Len(<<>>) = 0 /\ Len(<<a>>) = 1 /\ Len(<<a, b>>) = 2
         /\ <<>> # <<a>> /\ <<>> # <<a, b>> /\ <<a>> # <<a, b>>
<1>1. Append(<<a>>, b) = <<a, b>>
  <2>1. /\ <<a>> \in Seq({a, b}) /\ <<a, b>> \in Seq({a, b})
        /\ Append(<<a>>, b) \in Seq({a, b})
    OBVIOUS
  <2>2. /\ Len(<<a>>) = 1 /\ <<a>>[1] = a
        /\ Len(<<a, b>>) = 2 /\ <<a, b>>[1] = a /\ <<a, b>>[2] = b
    OBVIOUS
  <2>3. /\ Len(Append(<<a>>, b)) = 2
        /\ Append(<<a>>, b)[1] = a /\ Append(<<a>>, b)[2] = b
    BY <2>1, <2>2, AppendProperties
  <2>4. \A i \in 1..2 : Append(<<a>>, b)[i] = <<a, b>>[i]
    BY <2>2, <2>3
  <2> QED BY <2>1, <2>2, <2>3, <2>4, SeqEqual
<1>2. /\ Append(<<>>, a) = <<a>>
      /\ Tail(<<a>>) = <<>> /\ Tail(<<a, b>>) = <<b>>
      /\ <<a>>[1] = a /\ <<a, b>>[1] = a
      /\ Len(<<>>) = 0 /\ Len(<<a>>) = 1 /\ Len(<<a, b>>) = 2
      /\ <<>> # <<a>> /\ <<>> # <<a, b>> /\ <<a>> # <<a, b>>
  OBVIOUS
<1> QED BY <1>1, <1>2

\* IndexOf finds nothing where there is nothing.
LEMMA IndexOfAbsent ==
  ASSUME NEW e, NEW s, \A k \in 1..Len(s) : s[k] # e
  PROVE  IndexOf(e, s) = NotFound
BY DEF IndexOf, FirstIndex

\* ... and only there: IndexOf finds an entry of every list that has it.
LEMMA IndexOfPresent ==
  ASSUME NEW S, NEW e, NEW s \in Seq(S), IndexOf(e, s) = NotFound
  PROVE  \A k \in 1..Len(s) : s[k] # e
<1> SUFFICES ASSUME NEW k \in 1..Len(s), s[k] = e PROVE FALSE
  OBVIOUS
<1> DEFINE T == {i \in 1..Len(s) : s[i] = e}
<1>1. T \subseteq Nat /\ T # {}
  OBVIOUS
<1>2. PICK x \in T : \A y \in T : x <= y
  <2> HIDE DEF T
  <2> QED BY <1>1, LeastOf
<1>3. x \in 1..Len(s) /\ s[x] = e /\ \A j \in 1..(x - 1) : s[j] # e
  BY <1>2
<1>4. IndexOf(e, s) = CHOOSE i \in 1..Len(s) : s[i] = e /\ \A j \in 1..(i - 1) : s[j] # e
  BY DEF IndexOf, FirstIndex
<1> QED BY <1>3, <1>4 DEF NotFound

\* What IndexOfMin finds in an increasing list is an index of the list where its
\* loop stops: there is only one such place.
LEMMA IndexOfMinInside ==
  ASSUME NEW e \in Int, NEW s \in Seq(Int),
         \A j \in 1..Len(s) : \A i \in 1..(j - 1) : s[i] < s[j],
         IndexOfMin(e, s) # NotFound
  PROVE  /\ IndexOfMin(e, s) \in 1..Len(s)
         /\ IsIndexOfMin(e, s, IndexOfMin(e, s))
<1>1. PICK k \in 1..Len(s) : IsIndexOfMin(e, s, k)
  BY DEF IndexOfMin, FirstIndex
<1>2. ASSUME NEW j \in 1..(k - 1) PROVE ~IsIndexOfMin(e, s, j)
  <2>1. /\ j \in 1..Len(s) /\ j + 1 \in 1..Len(s) /\ j < Len(s)
        /\ s[j] \in Int /\ s[j + 1] \in Int /\ s[k] \in Int
    BY <1>2
  <2>2. s[k] <= e
    BY <1>1, <2>1 DEF IsIndexOfMin
  <2>3. s[j] < s[k]
    BY <2>1
  <2>4. s[j + 1] <= s[k]
    <3>1. CASE j + 1 = k
      BY <3>1, <2>1
    <3>2. CASE j + 1 # k
      <4>1. j + 1 \in 1..(k - 1)
        BY <3>2
      <4> QED BY <4>1, <2>1
    <3> QED BY <3>1, <3>2
  <2> QED BY <2>1, <2>2, <2>3, <2>4 DEF IsIndexOfMin
<1>3. IndexOfMin(e, s) =
        CHOOSE i \in 1..Len(s) :
          /\ IsIndexOfMin(e, s, i)
          /\ \A j \in 1..(i - 1) : ~IsIndexOfMin(e, s, j)
  BY <1>1 DEF IndexOfMin, FirstIndex
<1> QED BY <1>1, <1>2, <1>3
=============================================================================
