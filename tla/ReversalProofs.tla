---------------------------- MODULE ReversalProofs ----------------------------
(* The in-place loop computes the reversal, whatever the length of the chunk. *)
EXTENDS Reversal, TLAPS

(* The indices stay symmetric; outside them the elements have been exchanged, *)
(* between them they are as they were.                                        *)
LoopInv ==
  /\ orig \in Seq(Element)
  /\ data \in Seq(Element)
  /\ Len(data) = Len(orig)
  /\ i \in Nat /\ i >= 1
  /\ j \in Int
  /\ i + j = Len(orig) + 1
  /\ i <= j + 1
  /\ \A k \in 1..Len(orig) :
       data[k] = IF i <= k /\ k <= j THEN orig[k] ELSE orig[Len(orig) + 1 - k]

LEMMA LoopStart == Init => LoopInv
  BY DEF Init, LoopInv

LEMMA LoopStep == LoopInv /\ [Swap]_vars => LoopInv'
<1> SUFFICES ASSUME LoopInv, [Swap]_vars PROVE LoopInv'
  OBVIOUS
<1>1. CASE UNCHANGED vars
  BY <1>1 DEF LoopInv, vars
<1>2. CASE Swap
  <2> DEFINE n == Len(orig)
             Mirror(k) == n + 1 - k
             Swapped(k, lo, hi) == IF lo <= k /\ k <= hi THEN orig[k] ELSE orig[Mirror(k)]
  <2>1. n \in Nat /\ i \in 1..n /\ j \in 1..n /\ i < j /\ i + j = n + 1
    BY <1>2 DEF LoopInv, Swap
  <2>2. \A k \in 1..n : data[k] = Swapped(k, i, j)
    BY DEF LoopInv
  <2>3. orig' = orig /\ i' = i + 1 /\ j' = j - 1
    BY <1>2 DEF Swap
  <2>4. data' \in Seq(Element) /\ Len(data') = n
    BY <1>2, <2>1 DEF LoopInv, Swap
  <2>5. \A k \in 1..n :
          data'[k] = IF k = i THEN data[j] ELSE IF k = j THEN data[i] ELSE data[k]
    BY <1>2, <2>1 DEF LoopInv, Swap
  <2>6. data[i] = orig[i] /\ data[j] = orig[j]
    BY <2>1, <2>2
  <2>7. ASSUME NEW k \in 1..n
        PROVE  data'[k] = Swapped(k, i + 1, j - 1)
    <3> HIDE DEF Swapped
    <3>1. CASE k = i
      <4>1. Mirror(k) = j /\ ~(i + 1 <= k)
        BY <2>1, <3>1
      <4>2. Swapped(k, i + 1, j - 1) = orig[j]
        BY <4>1 DEF Swapped
      <4>3. QED
        BY <2>5, <2>6, <3>1, <4>2
    <3>2. CASE k = j
      <4>1. Mirror(k) = i /\ ~(k <= j - 1) /\ k # i
        BY <2>1, <3>2
      <4>2. Swapped(k, i + 1, j - 1) = orig[i]
        BY <4>1 DEF Swapped
      <4>3. QED
        BY <2>5, <2>6, <3>2, <4>1, <4>2
    <3>3. CASE k # i /\ k # j
      <4>1. (i <= k /\ k <= j) <=> (i + 1 <= k /\ k <= j - 1)
        BY <2>1, <2>7, <3>3
      <4>2. Swapped(k, i + 1, j - 1) = Swapped(k, i, j)
        BY <4>1 DEF Swapped
      <4>3. QED
        BY <2>2, <2>5, <2>7, <3>3, <4>2
    <3>4. QED
      BY <3>1, <3>2, <3>3
  <2>8. \A k \in 1..Len(orig') :
          data'[k] = IF i' <= k /\ k <= j' THEN orig'[k]
                                           ELSE orig'[Len(orig') + 1 - k]
    BY <2>3, <2>7
  <2>9. orig' \in Seq(Element) /\ Len(data') = Len(orig')
    BY <2>3, <2>4 DEF LoopInv
  <2>10. /\ i' \in Nat /\ i' >= 1 /\ j' \in Int
         /\ i' + j' = Len(orig') + 1 /\ i' <= j' + 1
    BY <2>1, <2>3
  <2> HIDE DEF n, Mirror, Swapped
  <2>11. QED
    BY <2>4, <2>8, <2>9, <2>10 DEF LoopInv
<1>3. QED
  BY <1>1, <1>2

LEMMA LoopEnd == LoopInv => LoopReverses
<1> SUFFICES ASSUME LoopInv, Done PROVE data = Reversed(orig)
  BY DEF LoopReverses
<1>1. ASSUME NEW k \in 1..Len(orig)
      PROVE  data[k] = orig[Len(orig) + 1 - k]
  BY <1>1 DEF LoopInv, Done
<1>2. data = [k \in 1..Len(data) |-> data[k]]
  BY DEF LoopInv
<1>3. QED
  BY <1>1, <1>2 DEF LoopInv, Reversed

(* The loop of reversal.go:7 leaves the reversal of its argument, for slices  *)
(* of every length and content.                                               *)
THEOREM ReversalIsCorrect == Spec => []LoopReverses
  BY LoopStart, LoopStep, LoopEnd, PTL DEF Spec
=============================================================================
