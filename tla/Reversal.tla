------------------------------- MODULE Reversal -------------------------------
(* ReverseBytesInPlace of the Go code, a loop that swaps from both ends, over *)
(* the copy that GetReversedBytes makes of its argument. The C++ utilities    *)
(* call std::reverse, whose specification is the result of this loop.         *)
EXTENDS Chunks

CONSTANT Element   \* what a slice may hold

VARIABLES
  orig,   \* the argument, which nobody changes
  data,   \* the copy
  i, j    \* the loop's indices, 1-based

vars == <<orig, data, i, j>>

Copy(bytes) == orig' = bytes /\ data' = bytes /\ i' = 1 /\ j' = Len(bytes)

Init ==
  /\ orig \in Seq(Element)
  /\ data = orig
  /\ i = 1 /\ j = Len(orig)

(* Mutant: two assignments, the second of which reads what the first wrote.   *)
Swap_Sequential ==
  /\ i < j
  /\ data' = [data EXCEPT ![i] = data[j]]
  /\ i' = i + 1 /\ j' = j - 1
  /\ UNCHANGED orig

Swap ==
  /\ i < j
  /\ data' = [data EXCEPT ![i] = data[j], ![j] = data[i]]
  /\ i' = i + 1 /\ j' = j - 1
  /\ UNCHANGED orig

Done == i >= j

Spec == Init /\ [][Swap]_vars

-----------------------------------------------------------------------------
(* When the loop ends the copy is the reversal all the other modules use, for *)
(* any length: reversal.go:7.                                                 *)
LoopReverses == Done => data = Reversed(orig)
=============================================================================
