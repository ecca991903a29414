------------------------------- MODULE Chunks -------------------------------
(* The data every transport moves: a chunk of the test file and its reversal. *)
(* A chunk is cut down to the two bytes the verification needs: one that      *)
(* tells it from the other chunks, and a second one, so that a chunk differs  *)
(* from its own reversal. Any number may be a byte, so that there is no limit *)
(* to the chunks.                                                             *)
EXTENDS Integers, Sequences

(* The n-th chunk the file reader returns.                                    *)
Payload(n) == <<n, 0>>

(* What reverse_bytes leaves in its vector.                                   *)
Reversed(data) == [i \in 1..Len(data) |-> data[Len(data) + 1 - i]]
=============================================================================
