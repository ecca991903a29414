---------------------------- MODULE EchoBenchmark ----------------------------
(* What a benchmark client promises, whatever its transport: chunks of the    *)
(* test file are sent in file order; a chunk is counted as verified at most   *)
(* once, after it was sent, and in file order; the run ends once, and it is   *)
(* called complete only when every chunk of the file has been verified.       *)
EXTENDS Integers, Sequences

CONSTANT NumChunks

VARIABLES
  sent,        \* chunks handed to the transport
  verified,    \* numbers of the chunks whose reversal came back, in that order
  outcome      \* "running", then "complete" or "incomplete"

vars == <<sent, verified, outcome>>

LastVerified == IF verified = << >> THEN 0 ELSE verified[Len(verified)]

Init ==
  /\ sent = 0
  /\ verified = << >>
  /\ outcome = "running"

(* Another chunk is sent, or not.                                             *)
Send == sent' \in {sent, sent + 1} \cap 0..NumChunks

(* The response to a chunk sent before is verified, or none is.               *)
Verify ==
  \/ UNCHANGED verified
  \/ \E id \in 1..sent :
       /\ id > LastVerified
       /\ verified' = Append(verified, id)

(* The run goes on, or it ends.                                               *)
Conclude ==
  /\ outcome' \in {"running", "complete", "incomplete"}
  /\ outcome' = "complete" => verified' = [id \in 1..NumChunks |-> id]

(* One handler of a client may do all three.                                  *)
Next == outcome = "running" /\ Send /\ Verify /\ Conclude

Spec == Init /\ [][Next]_vars
=============================================================================
