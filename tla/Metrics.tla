------------------------------- MODULE Metrics -------------------------------
(* The three metrics aggregators: the one of the gRPC and Cap'n Proto clients,*)
(* that of the C++ TCP client and that of the Go client. Times are left out,  *)
(* but for whether they were taken; so are means and deviations.              *)
EXTENDS Integers

CONSTANTS
  Header,   \* bytes a protocol buffer adds to a chunk
  Modulus   \* 2^w, w being the width of size_t

ASSUME MetricsAssumption == Header \in Nat /\ Modulus \in Nat \ {0}

New == [timer |-> "unset", bytes |-> 0, wire |-> 0, rtts |-> 0, ok |-> 0,
        fail |-> 0, errors |-> 0]

(* Mutant: the two sizes are swapped.                                         *)
RecordChunkSent_Swapped(m, payload, onWire) ==
  [m EXCEPT !.bytes = (@ + onWire) % Modulus, !.wire = (@ + payload) % Modulus]

(* The common aggregator.                                                     *)
RecordChunkSent(m, payload, onWire) ==
  [m EXCEPT !.bytes = (@ + payload) % Modulus, !.wire = (@ + onWire) % Modulus]

RecordChunkRtt(m) == [m EXCEPT !.rtts = @ + 1]
SetTotalTime(m) == [m EXCEPT !.timer = "stopped"]
LogError(m) == [m EXCEPT !.errors = @ + 1]
LogErrorIf(condition, m) == IF condition THEN LogError(m) ELSE m

(* The difference of two size_t, computed before it becomes a double.         *)
Overhead(m) == IF m.bytes = 0 THEN 0 ELSE (m.wire - m.bytes) % Modulus

(* The other two have a timer of their own. The C++ one restarts only if it   *)
(* is not running, the Go one stops only once: neither case occurs.           *)
StartTimer(m) == [m EXCEPT !.timer = "running"]
StopTimer(m) == IF m.timer = "running" THEN [m EXCEPT !.timer = "stopped"] ELSE m

(* C++ TCP: stop_and_record_chunk_rtt.                                        *)
StopAndRecordChunkRtt(m, bytes, verified) ==
  [m EXCEPT !.rtts = @ + 1, !.bytes = @ + bytes, !.ok = @ + (IF verified THEN 1 ELSE 0)]

(* Go: a chunk is counted by three calls, one after the other.                *)
RecordChunkProcessed(m, bytes) == [m EXCEPT !.bytes = @ + bytes]
RecordChunkVerified(m, verified) ==
  IF verified THEN [m EXCEPT !.ok = @ + 1] ELSE [m EXCEPT !.fail = @ + 1]

-----------------------------------------------------------------------------
(* Saving.                                                                    *)

(* Whether the summary has figures: in C++ TCP only if the timer has run.     *)
HasFigures(code, m) == code = "tcp" => m.timer = "stopped"

(* Mutant: nobody opens the file of the RTTs without an RTT.                  *)
HasDetail_TimedOnly(code, m) == m.rtts > 0

(* Whether the file of the RTTs is opened at all: the common aggregator has   *)
(* nothing to save when no answer came.                                       *)
HasDetail(code, m) == code \in {"grpc", "capnp"} => m.rtts > 0

(* Whether the RTTs are saved although the summary could not be.              *)
GoesOnUnsaved(code) == code \in {"grpc", "capnp"}
=============================================================================
