----------------------------- MODULE GrpcStream -----------------------------
(* The gRPC benchmark: GrpcFileClient::ProcessFile, whose writer thread and   *)
(* reader (the thread that called it) share the map of requests in flight,    *)
(* and the handler ProcessFileChunks on the other end of one bidirectional    *)
(* stream.                                                                    *)
EXTENDS Chunks, FiniteSets

CONSTANTS
  NumChunks,     \* chunks of the test file (163840 in config.hpp)
  MaxInflight,   \* MAX_INFLIGHT_REQUESTS (2000)
  Window         \* messages one direction of the stream buffers (flow control)

ASSUME NumChunksAssumption == NumChunks \in Nat \ {0}
ASSUME MaxInflightAssumption == MaxInflight \in Nat \ {0}
ASSUME WindowAssumption == Window \in Nat \ {0}

VARIABLES
  wpc,         \* where the writer thread is
  broken,      \* writer_stream_broken
  sent,        \* requests written; the next client_assigned_id is sent + 1
  inflight,    \* keys of inflight_requests_map
  original,    \* the original_data_for_verification of each key, or << >>
  rpc,         \* where the reader is
  resp,        \* the last response read, resp.id its number; 0 before the first
  entry,       \* the chunk in request_log_entry, the reader's copy from the map
  verified,    \* ids verified so far: total_bytes_verified, one entry per chunk
  errors,      \* kinds of errors the metrics collector holds
  report,      \* what the end of ProcessFile says of the transfer
  srv,         \* where the server's handler is
  hand,        \* the response the handler is about to write
  c2s, s2c,    \* the two directions of the stream
  halfClosed,  \* the client has sent WritesDone
  call         \* "open", or "cancelled" by a broken connection or the deadline

writerVars == <<wpc, broken, sent>>
mapVars    == <<inflight, original>>
readerVars == <<rpc, resp, entry, verified, report>>
serverVars == <<srv, hand>>
netVars    == <<c2s, s2c, halfClosed, call>>
vars == <<writerVars, mapVars, readerVars, errors, serverVars, netVars>>

Request(id) == [id |-> id, data |-> Payload(id)]

(* Mutants: the handler forgets to reverse; it numbers the responses from 0.  *)
Response_Unreversed(req) == [id |-> req.id, data |-> req.data]
Response_FromZero(req)   == [id |-> req.id - 1, data |-> Reversed(req.data)]

Response(req) == [id |-> req.id, data |-> Reversed(req.data)]

(* Mutant: one entry too many.                                                *)
HasRoom_OffByOne == Cardinality(inflight) <= MaxInflight

(* The map has room: the predicate the writer waits for.                      *)
HasRoom == Cardinality(inflight) < MaxInflight

NoResponse == [id |-> 0, data |-> << >>]

Init ==
  /\ wpc = "idle" /\ broken = FALSE /\ sent = 0
  /\ inflight = {} /\ original = [id \in 1..NumChunks |-> << >>]
  /\ rpc = "start" /\ resp = NoResponse /\ entry = << >>
  /\ verified = << >> /\ report = "none"
  /\ errors = {}
  /\ srv = "idle" /\ hand = NoResponse
  /\ c2s = << >> /\ s2c = << >> /\ halfClosed = FALSE /\ call = "open"

-----------------------------------------------------------------------------
(* ProcessFile up to the creation of the writer thread.                       *)

Start ==
  /\ rpc = "start"
  /\ rpc' = "read"
  /\ wpc' = "wait_slot"
  /\ UNCHANGED <<broken, sent, mapVars, resp, entry, verified, errors, report,
                 serverVars, netVars>>

(* The file does not open (the constructor throws and main logs it) or the    *)
(* stub returns no stream (logged here): no thread is started.                *)
StartFails ==
  /\ rpc = "start"
  /\ rpc' = "done"
  /\ report' = "nothing"
  /\ errors' = errors \cup {"start"}
  /\ UNCHANGED <<writerVars, mapVars, resp, entry, verified, serverVars,
                 netVars>>

-----------------------------------------------------------------------------
(* The writer thread.                                                         *)

(* cv_can_send.wait tests its predicate under the lock and sleeps if there is *)
(* no room.                                                                   *)
WriterChecksRoom ==
  /\ wpc = "wait_slot"
  /\ wpc' = IF HasRoom THEN "read" ELSE "blocked"
  /\ UNCHANGED <<broken, sent, mapVars, readerVars, errors, serverVars,
                 netVars>>

(* A condition variable may wake up for no reason; the predicate is retested. *)
SpuriousWakeup ==
  /\ wpc = "blocked"
  /\ wpc' = "wait_slot"
  /\ UNCHANGED <<broken, sent, mapVars, readerVars, errors, serverVars,
                 netVars>>

(* Mutant: the end of the file is noticed one chunk late.                     *)
WriterReads_PastEnd ==
  /\ wpc = "read"
  /\ sent <= NumChunks
  /\ wpc' = "write"
  /\ UNCHANGED <<broken, sent, mapVars, readerVars, errors, serverVars,
                 netVars>>

WriterReads ==
  /\ wpc = "read"
  /\ sent < NumChunks
  /\ wpc' = "write"
  /\ UNCHANGED <<broken, sent, mapVars, readerVars, errors, serverVars,
                 netVars>>

(* next_chunk returns nothing and the reader says eof.                        *)
WriterEof ==
  /\ wpc = "read"
  /\ sent = NumChunks
  /\ wpc' = "finish"
  /\ UNCHANGED <<broken, sent, mapVars, readerVars, errors, serverVars,
                 netVars>>

(* A failed read sets eof_flag_ too: the writer takes it for the end.         *)
WriterReadError ==
  /\ wpc = "read"
  /\ sent < NumChunks
  /\ wpc' = "finish"
  /\ UNCHANGED <<broken, sent, mapVars, readerVars, errors, serverVars,
                 netVars>>

WriterWrites ==
  /\ wpc = "write"
  /\ call = "open"
  /\ Len(c2s) < Window
  /\ c2s' = Append(c2s, Request(sent + 1))
  /\ sent' = sent + 1
  /\ wpc' = "register"
  /\ UNCHANGED <<broken, mapVars, readerVars, errors, serverVars, s2c,
                 halfClosed, call>>

(* Mutant: a failed Write is tried again.                                     *)
WriterWriteFails_Retries ==
  /\ wpc = "write"
  /\ call = "cancelled"
  /\ UNCHANGED vars

WriterWriteFails ==
  /\ wpc = "write"
  /\ call = "cancelled"
  /\ broken' = TRUE
  /\ wpc' = "finish"
  /\ UNCHANGED <<sent, mapVars, readerVars, errors, serverVars, netVars>>

(* The entry enters the map only after Write has returned.                    *)
WriterRegisters ==
  /\ wpc = "register"
  /\ inflight' = inflight \cup {sent}
  /\ original' = [original EXCEPT ![sent] = Payload(sent)]
  /\ wpc' = "wait_slot"
  /\ UNCHANGED <<broken, sent, readerVars, errors, serverVars, netVars>>

(* The insertion is two steps of one statement: operator[] makes an entry     *)
(* without data, then the data is copied into it. When the allocation of the  *)
(* copy fails, the entry stays as operator[] made it.                         *)
WriterHalfInserts ==
  /\ wpc = "register"
  /\ inflight' = inflight \cup {sent}
  /\ wpc' = "log_exc"
  /\ UNCHANGED <<original, broken, sent, readerVars, errors, serverVars,
                 netVars>>

(* An allocation fails before that: in next_chunk, in building or writing the *)
(* request, or in operator[]. The handler of the exception logs it...         *)
WriterThrows ==
  /\ wpc \in {"read", "write", "register"}
  /\ wpc' = "log_exc"
  /\ UNCHANGED <<broken, sent, mapVars, readerVars, errors, serverVars,
                 netVars>>

(* ... and marks the stream as broken.                                        *)
WriterLogsException ==
  /\ wpc = "log_exc"
  /\ errors' = errors \cup {"writer_exception"}
  /\ broken' = TRUE
  /\ wpc' = "finish"
  /\ UNCHANGED <<sent, mapVars, readerVars, serverVars, netVars>>

(* A writer that gave up leaves without WritesDone.                           *)
WriterFinishes ==
  /\ wpc = "finish"
  /\ wpc' = IF broken THEN "exited" ELSE "half_close"
  /\ UNCHANGED <<broken, sent, mapVars, readerVars, errors, serverVars,
                 netVars>>

(* Mutant: WritesDone is not called.                                          *)
WriterHalfCloses_Forgets ==
  /\ wpc = "half_close"
  /\ wpc' = "exited"
  /\ UNCHANGED <<broken, sent, mapVars, readerVars, errors, serverVars,
                 netVars>>

WriterHalfCloses ==
  /\ wpc = "half_close"
  /\ halfClosed' = (call = "open")
  /\ wpc' = "exited"
  /\ UNCHANGED <<broken, sent, mapVars, readerVars, errors, serverVars, c2s,
                 s2c, call>>

-----------------------------------------------------------------------------
(* The reader.                                                                *)

ReaderReads ==
  /\ rpc = "read"
  /\ s2c # << >>
  /\ resp' = Head(s2c)
  /\ s2c' = Tail(s2c)
  /\ entry' = << >>
  /\ rpc' = "lookup"
  /\ UNCHANGED <<writerVars, mapVars, verified, report, errors, serverVars, c2s,
                 halfClosed, call>>

(* Read returns false: the stream broke, perhaps with responses undelivered,  *)
(* or the handler has returned and all its responses have been read.          *)
ReaderReadEnds ==
  /\ rpc = "read"
  /\ \/ call = "cancelled"
     \/ srv = "returned" /\ s2c = << >>
  /\ rpc' = "join"
  /\ UNCHANGED <<writerVars, mapVars, resp, entry, verified, report, errors,
                 serverVars, netVars>>

(* log_error appends to a vector no lock protects. While the writer is in the *)
(* middle of its own log_error the reader's append may lose either entry or   *)
(* corrupt the vector, which ends the process.                                *)
ReaderLogs(kind, next) ==
  \/ /\ errors' = errors \cup {kind}
     /\ rpc' = next
     /\ UNCHANGED <<wpc, broken, call>>
  \/ /\ wpc = "log_exc"              \* the writer's entry is overwritten
     /\ errors' = errors \cup {kind}
     /\ rpc' = next
     /\ wpc' = "finish"
     /\ broken' = TRUE
     /\ UNCHANGED call
  \/ /\ wpc = "log_exc"              \* the reader's entry is overwritten
     /\ rpc' = next
     /\ UNCHANGED <<errors, wpc, broken, call>>
  \/ /\ wpc = "log_exc"              \* heap corruption
     /\ rpc' = "aborted"
     /\ wpc' = "aborted"
     /\ call' = "cancelled"
     /\ UNCHANGED <<errors, broken>>

(* One critical section: the entry is copied out of the map and erased.       *)
ReaderFindsRequest ==
  /\ rpc = "lookup"
  /\ resp.id \in inflight
  /\ entry' = original[resp.id]
  /\ inflight' = inflight \ {resp.id}
  /\ original' = [original EXCEPT ![resp.id] = << >>]
  /\ rpc' = "matched"
  /\ UNCHANGED <<writerVars, resp, verified, report, errors, serverVars,
                 netVars>>

(* A response with no entry is logged and otherwise ignored.                  *)
ReaderFindsOrphan ==
  /\ rpc = "lookup"
  /\ resp.id \notin inflight
  /\ ReaderLogs("orphan", "read")
  /\ UNCHANGED <<sent, mapVars, resp, entry, verified, report, serverVars, c2s,
                 s2c, halfClosed>>

(* Mutant: the writer is not notified.                                        *)
ReaderNotifies_Forgets ==
  /\ rpc = "matched"
  /\ rpc' = "verify"
  /\ UNCHANGED <<writerVars, mapVars, resp, entry, verified, report, errors,
                 serverVars, netVars>>

(* notify_one, after the lock was released.                                   *)
ReaderNotifies ==
  /\ rpc = "matched"
  /\ wpc' = IF wpc = "blocked" THEN "wait_slot" ELSE wpc
  /\ rpc' = "verify"
  /\ UNCHANGED <<broken, sent, mapVars, resp, entry, verified, report, errors,
                 serverVars, netVars>>

ReaderVerifies ==
  /\ rpc = "verify"
  /\ IF resp.data = Reversed(entry)
     THEN /\ verified' = Append(verified, resp.id)
          /\ rpc' = "read"
          /\ UNCHANGED <<errors, wpc, broken, call>>
     ELSE /\ ReaderLogs("mismatch", "read")
          /\ UNCHANGED verified
  /\ UNCHANGED <<sent, mapVars, resp, entry, report, serverVars, c2s, s2c,
                 halfClosed>>

(* An allocation fails while the entry is copied, before it is erased, or in  *)
(* a message, or while the chunk is verified: the Read loop is left for its   *)
(* exception handler.                                                         *)
ReaderThrows ==
  /\ rpc \in {"lookup", "verify"}
  /\ rpc' = "log_exc"
  /\ UNCHANGED <<writerVars, mapVars, resp, entry, verified, report, errors,
                 serverVars, netVars>>

ReaderLogsException ==
  /\ rpc = "log_exc"
  /\ ReaderLogs("reader_exception", "join")
  /\ UNCHANGED <<sent, mapVars, resp, entry, verified, report, serverVars, c2s,
                 s2c, halfClosed>>

(* writer_thread.join(), then the look at what is left in the map.            *)
ReaderJoins ==
  /\ rpc = "join"
  /\ wpc = "exited"
  /\ errors' = IF inflight = {} THEN errors ELSE errors \cup {"left_in_map"}
  /\ rpc' = "finish"
  /\ UNCHANGED <<writerVars, mapVars, resp, entry, verified, report, serverVars,
                 netVars>>

(* Mutant: the bytes verified are compared with the bytes sent.               *)
Verdict_OfSent(ok) ==
  IF broken \/ ~ok THEN "nothing"
  ELSE IF Len(verified) = sent THEN "success" ELSE "data_loss"

(* The last comparison of ProcessFile; it is made only if the stream did not  *)
(* break and the call's status is OK.                                         *)
Verdict(ok) ==
  IF broken \/ ~ok THEN "nothing"
  ELSE IF Len(verified) = NumChunks THEN "success" ELSE "data_loss"

(* Mutant: a status that is not OK is printed and not logged.                 *)
FinalErrors_NoStatus(ok) == {Verdict(ok)} \cap {"data_loss"}

FinalErrors(ok) == IF ok THEN {Verdict(ok)} \cap {"data_loss"} ELSE {"rpc"}

(* Finish waits for the call's status, which is the handler's unless the call *)
(* broke first.                                                               *)
ReaderFinishes ==
  /\ rpc = "finish"
  /\ \/ call = "cancelled"
     \/ srv = "returned" /\ s2c = << >>
  /\ report' = Verdict(call = "open")
  /\ errors' = errors \cup FinalErrors(call = "open")
  /\ rpc' = "done"
  /\ UNCHANGED <<writerVars, mapVars, resp, entry, verified, serverVars,
                 netVars>>

-----------------------------------------------------------------------------
(* The server's handler, and the stream between the two.                      *)

ServerAccepts ==
  /\ srv = "idle"
  /\ rpc \notin {"start", "done"}
  /\ call = "open"
  /\ srv' = "read"
  /\ UNCHANGED <<writerVars, mapVars, readerVars, errors, hand, netVars>>

(* Mutant: a request is served again and again.                               *)
ServerReads_Repeats ==
  /\ srv = "read"
  /\ c2s # << >>
  /\ hand' = Response(Head(c2s))
  /\ srv' = "write"
  /\ UNCHANGED <<writerVars, mapVars, readerVars, errors, netVars>>

ServerReads ==
  /\ srv = "read"
  /\ c2s # << >>
  /\ hand' = Response(Head(c2s))
  /\ c2s' = Tail(c2s)
  /\ srv' = "write"
  /\ UNCHANGED <<writerVars, mapVars, readerVars, errors, s2c, halfClosed,
                 call>>

(* Mutant: the handler does not notice that the call is gone.                 *)
ServerReadEnds_IgnoresCancel ==
  /\ srv = "read"
  /\ halfClosed /\ c2s = << >>
  /\ srv' = "returned"
  /\ UNCHANGED <<writerVars, mapVars, readerVars, errors, hand, netVars>>

ServerReadEnds ==
  /\ srv = "read"
  /\ \/ halfClosed /\ c2s = << >>
     \/ call = "cancelled"
  /\ srv' = "returned"
  /\ UNCHANGED <<writerVars, mapVars, readerVars, errors, hand, netVars>>

(* Mutant: responses overtake one another.                                    *)
ServerWrites_Reorders ==
  /\ srv = "write"
  /\ call = "open"
  /\ Len(s2c) < Window
  /\ s2c' = <<hand>> \o s2c
  /\ srv' = "read"
  /\ UNCHANGED <<writerVars, mapVars, readerVars, errors, hand, c2s, halfClosed,
                 call>>

ServerWrites ==
  /\ srv = "write"
  /\ call = "open"
  /\ Len(s2c) < Window
  /\ s2c' = Append(s2c, hand)
  /\ srv' = "read"
  /\ UNCHANGED <<writerVars, mapVars, readerVars, errors, hand, c2s, halfClosed,
                 call>>

ServerWriteFails ==
  /\ srv = "write"
  /\ call = "cancelled"
  /\ srv' = "returned"
  /\ UNCHANGED <<writerVars, mapVars, readerVars, errors, hand, netVars>>

(* The connection is lost, or the deadline of 15 minutes passes. A call whose *)
(* status the client already has cannot break any more.                       *)
CallBreaks ==
  /\ rpc \notin {"start", "done", "aborted"}
  /\ call = "open"
  /\ call' = "cancelled"
  /\ UNCHANGED <<writerVars, mapVars, readerVars, errors, serverVars, c2s, s2c,
                 halfClosed>>

-----------------------------------------------------------------------------
WriterStep ==
  \/ WriterChecksRoom \/ WriterReads \/ WriterEof \/ WriterWrites
  \/ WriterWriteFails \/ WriterRegisters \/ WriterLogsException
  \/ WriterFinishes \/ WriterHalfCloses

ReaderStep ==
  \/ Start \/ ReaderReads \/ ReaderReadEnds \/ ReaderFindsRequest
  \/ ReaderFindsOrphan \/ ReaderNotifies \/ ReaderVerifies
  \/ ReaderLogsException \/ ReaderJoins \/ ReaderFinishes

ServerStep ==
  \/ ServerAccepts \/ ServerReads \/ ServerReadEnds \/ ServerWrites
  \/ ServerWriteFails

Fault ==
  \/ StartFails \/ SpuriousWakeup \/ WriterReadError \/ WriterHalfInserts
  \/ WriterThrows \/ ReaderThrows \/ CallBreaks

(* ProcessFile has returned or the process is gone.                           *)
Ended == rpc \in {"done", "aborted"} /\ UNCHANGED vars

Next == WriterStep \/ ReaderStep \/ ServerStep \/ Fault \/ Ended

Spec == Init /\ [][Next]_vars

(* The scheduler runs both threads and the handler's thread; what goes wrong  *)
(* need not go wrong.                                                         *)
LiveSpec ==
  Spec /\ WF_vars(WriterStep) /\ WF_vars(ReaderStep) /\ WF_vars(ServerStep)

(* The deadline of the call passes in the end.                                *)
Deadline == WF_vars(CallBreaks)
TimedSpec == LiveSpec /\ Deadline

-----------------------------------------------------------------------------
(* Properties.                                                                *)

Chunk == [id : Nat, data : Seq(Nat)]

(* Every variable stays in its type; no more chunks are written than the file *)
(* has, and no direction of the stream holds more than its window.            *)
TypeOK ==
  /\ wpc \in {"idle", "wait_slot", "blocked", "read", "write", "register",
              "log_exc", "finish", "half_close", "exited", "aborted"}
  /\ broken \in BOOLEAN
  /\ sent \in 0..NumChunks
  /\ inflight \subseteq 1..NumChunks
  /\ original \in [1..NumChunks -> Seq(Nat)]
  /\ rpc \in {"start", "read", "lookup", "matched", "verify", "log_exc", "join",
              "finish", "done", "aborted"}
  /\ resp \in Chunk /\ entry \in Seq(Nat)
  /\ verified \in Seq(1..NumChunks)
  /\ errors \subseteq {"start", "writer_exception", "orphan", "mismatch",
                       "reader_exception", "left_in_map", "rpc", "data_loss"}
  /\ report \in {"none", "nothing", "success", "data_loss"}
  /\ srv \in {"idle", "read", "write", "returned"}
  /\ hand \in Chunk
  /\ c2s \in Seq(Chunk) /\ Len(c2s) <= Window
  /\ s2c \in Seq(Chunk) /\ Len(s2c) <= Window
  /\ halfClosed \in BOOLEAN
  /\ call \in {"open", "cancelled"}

(* The map never holds more than MAX_INFLIGHT_REQUESTS entries, although the  *)
(* writer tests its size three steps, and two releases of the lock, before it *)
(* inserts (grpc_client.cpp:104-107 and 149-152).                             *)
MapBounded == Cardinality(inflight) <= MaxInflight

(* No wakeup is lost: the writer sleeps with room in the map only while the   *)
(* reader is between the erase under the lock and its notify_one outside it.  *)
NoLostWakeup == wpc = "blocked" /\ HasRoom => rpc = "matched"

(* A response that finds no entry can only be the one to the last request     *)
(* written, overtaking the writer on its way from Write to the insertion, or  *)
(* the one whose insertion an exception prevented.                            *)
OrphanIsUnregistered ==
  rpc = "lookup" /\ resp.id \notin inflight =>
    /\ resp.id = sent
    /\ wpc \notin {"wait_slot", "blocked", "read", "write"}

(* A response that was served correctly is blamed only if its entry in the    *)
(* map was left without data, by an exception between operator[] and the copy *)
(* (grpc_client.cpp:151). That can be the last request only, it counts as not *)
(* verified, and the writer is on its way to declare the stream broken. No    *)
(* entry is ever compared with the response to another chunk.                 *)
BlameMeansHalfInserted ==
  "mismatch" \in errors =>
    /\ resp.id = sent /\ entry = << >>
    /\ Len(verified) < sent
    /\ broken \/ wpc \in {"log_exc", "aborted"}

(* "All data successfully transferred and verified" (grpc_client.cpp:316) is  *)
(* said only if every chunk of the file was verified once, in order, the map  *)
(* is empty and nothing was logged on the way.                                *)
SuccessMeansVerified ==
  report = "success" =>
    /\ verified = [id \in 1..NumChunks |-> id]
    /\ inflight = {}
    /\ errors = {}

(* A run that ends without saying so has an error in its summary: none of the *)
(* ways out of ProcessFile is silent, a race of two log_error calls included. *)
NoSilentFailure == rpc = "done" /\ report # "success" => errors # {}

(* ProcessFile looks at the map, calls Finish and returns, destroying all the *)
(* writer thread refers to, only after that thread has ended.                 *)
NoUseAfterScope == rpc \in {"finish", "done"} => wpc \in {"idle", "exited"}

(* Requests are answered in the order they were written, each exactly once:   *)
(* a response that is read is the one to the chunk after the last.            *)
ReadInOrder ==
  [][rpc = "read" /\ rpc' = "lookup" =>
       resp'.id = resp.id + 1 /\ resp'.id <= sent]_vars

(* The client implements the contract that all the benchmarks share.          *)
Outcome == CASE report = "success" -> "complete"
             [] rpc \in {"done", "aborted"} /\ report # "success" -> "incomplete"
             [] OTHER -> "running"

Echo == INSTANCE EchoBenchmark WITH outcome <- Outcome
EchoSpec == Echo!Spec

(* The deadline ends every run, unless the writer is left asleep in its wait  *)
(* with a full map and a reader that is waiting to join it.                   *)
Hung == wpc \in {"wait_slot", "blocked"} /\ ~HasRoom /\ rpc = "join"
EndsOrHangs == Deadline => <>[](rpc \in {"done", "aborted"} \/ Hung)

(* Whatever the client does, the deadline makes a handler that was entered    *)
(* return.                                                                    *)
HandlerReturns == Deadline => (srv = "read" ~> srv = "returned")

(* If nothing is logged and the call does not break, the run ends in success, *)
(* without the deadline's help: the writer, the handler and the reader never  *)
(* wait for one another in a circle.                                          *)
CleanRunSucceeds == <>(report = "success" \/ errors # {} \/ call = "cancelled")

(* "Verify whether unprocessed requests are left in the map (there should be  *)
(* none if all the responses came)": grpc_client.cpp:273.                     *)
AllAnsweredLeavesNone ==
  /\ rpc = "finish" /\ call = "open" /\ ~broken /\ resp.id = NumChunks
  /\ "reader_exception" \notin errors
  => inflight = {}

(* "Make sure that writer_thread has finished": grpc_client.cpp:267.          *)
WriterThreadJoined == rpc = "join" ~> wpc = "exited"
=============================================================================
