---------------------------- MODULE TcpBenchmark ----------------------------
(* The C++ TCP benchmark: TCPClient processes, each a chain of asynchronous   *)
(* operations on one io_context, and the TCPServer process, whose acceptor    *)
(* and TCPSessions share another. A handler runs to its end before the next   *)
(* one: every action is one handler with all that it calls.                   *)
EXTENDS Chunks, TcpFraming

CONSTANTS
  Clients,     \* client processes
  NumChunks    \* chunks of the test file, all of them full

ASSUME NumChunksAssumption == NumChunks \in Nat \ {0}

VARIABLES
  cpc,        \* the operation the client has pending, or how it ended
  chunk,      \* m_current_chunk_data
  eof,        \* m_eof of the client's ChunkReader
  nread,      \* full chunks the ChunkReader has returned
  sent,       \* chunks whose async_write has been started
  chunksSent, \* m_chunks_sent
  cbody,      \* size of the client's m_read_body_buffer
  verified,   \* numbers of the full chunks verified
  result,     \* "running", or what stop_client_operations was told
  spc,        \* the operation the session has pending
  sbody,      \* the session's m_read_body_buffer
  server,     \* the server process: "running", "stopped" or "crashed"
  up, down,   \* the bytes on their way to the session and to the client
  fin,        \* the ends that are closed: a subset of {"client", "server"}
  reset,      \* the connection has been reset
  cut         \* connections that the network, not an end, has reset

readerVars == <<chunk, eof, nread, sent>>
clientVars == <<cpc, readerVars, chunksSent, cbody, verified, result>>
sessionVars == <<spc, sbody>>
netVars == <<up, down, fin, reset, cut>>
vars == <<clientVars, sessionVars, server, netVars>>

MaxBody == 4   \* CHUNK_SIZE * 2, a full chunk being two bytes long

Init ==
  /\ cpc = [c \in Clients |-> "resolve"]
  /\ chunk = [c \in Clients |-> << >>]
  /\ eof = [c \in Clients |-> FALSE]
  /\ nread = [c \in Clients |-> 0]
  /\ sent = [c \in Clients |-> 0]
  /\ chunksSent = [c \in Clients |-> 0]
  /\ cbody = [c \in Clients |-> 0]
  /\ verified = [c \in Clients |-> << >>]
  /\ result = [c \in Clients |-> "running"]
  /\ spc = [c \in Clients |-> "none"]
  /\ sbody = [c \in Clients |-> << >>]
  /\ server = "running"
  /\ up = [c \in Clients |-> << >>]
  /\ down = [c \in Clients |-> << >>]
  /\ fin = [c \in Clients |-> {}]
  /\ reset = [c \in Clients |-> FALSE]
  /\ cut = {}

-----------------------------------------------------------------------------
(* What several handlers of the client call.                                  *)

(* stop_client_operations: the socket and the io_context, so that no other    *)
(* handler runs. main saves the metrics, whatever the result.                 *)
Stop(c, outcome) ==
  /\ cpc' = [cpc EXCEPT ![c] = "stopped"]
  /\ result' = [result EXCEPT ![c] = outcome]
  /\ fin' = [fin EXCEPT ![c] = @ \cup {"client"}]

(* Mutant: the end of the file is seen only if nothing was read.              *)
ReadOutcomes_ShortNotEof(c) ==
  LET n == nread[c] + 1
      full == IF n <= NumChunks THEN {[data |-> Payload(n), eof |-> FALSE]}
                                ELSE {[data |-> << >>, eof |-> TRUE]}
      faulty == {[data |-> << >>, eof |-> TRUE],
                 [data |-> SubSeq(Payload(n), 1, 1), eof |-> FALSE]}
  IN  full \cup (IF n <= NumChunks THEN faulty ELSE {})

(* read_next_chunk returns the next chunk; a failed read returns a part of it *)
(* or nothing, and is taken for the end of the file in both cases.            *)
ReadOutcomes(c) ==
  LET n == nread[c] + 1
      full == IF n <= NumChunks THEN {[data |-> Payload(n), eof |-> FALSE]}
                                ELSE {[data |-> << >>, eof |-> TRUE]}
      faulty == {[data |-> << >>, eof |-> TRUE],
                 [data |-> SubSeq(Payload(n), 1, 1), eof |-> TRUE]}
  IN  full \cup (IF n <= NumChunks THEN faulty ELSE {})

(* Mutant: the last chunk is not sent.                                        *)
AllSent_Early(count) == count + 1 >= NumChunks

AllSent(count) == count >= NumChunks

(* send_next_chunk, when the m_chunks_sent is count: all sent, or the end     *)
(* of the file, or the start of an async_write.                               *)
SendNext(c, count) ==
  IF AllSent(count) \/ eof[c]
  THEN /\ Stop(c, "ok")
       /\ UNCHANGED <<readerVars, up>>
  ELSE \E r \in ReadOutcomes(c) :
         /\ eof' = [eof EXCEPT ![c] = r.eof]
         /\ chunk' = [chunk EXCEPT ![c] = r.data]
         /\ nread' = [nread EXCEPT ![c] = @ + (IF r.eof THEN 0 ELSE 1)]
         /\ IF r.data = << >>
            THEN /\ Stop(c, "ok")
                 /\ UNCHANGED <<sent, up>>
            ELSE /\ cpc' = [cpc EXCEPT ![c] = "write"]
                 /\ sent' = [sent EXCEPT ![c] = @ + 1]
                 /\ up' = [up EXCEPT ![c] = @ \o Frame(r.data)]
                 /\ UNCHANGED <<result, fin>>

(* Mutant: whatever was sent last counts as a chunk.                          *)
VerifiedChunks_CountsPartial(c) == Append(verified[c], nread[c])

(* The chunk just verified counts if it was a full one.                       *)
VerifiedChunks(c) ==
  IF chunk[c] = Payload(nread[c]) THEN Append(verified[c], nread[c])
                                  ELSE verified[c]

(* handle_received_chunk_data.                                                *)
Handle(c, body) ==
  IF body = Reversed(chunk[c])
  THEN /\ chunksSent' = [chunksSent EXCEPT ![c] = @ + 1]
       /\ verified' = [verified EXCEPT ![c] = VerifiedChunks(c)]
       /\ SendNext(c, chunksSent[c] + 1)
  ELSE /\ Stop(c, "error")
       /\ UNCHANGED <<readerVars, chunksSent, verified, up>>

-----------------------------------------------------------------------------
(* The client's handlers.                                                     *)

Resolved(c) ==
  /\ cpc[c] = "resolve"
  /\ cpc' = [cpc EXCEPT ![c] = "connect"]
  /\ UNCHANGED <<readerVars, chunksSent, cbody, verified, result, sessionVars,
                 server, netVars>>

ResolveFails(c) ==
  /\ cpc[c] = "resolve"
  /\ Stop(c, "unresolved")
  /\ UNCHANGED <<readerVars, chunksSent, cbody, verified, sessionVars, server,
                 up, down, reset, cut>>

(* The kernels connect the two: the connection waits in the acceptor's        *)
(* backlog, and the client's handler for its turn.                            *)
Establishes(c) ==
  /\ cpc[c] = "connect"
  /\ server = "running"
  /\ cpc' = [cpc EXCEPT ![c] = "connected"]
  /\ spc' = [spc EXCEPT ![c] = "backlog"]
  /\ UNCHANGED <<readerVars, chunksSent, cbody, verified, result, sbody, server,
                 netVars>>

(* The handler, without an error.                                             *)
Connected(c) ==
  /\ cpc[c] = "connected"
  /\ ~reset[c]
  /\ SendNext(c, chunksSent[c])
  /\ UNCHANGED <<chunksSent, cbody, verified, sessionVars, server, down, reset,
                 cut>>

(* It logs the address of its peer first; remote_endpoint throws if the       *)
(* connection is reset by then, out of run() and to the end of main, which    *)
(* saves nothing.                                                             *)
ConnectThrows(c) ==
  /\ cpc[c] = "connected"
  /\ reset[c]
  /\ Stop(c, "exception")
  /\ UNCHANGED <<readerVars, chunksSent, cbody, verified, sessionVars, server,
                 up, down, reset, cut>>

(* The handler with an error: no connection came about, for a server that is  *)
(* gone or for any other reason, or asio found it reset.                      *)
ConnectFails(c) ==
  /\ \/ cpc[c] = "connect"
     \/ cpc[c] = "connected" /\ reset[c]
  /\ Stop(c, "error")
  /\ UNCHANGED <<readerVars, chunksSent, cbody, verified, sessionVars, server,
                 up, down, reset, cut>>

ChunkWritten(c) ==
  /\ cpc[c] = "write"
  /\ ~reset[c]
  /\ cpc' = [cpc EXCEPT ![c] = "read_header"]
  /\ UNCHANGED <<readerVars, chunksSent, cbody, verified, result, sessionVars,
                 server, netVars>>

HeaderRead(c) ==
  /\ cpc[c] = "read_header"
  /\ ~reset[c] /\ HasBytes(down[c], HeaderSize)
  /\ down' = [down EXCEPT ![c] = WithoutFirst(@, HeaderSize)]
  /\ LET length == ParseHeader(FirstBytes(down[c], HeaderSize)) IN
       \/ /\ length > MaxBody
          /\ Stop(c, "error")
          /\ UNCHANGED <<readerVars, chunksSent, cbody, verified, up>>
       \/ /\ length = 0
          /\ cbody' = [cbody EXCEPT ![c] = 0]
          /\ Handle(c, << >>)
       \/ /\ length \in 1..MaxBody
          /\ cbody' = [cbody EXCEPT ![c] = length]
          /\ cpc' = [cpc EXCEPT ![c] = "read_body"]
          /\ UNCHANGED <<readerVars, chunksSent, verified, result, up, fin>>
  /\ UNCHANGED <<sessionVars, server, reset, cut>>

BodyRead(c) ==
  /\ cpc[c] = "read_body"
  /\ ~reset[c] /\ HasBytes(down[c], cbody[c])
  /\ down' = [down EXCEPT ![c] = WithoutFirst(@, cbody[c])]
  /\ Handle(c, FirstBytes(down[c], cbody[c]))
  /\ UNCHANGED <<cbody, sessionVars, server, reset, cut>>

(* Mutant: an end of file starts the read again.                              *)
ServerEof_ReadsAgain(c) ==
  /\ \/ cpc[c] = "read_header" /\ ~HasBytes(down[c], HeaderSize)
     \/ cpc[c] = "read_body" /\ ~HasBytes(down[c], cbody[c])
  /\ ~reset[c] /\ "server" \in fin[c]
  /\ UNCHANGED vars

(* The server closed its end before all the bytes awaited.                    *)
ServerEof(c) ==
  /\ \/ cpc[c] = "read_header" /\ ~HasBytes(down[c], HeaderSize)
     \/ cpc[c] = "read_body" /\ ~HasBytes(down[c], cbody[c])
  /\ ~reset[c] /\ "server" \in fin[c]
  /\ Stop(c, IF cpc[c] = "read_header" /\ chunksSent[c] >= NumChunks
             THEN "ok" ELSE "error")
  /\ UNCHANGED <<readerVars, chunksSent, cbody, verified, sessionVars, server,
                 up, down, reset, cut>>

OperationFails(c) ==
  /\ cpc[c] \in {"write", "read_header", "read_body"}
  /\ reset[c]
  /\ Stop(c, "error")
  /\ UNCHANGED <<readerVars, chunksSent, cbody, verified, sessionVars, server,
                 up, down, reset, cut>>

(* The client's process is killed.                                            *)
ClientDies(c) ==
  /\ cpc[c] # "stopped"
  /\ Stop(c, "killed")
  /\ UNCHANGED <<readerVars, chunksSent, cbody, verified, sessionVars, server,
                 up, down, reset, cut>>

-----------------------------------------------------------------------------
(* The server. When its process ends, the kernel closes all its sockets.      *)

ServerGoes(how) ==
  /\ server' = how
  /\ spc' = [c \in Clients |-> IF spc[c] = "none" THEN "none" ELSE "closed"]
  /\ fin' = [c \in Clients |->
               IF spc[c] = "none" THEN fin[c] ELSE fin[c] \cup {"server"}]

(* Mutant: remote_endpoint throws on any connection the client has closed.    *)
SessionEnds_ThrowsOnEof(c) ==
  IF reset[c] \/ "client" \in fin[c]
  THEN ServerGoes("crashed")
  ELSE /\ spc' = [spc EXCEPT ![c] = "closed"]
       /\ fin' = [fin EXCEPT ![c] = @ \cup {"server"}]
       /\ UNCHANGED server

(* The last reference to the session goes with its handler. The destructor    *)
(* calls remote_endpoint, which throws on a connection that has been reset;   *)
(* out of a destructor, that ends the process.                                *)
SessionEnds(c) ==
  IF reset[c]
  THEN ServerGoes("crashed")
  ELSE /\ spc' = [spc EXCEPT ![c] = "closed"]
       /\ fin' = [fin EXCEPT ![c] = @ \cup {"server"}]
       /\ UNCHANGED server

(* The constructor calls remote_endpoint as well; its exception leaves run(). *)
Accepted(c) ==
  /\ spc[c] = "backlog"
  /\ IF reset[c]
     THEN ServerGoes("crashed")
     ELSE /\ spc' = [spc EXCEPT ![c] = "header"]
          /\ UNCHANGED <<server, fin>>
  /\ UNCHANGED <<clientVars, sbody, up, down, reset, cut>>

SessionReadsHeader(c) ==
  /\ spc[c] = "header"
  /\ ~reset[c] /\ HasBytes(up[c], HeaderSize)
  /\ up' = [up EXCEPT ![c] = WithoutFirst(@, HeaderSize)]
  /\ LET length == ParseHeader(FirstBytes(up[c], HeaderSize)) IN
       \/ /\ length = 0
          /\ sbody' = [sbody EXCEPT ![c] = << >>]
          /\ down' = [down EXCEPT ![c] = @ \o Frame(<< >>)]
          /\ spc' = [spc EXCEPT ![c] = "write"]
          /\ UNCHANGED <<server, fin>>
       \/ /\ length > MaxBody
          /\ SessionEnds(c)
          /\ UNCHANGED <<sbody, down>>
       \/ /\ length \in 1..MaxBody
          /\ sbody' = [sbody EXCEPT ![c] = [i \in 1..length |-> 0]]
          /\ spc' = [spc EXCEPT ![c] = "body"]
          /\ UNCHANGED <<server, fin, down>>
  /\ UNCHANGED <<clientVars, reset, cut>>

SessionReadsBody(c) ==
  /\ spc[c] = "body"
  /\ ~reset[c] /\ HasBytes(up[c], Len(sbody[c]))
  /\ LET body == FirstBytes(up[c], Len(sbody[c])) IN
       /\ sbody' = [sbody EXCEPT ![c] = Reversed(body)]
       /\ down' = [down EXCEPT ![c] = @ \o Frame(Reversed(body))]
  /\ up' = [up EXCEPT ![c] = WithoutFirst(@, Len(sbody[c]))]
  /\ spc' = [spc EXCEPT ![c] = "write"]
  /\ UNCHANGED <<clientVars, server, fin, reset, cut>>

ResponseWritten(c) ==
  /\ spc[c] = "write"
  /\ ~reset[c]
  /\ spc' = [spc EXCEPT ![c] = "header"]
  /\ UNCHANGED <<clientVars, sbody, server, netVars>>

(* Mutant: an end of file is no reason to give up.                            *)
SessionOperationFails_ResetOnly(c) ==
  /\ spc[c] \in {"header", "body", "write"} /\ reset[c]
  /\ SessionEnds(c)
  /\ UNCHANGED <<clientVars, sbody, up, down, reset, cut>>

(* End of file or an error: the handler starts no other operation.            *)
SessionOperationFails(c) ==
  /\ \/ spc[c] \in {"header", "body", "write"} /\ reset[c]
     \/ spc[c] = "header" /\ "client" \in fin[c] /\ ~HasBytes(up[c], HeaderSize)
     \/ spc[c] = "body" /\ "client" \in fin[c] /\ ~HasBytes(up[c], Len(sbody[c]))
  /\ SessionEnds(c)
  /\ UNCHANGED <<clientVars, sbody, up, down, reset, cut>>

(* SIGINT or SIGTERM.                                                         *)
ServerStops ==
  /\ server = "running"
  /\ ServerGoes("stopped")
  /\ UNCHANGED <<cpc, readerVars, chunksSent, cbody, verified, result, sbody, up,
                 down, reset, cut>>

(* A connection one end of which is still open is reset: by the network, or   *)
(* by the bytes that reach an end that is closed or that it has not read when *)
(* it closes. What it carried is lost.                                        *)
ConnectionReset(c) ==
  /\ spc[c] # "none"
  /\ ~reset[c] /\ fin[c] # {"client", "server"}
  /\ \/ cut' = cut \cup {c}
     \/ /\ \/ "client" \in fin[c] /\ down[c] # << >>
           \/ "server" \in fin[c] /\ up[c] # << >>
        /\ UNCHANGED cut
  /\ reset' = [reset EXCEPT ![c] = TRUE]
  /\ up' = [up EXCEPT ![c] = << >>]
  /\ down' = [down EXCEPT ![c] = << >>]
  /\ UNCHANGED <<clientVars, sessionVars, server, fin>>

-----------------------------------------------------------------------------
ClientStep(c) ==
  \/ Resolved(c) \/ Establishes(c) \/ Connected(c) \/ ConnectThrows(c)
  \/ ConnectFails(c) \/ ChunkWritten(c) \/ HeaderRead(c) \/ BodyRead(c) \/ ServerEof(c)
  \/ OperationFails(c)

SessionStep(c) ==
  \/ Accepted(c) \/ SessionReadsHeader(c) \/ SessionReadsBody(c)
  \/ ResponseWritten(c) \/ SessionOperationFails(c)

Ended == (\A c \in Clients : cpc[c] = "stopped") /\ UNCHANGED vars

Next ==
  \/ \E c \in Clients :
       \/ ClientStep(c) \/ SessionStep(c)
       \/ ResolveFails(c) \/ ClientDies(c) \/ ConnectionReset(c)
  \/ ServerStops
  \/ Ended

Spec == Init /\ [][Next]_vars

(* Both io_contexts run the handlers that are ready; nothing fails or stops   *)
(* by necessity.                                                              *)
LiveSpec ==
  Spec /\ \A c \in Clients : WF_vars(ClientStep(c)) /\ WF_vars(SessionStep(c))

-----------------------------------------------------------------------------
(* Properties.                                                                *)

Bytes == Seq(Nat)

(* Every variable stays in its type.                                          *)
TypeOK ==
  /\ cpc \in [Clients -> {"resolve", "connect", "connected", "write",
                          "read_header", "read_body", "stopped"}]
  /\ chunk \in [Clients -> Bytes]
  /\ eof \in [Clients -> BOOLEAN]
  /\ nread \in [Clients -> 0..NumChunks]
  /\ sent \in [Clients -> 0..NumChunks]
  /\ chunksSent \in [Clients -> 0..NumChunks]
  /\ cbody \in [Clients -> 0..MaxBody]
  /\ verified \in [Clients -> Seq(1..NumChunks)]
  /\ result \in [Clients -> {"running", "ok", "error", "unresolved", "exception",
                         "killed"}]
  /\ spc \in [Clients -> {"none", "backlog", "header", "body", "write", "closed"}]
  /\ sbody \in [Clients -> Bytes]
  /\ server \in {"running", "stopped", "crashed"}
  /\ up \in [Clients -> Bytes]
  /\ down \in [Clients -> Bytes]
  /\ fin \in [Clients -> SUBSET {"client", "server"}]
  /\ reset \in [Clients -> BOOLEAN]
  /\ cut \subseteq Clients

(* Neither end ever takes a byte of a payload for a byte of a header: between *)
(* two messages the stream holds nothing or one whole frame, and inside one   *)
(* exactly the body the header announced.                                     *)
StreamInStep ==
  \A c \in Clients :
    ~reset[c] =>
      /\ spc[c] = "header" => up[c] \in {<< >>, Frame(chunk[c])}
      /\ spc[c] = "body" => up[c] = chunk[c] /\ Len(sbody[c]) = Len(chunk[c])
      /\ cpc[c] = "read_header" => down[c] \in {<< >>, Frame(Reversed(chunk[c]))}
      /\ cpc[c] = "read_body" => down[c] = Reversed(chunk[c])

(* A client fails only because no connection came about, or with its own      *)
(* connection, or with the server: never through the framing, the             *)
(* verification or an answer meant for another. It ends without saving        *)
(* anything (tcp_client.cpp:89) only before its first chunk, on a connection  *)
(* that was established and is reset.                                         *)
ErrorHasCause ==
  \A c \in Clients :
    /\ result[c] \in {"error", "exception"} =>
         spc[c] = "none" \/ reset[c] \/ server # "running"
    /\ result[c] = "exception" => spc[c] # "none" /\ reset[c] /\ sent[c] = 0

(* One connection that is reset ends the server, and with it every other      *)
(* session: remote_endpoint throws in the session's constructor and           *)
(* destructor (tcp_server.cpp:18 and 24). A client that has said that it is   *)
(* done, or that is still at work, never does that to the others: its         *)
(* connection is not reset, wherever its session is, unless by the network.   *)
SuccessHarmsNobody ==
  server = "crashed" =>
    \E c \in Clients : reset[c] /\ (c \in cut \/ result[c] \notin {"running", "ok"})

(* What a client and the server may fail of. One reset can reach everybody,   *)
(* through the server it ends (tcp_server.cpp:24); nothing but a reset, a     *)
(* connection that did not come about or the server's own end does any harm.  *)
FailureHasCause == ErrorHasCause /\ SuccessHarmsNobody

(* "Operations finished successfully" (tcp_client.cpp:76) means at least that *)
(* every chunk read in full came back reversed, in order, even if the reader  *)
(* failed on the way.                                                         *)
OkMeansReadVerified ==
  \A c \in Clients :
    result[c] = "ok" => verified[c] = [i \in 1..nread[c] |-> i]

(* "Reached end of file as less than chunk_size was read":                    *)
(* chunk_reader.cpp:53. A flag that comes with a chunk was set by that line.  *)
ShortReadMeansEnd ==
  \A c \in Clients : eof[c] /\ chunk[c] # << >> => nread[c] = NumChunks

(* Each client implements the contract that all the benchmarks share, if what *)
(* it says after a read has failed is not taken for a claim of completeness.  *)
ReadFailed(c) == eof[c] /\ nread[c] < NumChunks
Outcome(c) == CASE result[c] = "ok" /\ ~ReadFailed(c) -> "complete"
                [] result[c] = "running" -> "running"
                [] OTHER -> "incomplete"

Echo(c) == INSTANCE EchoBenchmark
             WITH sent <- sent[c], verified <- verified[c], outcome <- Outcome(c)
EchoSpec ==
  /\ \A c \in Clients : Echo(c)!Init
  /\ [][\A c \in Clients : Echo(c)!Next \/ UNCHANGED Echo(c)!vars]_vars

(* Every client ends, although none of its operations has a timeout.          *)
ClientsEnd == \A c \in Clients : <>(cpc[c] = "stopped")

(* No session outlives its client.                                            *)
SessionsEnd ==
  \A c \in Clients :
    (cpc[c] = "stopped" /\ spc[c] # "none") ~> (spc[c] = "closed")
=============================================================================
