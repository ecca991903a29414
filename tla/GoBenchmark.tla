---------------------------- MODULE GoBenchmark ----------------------------
(* The Go TCP benchmark: the client, one goroutine that makes one blocking    *)
(* call after the other, and the goroutine the server runs for its            *)
(* connection. Connections share nothing, so one of each is enough. Time is   *)
(* the number of ticks since the connection was made, because the client      *)
(* sets the deadlines of all its reads and writes once, at that moment.       *)
EXTENDS Chunks, TcpFraming

CONSTANTS
  NumChunks,  \* chunks of the test file, all of them full
  Timeout     \* the deadline in ticks (60 seconds)

ASSUME NumChunksAssumption == NumChunks \in Nat \ {0}
ASSUME TimeoutAssumption == Timeout \in Nat \ {0}

VARIABLES
  cpc,       \* the call the client is in
  chunk,     \* chunkData
  eof,       \* eofReached of the ChunkReader
  nread,     \* chunks read from the file
  sent,      \* messages the client has begun to write
  cbody,     \* length of the body the client's ReadMessage waits for
  received,  \* receivedData
  verified,  \* numbers of the chunks verified
  result,    \* "running", or how the client ended
  clock,     \* ticks since the connection was made, up to Timeout
  waited,    \* ticks since the client's current call on the connection began
  spc,       \* the call handleConnection is in
  sbody,     \* length of the body awaited, then receivedData
  server,    \* the server's process: "running" or "gone"
  up, down,  \* the bytes on their way to the server and to the client
  fin,       \* the ends that are closed
  reset      \* the connection has been reset

fileVars == <<chunk, eof, nread, sent>>
clientVars == <<cpc, fileVars, cbody, received, verified, result>>
timeVars == <<clock, waited>>
serverVars == <<spc, sbody, server>>
netVars == <<up, down, fin, reset>>
vars == <<clientVars, timeVars, serverVars, netVars>>

Init ==
  /\ cpc = "dial" /\ chunk = << >> /\ eof = FALSE /\ nread = 0 /\ sent = 0
  /\ cbody = 0 /\ received = << >> /\ verified = << >> /\ result = "running"
  /\ clock = 0 /\ waited = 0
  /\ spc = "none" /\ sbody = << >> /\ server = "running"
  /\ up = << >> /\ down = << >> /\ fin = {} /\ reset = FALSE

-----------------------------------------------------------------------------
(* The client ends by returning from main, log.Fatalf or os.Exit(1); its      *)
(* socket is closed in each case.                                             *)
Exit(outcome) ==
  /\ cpc' = "exited"
  /\ result' = outcome
  /\ fin' = fin \cup {"client"}

(* The client's next call on its connection.                                  *)
Calls(pc) == cpc' = pc /\ waited' = 0

Expired == clock = Timeout

(* A call goes through if neither the connection nor the deadline fails it.   *)
Writable == ~reset /\ ~Expired
Readable(n) == ~reset /\ ~Expired /\ HasBytes(down, n)

(* DialTimeout, then the two deadlines and the ChunkReader.                   *)
Dials ==
  /\ cpc = "dial"
  /\ server = "running"
  /\ cpc' = "read_file"
  /\ spc' = "backlog"
  /\ UNCHANGED <<fileVars, cbody, received, verified, result, timeVars, sbody,
                 server, netVars>>

(* No connection: log.Fatalf.                                                 *)
DialFails ==
  /\ cpc = "dial"
  /\ Exit("fatal")
  /\ UNCHANGED <<fileVars, cbody, received, verified, timeVars, serverVars, up,
                 down, reset>>

(* A connection, but no file to open: log.Fatalf leaves it to the server.     *)
OpenFails ==
  /\ cpc = "dial"
  /\ server = "running"
  /\ Exit("fatal")
  /\ spc' = "backlog"
  /\ UNCHANGED <<fileVars, cbody, received, verified, timeVars, sbody, server, up,
                 down, reset>>

(* ReadNextChunk notices the end with the last chunk, by the bytes read.      *)
ReadsChunk ==
  /\ cpc = "read_file"
  /\ ~eof /\ nread < NumChunks
  /\ nread' = nread + 1
  /\ chunk' = Payload(nread + 1)
  /\ eof' = (nread + 1 = NumChunks)
  /\ sent' = sent + 1
  /\ Calls("write_header")
  /\ UNCHANGED <<cbody, received, verified, result, clock, serverVars, netVars>>

(* The file has become shorter than it was: Read returns io.EOF, which the    *)
(* loop takes for its normal end.                                             *)
ReadsTruncated ==
  /\ cpc = "read_file"
  /\ eof' = TRUE
  /\ chunk' = << >>
  /\ Exit("success")
  /\ UNCHANGED <<nread, sent, cbody, received, verified, timeVars, serverVars, up,
                 down, reset>>

(* Any other error of Read ends the client.                                   *)
ReadFails ==
  /\ cpc = "read_file"
  /\ Exit("file_error")
  /\ UNCHANGED <<fileVars, cbody, received, verified, timeVars, serverVars, up,
                 down, reset>>

WritesHeader ==
  /\ cpc = "write_header"
  /\ Writable
  /\ up' = up \o Header(Len(chunk))
  /\ Calls("write_body")
  /\ UNCHANGED <<fileVars, cbody, received, verified, result, clock, serverVars,
                 down, fin, reset>>

(* Mutant: one write that is not completed.                                   *)
WritesBody_Short ==
  /\ cpc = "write_body"
  /\ Writable
  /\ up' = up \o SubSeq(chunk, 1, 1)
  /\ Calls("read_header")
  /\ UNCHANGED <<fileVars, cbody, received, verified, result, clock, serverVars,
                 down, fin, reset>>

WritesBody ==
  /\ cpc = "write_body"
  /\ Writable
  /\ up' = up \o chunk
  /\ Calls("read_header")
  /\ UNCHANGED <<fileVars, cbody, received, verified, result, clock, serverVars,
                 down, fin, reset>>

ReadsHeader ==
  /\ cpc = "read_header"
  /\ Readable(HeaderSize)
  /\ cbody' = ParseHeader(FirstBytes(down, HeaderSize))
  /\ down' = WithoutFirst(down, HeaderSize)
  /\ Calls("read_body")
  /\ UNCHANGED <<fileVars, received, verified, result, clock, serverVars, up, fin,
                 reset>>

ReadsBody ==
  /\ cpc = "read_body"
  /\ Readable(cbody)
  /\ received' = FirstBytes(down, cbody)
  /\ down' = WithoutFirst(down, cbody)
  /\ cpc' = "verify"
  /\ UNCHANGED <<fileVars, cbody, verified, result, timeVars, serverVars, up, fin,
                 reset>>

(* Mutant: the chunk is counted under the next one's number.                  *)
Verifies_NumbersNext ==
  /\ cpc = "verify"
  /\ IF received = Reversed(chunk)
     THEN /\ verified' = Append(verified, nread + 1)
          /\ IF eof
             THEN Exit("success")
             ELSE cpc' = "read_file" /\ UNCHANGED <<result, fin>>
     ELSE Exit("mismatch") /\ UNCHANGED verified
  /\ UNCHANGED <<fileVars, cbody, received, timeVars, serverVars, up, down, reset>>

(* Mutant: the loop ends after the last chunk but one.                        *)
Verifies_StopsEarly ==
  /\ cpc = "verify"
  /\ IF received = Reversed(chunk)
     THEN /\ verified' = Append(verified, nread)
          /\ IF nread + 1 >= NumChunks
             THEN Exit("success")
             ELSE cpc' = "read_file" /\ UNCHANGED <<result, fin>>
     ELSE Exit("mismatch") /\ UNCHANGED verified
  /\ UNCHANGED <<fileVars, cbody, received, timeVars, serverVars, up, down, reset>>

(* bytes.Equal; the loop ends after the last chunk or the first mismatch.     *)
Verifies ==
  /\ cpc = "verify"
  /\ IF received = Reversed(chunk)
     THEN /\ verified' = Append(verified, nread)
          /\ IF eof
             THEN Exit("success")
             ELSE cpc' = "read_file" /\ UNCHANGED <<result, fin>>
     ELSE Exit("mismatch") /\ UNCHANGED verified
  /\ UNCHANGED <<fileVars, cbody, received, timeVars, serverVars, up, down, reset>>

(* Mutant: a call that times out is made again.                               *)
TimesOut_Retries ==
  /\ cpc \in {"write_header", "write_body", "read_header", "read_body"}
  /\ ~reset /\ Expired
  /\ UNCHANGED vars

(* The deadline has passed: every call on the connection fails from now on.   *)
TimesOut ==
  /\ cpc \in {"write_header", "write_body", "read_header", "read_body"}
  /\ ~reset /\ Expired
  /\ Exit("timeout")
  /\ UNCHANGED <<fileVars, cbody, received, verified, timeVars, serverVars, up,
                 down, reset>>

(* A reset, or io.EOF and io.ErrUnexpectedEOF from ReadFull.                  *)
CallFails ==
  /\ \/ cpc \in {"write_header", "write_body", "read_header", "read_body"} /\ reset
     \/ cpc = "read_header" /\ "server" \in fin /\ ~HasBytes(down, HeaderSize)
     \/ cpc = "read_body" /\ "server" \in fin /\ ~HasBytes(down, cbody)
  /\ Exit("error")
  /\ UNCHANGED <<fileVars, cbody, received, verified, timeVars, serverVars, up,
                 down, reset>>

ClientKilled ==
  /\ cpc # "exited"
  /\ Exit("killed")
  /\ UNCHANGED <<fileVars, cbody, received, verified, timeVars, serverVars, up,
                 down, reset>>

Tick ==
  /\ cpc \notin {"dial", "exited"}
  /\ clock < Timeout
  /\ clock' = clock + 1
  /\ waited' = waited + 1
  /\ UNCHANGED <<clientVars, serverVars, netVars>>

-----------------------------------------------------------------------------
(* handleConnection.                                                          *)

Accepts ==
  /\ spc = "backlog"
  /\ spc' = "read_header"
  /\ UNCHANGED <<clientVars, timeVars, sbody, server, netVars>>

ServesHeader ==
  /\ spc = "read_header"
  /\ ~reset /\ HasBytes(up, HeaderSize)
  /\ sbody' = [i \in 1..ParseHeader(FirstBytes(up, HeaderSize)) |-> 0]
  /\ up' = WithoutFirst(up, HeaderSize)
  /\ spc' = "read_body"
  /\ UNCHANGED <<clientVars, timeVars, server, down, fin, reset>>

(* Mutant: the payload goes back as it came.                                  *)
ServesBody_Unreversed ==
  /\ spc = "read_body"
  /\ ~reset /\ HasBytes(up, Len(sbody))
  /\ sbody' = FirstBytes(up, Len(sbody))
  /\ up' = WithoutFirst(up, Len(sbody))
  /\ spc' = "write_header"
  /\ UNCHANGED <<clientVars, timeVars, server, down, fin, reset>>

(* ... and ReverseBytesInPlace.                                               *)
ServesBody ==
  /\ spc = "read_body"
  /\ ~reset /\ HasBytes(up, Len(sbody))
  /\ sbody' = Reversed(FirstBytes(up, Len(sbody)))
  /\ up' = WithoutFirst(up, Len(sbody))
  /\ spc' = "write_header"
  /\ UNCHANGED <<clientVars, timeVars, server, down, fin, reset>>

AnswersHeader ==
  /\ spc = "write_header"
  /\ ~reset
  /\ down' = down \o Header(Len(sbody))
  /\ spc' = "write_body"
  /\ UNCHANGED <<clientVars, timeVars, sbody, server, up, fin, reset>>

AnswersBody ==
  /\ spc = "write_body"
  /\ ~reset
  /\ down' = down \o sbody
  /\ spc' = "read_header"
  /\ UNCHANGED <<clientVars, timeVars, sbody, server, up, fin, reset>>

(* Mutant: an end of file is no reason to give up.                            *)
ServerCallFails_ResetOnly ==
  /\ spc \in {"read_header", "read_body", "write_header", "write_body"} /\ reset
  /\ spc' = "returned"
  /\ fin' = fin \cup {"server"}
  /\ UNCHANGED <<clientVars, timeVars, sbody, server, up, down, reset>>

(* Any error of a call: the goroutine returns and closes its connection.      *)
ServerCallFails ==
  /\ \/ spc \in {"read_header", "read_body", "write_header", "write_body"} /\ reset
     \/ spc = "read_header" /\ "client" \in fin /\ ~HasBytes(up, HeaderSize)
     \/ spc = "read_body" /\ "client" \in fin /\ ~HasBytes(up, Len(sbody))
  /\ spc' = "returned"
  /\ fin' = fin \cup {"server"}
  /\ UNCHANGED <<clientVars, timeVars, sbody, server, up, down, reset>>

ServerKilled ==
  /\ server = "running"
  /\ server' = "gone"
  /\ IF spc = "none"
     THEN UNCHANGED <<spc, fin>>
     ELSE spc' = "returned" /\ fin' = fin \cup {"server"}
  /\ UNCHANGED <<clientVars, timeVars, sbody, up, down, reset>>

(* A connection one end of which is still open is reset, by the network or by *)
(* bytes that arrive at the end that is closed. What it carried is lost.      *)
ConnectionReset ==
  /\ spc # "none"
  /\ ~reset /\ fin # {"client", "server"}
  /\ reset' = TRUE
  /\ up' = << >> /\ down' = << >>
  /\ UNCHANGED <<clientVars, timeVars, serverVars, fin>>

-----------------------------------------------------------------------------
ClientStep ==
  \/ Dials \/ ReadsChunk \/ WritesHeader \/ WritesBody \/ ReadsHeader
  \/ ReadsBody \/ Verifies \/ TimesOut \/ CallFails

ServerStep ==
  \/ Accepts \/ ServesHeader \/ ServesBody \/ AnswersHeader \/ AnswersBody
  \/ ServerCallFails

Fault ==
  \/ DialFails \/ OpenFails \/ ReadsTruncated \/ ReadFails \/ ClientKilled
  \/ ServerKilled \/ ConnectionReset

Ended == cpc = "exited" /\ UNCHANGED vars

Next == ClientStep \/ ServerStep \/ Fault \/ Tick \/ Ended

Spec == Init /\ [][Next]_vars

(* The client runs and time passes. Nothing is assumed of the server.         *)
LiveSpec == Spec /\ WF_vars(ClientStep \/ DialFails) /\ WF_vars(Tick)

-----------------------------------------------------------------------------
(* Properties.                                                                *)

(* Every variable stays in its type.                                          *)
TypeOK ==
  /\ cpc \in {"dial", "read_file", "write_header", "write_body", "read_header",
              "read_body", "verify", "exited"}
  /\ chunk \in Seq(Nat) /\ eof \in BOOLEAN
  /\ nread \in 0..NumChunks /\ sent \in 0..NumChunks
  /\ cbody \in Nat /\ received \in Seq(Nat)
  /\ verified \in Seq(1..NumChunks)
  /\ result \in {"running", "success", "fatal", "file_error", "mismatch",
                 "timeout", "error", "killed"}
  /\ clock \in 0..Timeout /\ waited \in 0..Timeout
  /\ spc \in {"none", "backlog", "read_header", "read_body", "write_header",
              "write_body", "returned"}
  /\ sbody \in Seq(Nat)
  /\ server \in {"running", "gone"}
  /\ up \in Seq(Nat) /\ down \in Seq(Nat)
  /\ fin \subseteq {"client", "server"} /\ reset \in BOOLEAN

(* Neither end ever takes a byte of a payload for a byte of a header, though  *)
(* both are written and read in two calls: a reader that awaits a header has  *)
(* before it nothing, a header or a whole frame, one that awaits a body       *)
(* exactly the body the header announced.                                     *)
StreamInStep ==
  LET BeforeHeader(p) == {<< >>, Header(Len(p)), Frame(p)}
      InBody(p) == {<< >>, p}
  IN  ~reset =>
        /\ spc = "read_header" => up \in BeforeHeader(chunk)
        /\ spc = "read_body" => up \in InBody(chunk) /\ Len(sbody) = Len(chunk)
        /\ cpc = "read_header" => down \in BeforeHeader(Reversed(chunk))
        /\ cpc = "read_body" => down \in InBody(Reversed(chunk)) /\ cbody = Len(chunk)

(* The client ends without success only for a reason outside of it: the       *)
(* protocol itself produces neither a failed verification nor an error.       *)
FailureHasCause ==
  /\ result # "mismatch"
  /\ result = "error" => reset \/ server = "gone"

(* The client implements the contract that all the benchmarks share, if what  *)
(* it says of a file that was cut short is not taken for a claim of           *)
(* completeness.                                                              *)
CutShort == eof /\ nread < NumChunks
Outcome == CASE result = "success" /\ ~CutShort -> "complete"
             [] result = "running" -> "running"
             [] OTHER -> "incomplete"

Echo == INSTANCE EchoBenchmark WITH outcome <- Outcome
EchoSpec == Echo!Spec

(* "60 s for a read", "60 s for a write" (client/main.go:50-51): a call that  *)
(* times out has waited that long.                                            *)
TimeoutMeansSlowCall == result = "timeout" => waited >= Timeout

(* The deadline ends the client even if the server never answers.             *)
ClientEnds == <>(cpc = "exited")

(* The goroutine of a connection returns once its client is gone, if the      *)
(* server runs.                                                               *)
GoroutineReturns ==
  WF_vars(ServerStep) => ((cpc = "exited" /\ spc # "none") ~> spc = "returned")
=============================================================================
