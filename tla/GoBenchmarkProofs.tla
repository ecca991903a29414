--------------------------- MODULE GoBenchmarkProofs ---------------------------
(* Proofs about GoBenchmark, for every number of chunks and every deadline.   *)
EXTENDS GoBenchmark, FramingProofs

-----------------------------------------------------------------------------
(* The inductive invariant.                                                   *)

Alive == cpc # "exited"
Serving == spc \notin {"none", "returned"}
Answer == Reversed(chunk)

(* Between two chunks, and while a chunk is under way.                        *)
Between == cpc \in {"dial", "read_file"}
UnderWay == cpc \in {"write_header", "write_body", "read_header", "read_body", "verify"}

(* The bookkeeping of the loop over the chunks: a chunk is counted when its   *)
(* answer was verified, and the loop ends with the last one.                  *)
Counting ==
  /\ sent = nread
  /\ \A i \in 1..Len(verified) : verified[i] = i
  /\ Between => Len(verified) = nread /\ ~eof
  /\ cpc = "dial" => nread = 0
  /\ UnderWay => nread = Len(verified) + 1 /\ chunk = Payload(nread)
  /\ Alive => (eof <=> nread = NumChunks)
  /\ result = "success" => CutShort \/ Len(verified) = NumChunks
  /\ Alive <=> result = "running"

(* The connection is what its two ends have made of it.                       *)
Ends ==
  /\ "client" \in fin <=> ~Alive
  /\ "server" \in fin => spc = "returned"
  /\ spc = "returned" => reset \/ server = "gone" \/ ~Alive
  /\ cpc = "dial" => spc = "none"
  /\ spc = "none" => cpc \in {"dial", "exited"} /\ up = << >>

(* While both ends are there and the connection is whole, the client waits    *)
(* and the goroutine writes, or the other way round.                          *)
RequestUnderWay ==
  \/ cpc \in {"read_file", "write_header", "verify"} /\ up = << >>
  \/ cpc = "write_body" /\ up = Header(Len(chunk))
  \/ cpc = "read_header" /\ up = Frame(chunk)
AnswerUnderWay ==
  \/ cpc = "read_header" /\ down = Frame(Answer)
  \/ cpc = "read_body" /\ down = Answer
Conversation ==
  /\ spc = "backlog" => RequestUnderWay /\ down = << >>
  /\ spc = "read_header" =>
       \/ RequestUnderWay /\ down = << >>
       \/ AnswerUnderWay /\ up = << >>
  /\ spc = "read_body" =>
       /\ Len(sbody) = Len(chunk) /\ down = << >>
       /\ \/ cpc = "write_body" /\ up = << >>
          \/ cpc = "read_header" /\ up = chunk
  /\ spc = "write_header" =>
       cpc = "read_header" /\ sbody = Answer /\ up = << >> /\ down = << >>
  /\ spc = "write_body" =>
       /\ sbody = Answer /\ up = << >>
       /\ \/ cpc = "read_header" /\ down = Header(Len(Answer))
          \/ cpc = "read_body" /\ down = << >>

(* What is left of it when one end is gone; only what has been read survives  *)
(* a reset.                                                                   *)
Remains ==
  /\ cpc = "verify" => received = Answer
  /\ ~reset =>
       /\ Alive /\ cpc \notin {"read_header", "read_body"} => down = << >>
       /\ spc \in {"write_header", "write_body"} => up = << >>
       /\ spc = "read_body" \/ (spc # "returned" /\ up # << >>) => Len(chunk) = 2
       /\ spc = "backlog" =>
            up \in {<< >>, Header(Len(chunk)), Frame(chunk)}

Talk ==
  /\ Remains /\ StreamInStep
  /\ Alive /\ Serving /\ ~reset => Conversation

IInv ==
  /\ TypeOK /\ waited <= clock
  /\ Counting /\ Ends /\ Talk /\ FailureHasCause

-----------------------------------------------------------------------------
LEMMA Start == Init => IInv
<1> SUFFICES ASSUME Init PROVE IInv
  OBVIOUS
<1>1. TypeOK /\ waited <= clock
  <2>1. << >> \in Seq(Nat) /\ << >> \in Seq(1..NumChunks)
    OBVIOUS
  <2>2. 0 \in 0..NumChunks /\ 0 \in 0..Timeout
    BY NumChunksAssumption, TimeoutAssumption
  <2>3. verified \in Seq(1..NumChunks) /\ clock \in 0..Timeout /\ waited \in 0..Timeout
    BY <2>1, <2>2 DEF Init
  <2>4. nread \in 0..NumChunks /\ sent \in 0..NumChunks /\ waited <= clock
    BY <2>2 DEF Init
  <2>5. QED
    BY <2>1, <2>3, <2>4 DEF Init, TypeOK
<1>2. Counting
  BY NumChunksAssumption DEF Init, Counting, Between, UnderWay, Alive
<1>3. Ends /\ FailureHasCause
  BY DEF Init, Ends, Alive, FailureHasCause
<1>4. Talk
  BY DEF Init, Talk, Remains, StreamInStep, Alive, Serving
<1>5. QED
  BY <1>1, <1>2, <1>3, <1>4 DEF IInv

(* Types. A chunk is sent only after it was read, so that the end of the file *)
(* bounds both counts; a call has waited at most since the connection was     *)
(* made.                                                                      *)
LEMMA ClientTypes ==
  ASSUME TypeOK, waited <= clock, Counting, ClientStep
  PROVE  TypeOK' /\ waited' <= clock'
<1> USE TimeoutAssumption DEF TypeOK, fileVars, timeVars, serverVars, netVars, Calls, Exit
<1>1. CASE Dials
  BY <1>1 DEF Dials
<1>2. CASE ReadsChunk
  <2>1. nread + 1 \in 0..NumChunks /\ sent + 1 \in 0..NumChunks
    BY <1>2, NumChunksAssumption DEF ReadsChunk, Counting
  <2>2. Payload(nread + 1) \in Seq(Nat)
    BY <2>1, ChunkData
  <2>3. QED
    BY <1>2, <2>1, <2>2 DEF ReadsChunk
<1>3. CASE WritesHeader
  <2>1. up \o Header(Len(chunk)) \in Seq(Nat)
    BY HeaderType, LenProperties, ConcatProperties
  <2>2. QED
    BY <1>3, <2>1 DEF WritesHeader
<1>4. CASE WritesBody
  <2>1. up \o chunk \in Seq(Nat)
    BY ConcatProperties
  <2>2. QED
    BY <1>4, <2>1 DEF WritesBody
<1>5. CASE ReadsHeader
  <2>1. HeaderSize \in Nat /\ HasBytes(down, HeaderSize)
    BY <1>5 DEF ReadsHeader, Readable, HeaderSize
  <2>2. /\ ParseHeader(FirstBytes(down, HeaderSize)) \in Nat
        /\ WithoutFirst(down, HeaderSize) \in Seq(Nat)
    BY <2>1, ReadsBytes, ParsedLength
  <2>3. QED
    BY <1>5, <2>2 DEF ReadsHeader
<1>6. CASE ReadsBody
  <2>1. FirstBytes(down, cbody) \in Seq(Nat) /\ WithoutFirst(down, cbody) \in Seq(Nat)
    BY <1>6, ReadsBytes DEF ReadsBody, Readable
  <2>2. QED
    BY <1>6, <2>1 DEF ReadsBody
<1>7. CASE Verifies
  <2>1. nread \in 1..NumChunks
    BY <1>7, LenProperties DEF Verifies, Counting, UnderWay
  <2>2. Append(verified, nread) \in Seq(1..NumChunks)
    BY <2>1, AppendProperties
  <2>3. QED
    BY <1>7, <2>2 DEF Verifies
<1>8. CASE TimesOut \/ CallFails
  BY <1>8 DEF TimesOut, CallFails
<1>9. QED
  BY <1>1, <1>2, <1>3, <1>4, <1>5, <1>6, <1>7, <1>8 DEF ClientStep

LEMMA ServerTypes ==
  ASSUME TypeOK, waited <= clock, ServerStep
  PROVE  TypeOK' /\ waited' <= clock'
<1> USE DEF TypeOK, clientVars, fileVars, timeVars, netVars
<1>1. CASE Accepts
  BY <1>1 DEF Accepts
<1>0. CASE ServerCallFails
  BY <1>0 DEF ServerCallFails
<1>2. CASE ServesHeader
  <2>1. HeaderSize \in Nat /\ HasBytes(up, HeaderSize)
    BY <1>2 DEF ServesHeader, HeaderSize
  <2>2. /\ ParseHeader(FirstBytes(up, HeaderSize)) \in Nat
        /\ WithoutFirst(up, HeaderSize) \in Seq(Nat)
    BY <2>1, ReadsBytes, ParsedLength
  <2>3. QED
    BY <1>2, <2>2 DEF ServesHeader
<1>3. CASE ServesBody
  <2>1. Len(sbody) \in Nat
    BY LenProperties
  <2>2. /\ Reversed(FirstBytes(up, Len(sbody))) \in Seq(Nat)
        /\ WithoutFirst(up, Len(sbody)) \in Seq(Nat)
    BY <1>3, <2>1, ReadsBytes, ReversedType DEF ServesBody
  <2>3. QED
    BY <1>3, <2>2 DEF ServesBody
<1>4. CASE AnswersHeader
  <2>1. down \o Header(Len(sbody)) \in Seq(Nat)
    BY HeaderType, LenProperties, ConcatProperties
  <2>2. QED
    BY <1>4, <2>1 DEF AnswersHeader
<1>5. CASE AnswersBody
  <2>1. down \o sbody \in Seq(Nat)
    BY ConcatProperties
  <2>2. QED
    BY <1>5, <2>1 DEF AnswersBody
<1>6. QED
  BY <1>0, <1>1, <1>2, <1>3, <1>4, <1>5 DEF ServerStep

LEMMA OtherTypes ==
  ASSUME TypeOK, waited <= clock, Fault \/ Tick \/ UNCHANGED vars
  PROVE  TypeOK' /\ waited' <= clock'
<1> USE DEF TypeOK, clientVars, fileVars, timeVars, serverVars, netVars, Exit
<1>1. CASE DialFails \/ OpenFails \/ ReadFails \/ ClientKilled
  BY <1>1 DEF DialFails, OpenFails, ReadFails, ClientKilled
<1>6. CASE ReadsTruncated
  <2>1. << >> \in Seq(Nat)
    OBVIOUS
  <2>2. QED
    BY <1>6, <2>1 DEF ReadsTruncated
<1>2. CASE ServerKilled
  BY <1>2 DEF ServerKilled
<1>3. CASE ConnectionReset
  BY <1>3 DEF ConnectionReset
<1>4. CASE Tick
  BY <1>4, TimeoutAssumption DEF Tick
<1>5. CASE UNCHANGED vars
  BY <1>5 DEF vars
<1>7. QED
  BY <1>1, <1>2, <1>3, <1>4, <1>5, <1>6 DEF Fault

LEMMA TypeStep ==
  ASSUME TypeOK, waited <= clock, Counting, [Next]_vars
  PROVE  TypeOK' /\ waited' <= clock'
BY ClientTypes, ServerTypes, OtherTypes DEF Next, Ended

-----------------------------------------------------------------------------
(* The count of the chunks.                                                   *)
LEMMA CountingUnderWay ==
  ASSUME Counting, WritesHeader \/ WritesBody \/ ReadsHeader \/ ReadsBody
  PROVE  Counting'
<1>1. /\ UNCHANGED <<chunk, nread, eof, sent, verified, result>>
      /\ cpc \in {"write_header", "write_body", "read_header", "read_body"}
      /\ cpc' \in {"write_body", "read_header", "read_body", "verify"}
  BY DEF WritesHeader, WritesBody, ReadsHeader, ReadsBody, Calls, fileVars
<1>2. UnderWay /\ UnderWay' /\ ~Between' /\ Alive /\ Alive' /\ cpc' # "dial"
  BY <1>1 DEF UnderWay, Between, Alive
<1>3. QED
  BY <1>1, <1>2 DEF Counting, CutShort

LEMMA CountingStep ==
  ASSUME TypeOK, Counting, [Next]_vars
  PROVE  Counting'
<1> USE DEF Counting, Between, UnderWay, Alive, CutShort, Exit, Calls, fileVars, TypeOK
<1>0. Len(verified) \in Nat
  BY LenProperties
<1>1. CASE Dials
  BY <1>1, NumChunksAssumption DEF Dials
<1>2. CASE ReadsChunk
  BY <1>0, <1>2, NumChunksAssumption DEF ReadsChunk
<1>3. CASE WritesHeader \/ WritesBody \/ ReadsHeader \/ ReadsBody
  BY <1>3, CountingUnderWay
<1>4. CASE Verifies
  <2>1. CASE received = Reversed(chunk)
    <3>1. verified' = Append(verified, nread) /\ nread \in 1..NumChunks
      BY <1>0, <1>4, <2>1 DEF Verifies
    <3>2. /\ Len(verified') = nread
          /\ \A i \in 1..Len(verified') : verified'[i] = i
      BY <1>0, <1>4, <3>1, AppendProperties DEF Verifies
    <3>3. CASE eof
      BY <1>4, <2>1, <3>2, <3>3 DEF Verifies
    <3>4. CASE ~eof
      BY <1>4, <2>1, <3>2, <3>4 DEF Verifies
    <3>5. QED
      BY <3>3, <3>4
  <2>2. CASE received # Reversed(chunk)
    BY <1>4, <2>2 DEF Verifies
  <2>3. QED
    BY <2>1, <2>2
<1>5. CASE TimesOut \/ CallFails \/ DialFails \/ OpenFails \/ ReadFails \/ ClientKilled
  BY <1>5 DEF TimesOut, CallFails, DialFails, OpenFails, ReadFails, ClientKilled
<1>6. CASE ReadsTruncated
  BY <1>6, NumChunksAssumption DEF ReadsTruncated
<1>7. CASE ServerStep \/ ServerKilled \/ ConnectionReset \/ Tick \/ UNCHANGED vars
  <2>1. UNCHANGED clientVars
    BY <1>7 DEF ServerStep, Accepts, ServesHeader, ServesBody, AnswersHeader, AnswersBody,
       ServerCallFails, ServerKilled, ConnectionReset, Tick, vars
  <2>2. QED
    BY <2>1 DEF clientVars
<1>8. QED
  BY <1>1, <1>2, <1>3, <1>4, <1>5, <1>6, <1>7 DEF Next, ClientStep, Fault, Ended

-----------------------------------------------------------------------------
(* The two ends, and the reasons of their ends.                               *)
LEMMA EndsStep ==
  ASSUME TypeOK, Ends, [Next]_vars
  PROVE  Ends'
<1> USE DEF Ends, Alive, Exit, Calls, fileVars, clientVars, timeVars, serverVars, netVars
<1>1. CASE \/ Dials \/ OpenFails \/ ReadsChunk \/ WritesHeader \/ WritesBody
           \/ ReadsHeader \/ ReadsBody
  BY <1>1 DEF Dials, OpenFails, ReadsChunk, WritesHeader, WritesBody, ReadsHeader, ReadsBody
<1>2. CASE Verifies
  BY <1>2 DEF Verifies
<1>3. CASE TimesOut \/ CallFails \/ DialFails \/ ReadFails \/ ReadsTruncated \/ ClientKilled
  BY <1>3 DEF TimesOut, CallFails, DialFails, ReadFails, ReadsTruncated, ClientKilled
<1>4. CASE Accepts \/ ServesHeader \/ ServesBody \/ AnswersHeader \/ AnswersBody
  BY <1>4 DEF Accepts, ServesHeader, ServesBody, AnswersHeader, AnswersBody
<1>5. CASE ServerCallFails
  BY <1>5 DEF ServerCallFails
<1>6. CASE ServerKilled
  BY <1>6 DEF ServerKilled
<1>7. CASE ConnectionReset \/ Tick \/ UNCHANGED vars
  BY <1>7 DEF ConnectionReset, Tick, vars
<1>8. QED
  BY <1>1, <1>2, <1>3, <1>4, <1>5, <1>6, <1>7 DEF Next, ClientStep, ServerStep, Fault, Ended

LEMMA CauseStep ==
  ASSUME IInv, [Next]_vars
  PROVE  FailureHasCause'
<1> USE DEF FailureHasCause, Exit
<1>1. CASE Verifies
  BY <1>1 DEF IInv, Talk, Remains, Answer, Verifies, fileVars, serverVars
<1>2. CASE CallFails
  BY <1>2 DEF IInv, Ends, Alive, CallFails, serverVars
<1>3. CASE \/ TimesOut \/ DialFails \/ OpenFails \/ ReadFails \/ ReadsTruncated
           \/ ClientKilled
           \/ Dials \/ ReadsChunk \/ WritesHeader \/ WritesBody \/ ReadsHeader \/ ReadsBody
  BY <1>3 DEF IInv, TimesOut, DialFails, OpenFails, ReadFails, ReadsTruncated, ClientKilled,
     Dials, ReadsChunk, WritesHeader, WritesBody, ReadsHeader, ReadsBody, serverVars, netVars
<1>4. CASE \/ ServerStep \/ ServerKilled \/ ConnectionReset \/ Tick \/ UNCHANGED vars
  BY <1>4 DEF IInv, ServerStep, Accepts, ServesHeader, ServesBody, AnswersHeader,
     AnswersBody, ServerCallFails, ServerKilled, ConnectionReset, Tick, vars, clientVars,
     serverVars, netVars
<1>5. QED
  BY <1>1, <1>2, <1>3, <1>4 DEF Next, ClientStep, Fault, Ended

-----------------------------------------------------------------------------
(* The bytes on their way.                                                    *)

LEMMA UnderWayChunk ==
  ASSUME TypeOK, Counting, UnderWay
  PROVE  ChunkBytes(chunk) /\ ChunkBytes(Answer) /\ HeaderBytes
<1>1. nread \in Nat /\ chunk = Payload(nread)
  BY DEF TypeOK, Counting
<1>2. QED
  BY <1>1, UnderWayBytes DEF Answer

LEMMA ClientWritesTalk ==
  ASSUME IInv, Dials \/ ReadsChunk \/ WritesHeader \/ WritesBody
  PROVE  Talk'
<1> USE DEF Talk, Remains, StreamInStep, Conversation, RequestUnderWay, AnswerUnderWay,
     Alive, Serving, Answer
<1>1. CASE Dials
  BY <1>1 DEF Dials, IInv, Ends, netVars, fileVars
<1>2. CASE ReadsChunk
  <2>1. Len(chunk') = 2
    BY <1>2, ChunkData DEF ReadsChunk, IInv, TypeOK
  <2>2. QED
    BY <1>2, <2>1 DEF ReadsChunk, IInv, Ends, Calls, serverVars, netVars
<1>3. CASE WritesHeader
  <2>1. HeaderBytes /\ Len(chunk) = 2
    BY <1>3, UnderWayChunk DEF WritesHeader, UnderWay, IInv, ChunkBytes
  <2>2. << >> \o Header(2) = Header(2)
    BY <2>1 DEF HeaderBytes
  <2>3. QED
    BY <1>3, <2>1, <2>2 DEF WritesHeader, Writable, IInv, Ends, Calls, serverVars, fileVars
<1>4. CASE WritesBody
  <2>1. HeaderBytes /\ ChunkBytes(chunk)
    BY <1>4, UnderWayChunk DEF WritesBody, UnderWay, IInv
  <2>2. << >> \o chunk = chunk
    BY <2>1 DEF ChunkBytes
  <2>3. QED
    BY <1>4, <2>1, <2>2 DEF ChunkBytes, WritesBody, Writable, IInv, Ends, Calls, serverVars, fileVars
<1>5. QED
  BY <1>1, <1>2, <1>3, <1>4

LEMMA ClientReadsTalk ==
  ASSUME IInv, ReadsHeader \/ ReadsBody \/ Verifies
  PROVE  Talk'
<1> USE DEF Talk, Remains, StreamInStep, Conversation, RequestUnderWay, AnswerUnderWay,
     Alive, Serving
<1>1. CASE ReadsHeader
  <2>1. HeaderBytes /\ ChunkBytes(chunk) /\ ChunkBytes(Answer)
    BY <1>1, UnderWayChunk DEF ReadsHeader, UnderWay, IInv
  <2>2. down \in {Header(2), Frame(Answer)}
    BY <1>1, <2>1 DEF ReadsHeader, Readable, HasBytes, HeaderSize, IInv, Answer, ChunkBytes,
       HeaderBytes
  <2>3. /\ cbody' = 2
        /\ down = Header(2) => down' = << >>
        /\ down = Frame(Answer) => down' = Answer
    BY <1>1, <2>1, <2>2 DEF ReadsHeader, HeaderSize, ChunkBytes, HeaderBytes
  <2>4. QED
    BY <1>1, <2>1, <2>2, <2>3 DEF ReadsHeader, Readable, IInv, Ends, Calls, ChunkBytes,
       HeaderBytes, Answer, fileVars, serverVars
<1>2. CASE ReadsBody
  <2>1. HeaderBytes /\ ChunkBytes(chunk) /\ ChunkBytes(Answer)
    BY <1>2, UnderWayChunk DEF ReadsBody, UnderWay, IInv
  <2>2. cbody = 2 /\ down = Answer
    BY <1>2, <2>1 DEF ReadsBody, Readable, HasBytes, IInv, Answer, ChunkBytes, HeaderBytes
  <2>3. received' = Answer /\ down' = << >>
    BY <1>2, <2>1, <2>2 DEF ReadsBody, ChunkBytes
  <2>4. /\ UNCHANGED <<chunk, spc, sbody, up, reset>> /\ cpc' = "verify"
        /\ Alive /\ ~reset /\ cpc = "read_body"
    BY <1>2 DEF ReadsBody, Readable, fileVars, serverVars
  <2>8. down # << >>
    BY <2>1, <2>2 DEF ChunkBytes
  <2>5. Answer' = Answer
    BY <2>4 DEF Answer
  <2>6. Serving => spc = "read_header" /\ up = << >>
    BY <2>4, <2>8 DEF IInv, TypeOK
  <2>7. QED
    BY <2>3, <2>4, <2>5, <2>6 DEF IInv
<1>3. CASE Verifies
  BY <1>3 DEF Verifies, IInv, Ends, Exit, Answer, fileVars, serverVars
<1>4. QED
  BY <1>1, <1>2, <1>3

(* The client ends, with a chunk that it could not read at most.              *)
LEMMA ClientEndsTalk ==
  ASSUME IInv,
         \/ TimesOut \/ CallFails \/ DialFails \/ OpenFails \/ ReadFails
         \/ ReadsTruncated \/ ClientKilled
  PROVE  Talk'
<1> USE DEF Talk, Remains, StreamInStep, Conversation, RequestUnderWay, AnswerUnderWay,
     Alive, Serving, Exit
<1>1. CASE TimesOut \/ CallFails \/ DialFails \/ ReadFails \/ ClientKilled
  <2>1. ~reset /\ cpc = "dial" => spc \notin {"read_body", "backlog"}
    BY DEF IInv, Ends
  <2>2. Alive
    BY <1>1 DEF TimesOut, CallFails, DialFails, ReadFails, ClientKilled
  <2>3. UNCHANGED <<spc, sbody, chunk, up, down, reset>> /\ cpc' = "exited"
    BY <1>1 DEF TimesOut, CallFails, DialFails, ReadFails, ClientKilled, fileVars, serverVars
  <2>4. QED
    BY <2>1, <2>2, <2>3 DEF IInv
<1>2. CASE ReadsTruncated
  <2>1. /\ UNCHANGED <<spc, sbody, up, down, reset>> /\ cpc' = "exited"
        /\ cpc = "read_file"
    BY <1>2 DEF ReadsTruncated, serverVars
  <2>2. \/ reset \/ spc = "returned"
        \/ spc \in {"backlog", "read_header"} /\ up = << >>
    BY <2>1 DEF IInv, TypeOK, Ends
  <2>3. QED
    BY <2>1, <2>2
<1>3. CASE OpenFails
  <2>1. /\ UNCHANGED <<up, down, reset>> /\ cpc' = "exited" /\ spc' = "backlog"
        /\ cpc = "dial" /\ spc = "none" /\ up = << >>
    BY <1>3 DEF OpenFails, IInv, Ends
  <2>2. QED
    BY <2>1
<1>4. QED
  BY <1>1, <1>2, <1>3

(* The goroutine.                                                             *)
LEMMA ServerReadsTalk ==
  ASSUME IInv, Accepts \/ ServesHeader \/ ServesBody
  PROVE  Talk'
<1> USE DEF Talk, Remains, StreamInStep, Conversation, RequestUnderWay, AnswerUnderWay,
     Alive, Serving, Answer
<1>1. CASE Accepts
  BY <1>1 DEF Accepts, IInv, clientVars, fileVars, netVars
<1>2. CASE ServesHeader
  <2>1. up # << >> /\ Len(chunk) = 2
    <3>1. Len(up) >= 4 /\ Len(<< >>) = 0
      BY <1>2 DEF ServesHeader, HasBytes, HeaderSize
    <3>2. up # << >>
      BY <3>1
    <3>3. QED
      BY <1>2, <3>2 DEF ServesHeader, IInv
  <2>6. up \in {Header(2), Frame(chunk)}
    BY <1>2, <2>1 DEF ServesHeader, IInv
  <2>2. ChunkBytes(chunk) /\ HeaderBytes
    BY <2>1, AnyBytes DEF IInv, TypeOK
  <2>3. ParseHeader(FirstBytes(up, 4)) = 2
    BY <2>2, <2>6 DEF ChunkBytes, HeaderBytes
  <2>4. sbody' = [i \in 1..2 |-> 0] /\ up' = WithoutFirst(up, 4)
    BY <1>2, <2>3 DEF ServesHeader, HeaderSize
  <2>5. Len(sbody') = 2
    BY <2>4
  <2>7. /\ up = Header(2) => up' = << >>
        /\ up = Frame(chunk) => up' = chunk
    BY <2>2, <2>4 DEF ChunkBytes, HeaderBytes
  <2>8. Header(2) # Frame(chunk)
    BY <2>2 DEF ChunkBytes
  <2>9. QED
    BY <1>2, <2>1, <2>5, <2>6, <2>7, <2>8 DEF ServesHeader, IInv, clientVars, fileVars
<1>3. CASE ServesBody
  <2>1. Len(chunk) = 2 /\ Len(sbody) = 2 /\ up = chunk
    <3>1. Len(chunk) = 2 /\ Len(sbody) = 2 /\ up \in {<< >>, chunk}
      BY <1>3 DEF ServesBody, IInv
    <3>2. Len(up) >= 2 /\ Len(<< >>) = 0
      BY <1>3, <3>1 DEF ServesBody, HasBytes
    <3>3. QED
      BY <3>1, <3>2
  <2>2. ChunkBytes(chunk) /\ HeaderBytes
    BY <2>1, AnyBytes DEF IInv, TypeOK
  <2>3. sbody' = Reversed(chunk) /\ up' = << >>
    BY <1>3, <2>1, <2>2 DEF ServesBody, ChunkBytes
  <2>5. up # << >>
    <3>1. Len(up) = 2 /\ Len(<< >>) = 0
      BY <2>1
    <3>2. QED
      BY <3>1
  <2>4. QED
    BY <1>3, <2>1, <2>3, <2>5 DEF ServesBody, IInv, clientVars, fileVars
<1>4. QED
  BY <1>1, <1>2, <1>3

LEMMA ServerWritesTalk ==
  ASSUME IInv, AnswersHeader \/ AnswersBody
  PROVE  Talk'
<1> USE DEF Talk, Remains, StreamInStep, Conversation, RequestUnderWay, AnswerUnderWay,
     Alive, Serving
<1>1. CASE AnswersHeader /\ Alive
  <2>1. cpc = "read_header" /\ sbody = Answer /\ down = << >>
    BY <1>1 DEF AnswersHeader, IInv
  <2>2. HeaderBytes /\ ChunkBytes(chunk) /\ ChunkBytes(Answer)
    BY <2>1, UnderWayChunk DEF UnderWay, IInv
  <2>5. << >> \o Header(2) = Header(2)
    BY <2>2 DEF HeaderBytes
  <2>3. down' = Header(2)
    BY <1>1, <2>1, <2>2, <2>5 DEF AnswersHeader, ChunkBytes
  <2>4. QED
    BY <1>1, <2>1, <2>2, <2>3 DEF AnswersHeader, IInv, ChunkBytes, Answer, clientVars, fileVars
<1>2. CASE AnswersBody /\ Alive
  <2>1. /\ sbody = Answer
        /\ \/ cpc = "read_header" /\ down = Header(Len(Answer))
           \/ cpc = "read_body" /\ down = << >>
    BY <1>2 DEF AnswersBody, IInv
  <2>2. HeaderBytes /\ ChunkBytes(chunk) /\ ChunkBytes(Answer)
    BY <2>1, UnderWayChunk DEF UnderWay, IInv
  <2>5. << >> \o Answer = Answer /\ Frame(Answer) = Header(2) \o Answer /\ Len(Answer) = 2
    BY <2>2 DEF ChunkBytes
  <2>3. /\ cpc = "read_header" => down' = Frame(Answer)
        /\ cpc = "read_body" => down' = Answer
    BY <1>2, <2>1, <2>5 DEF AnswersBody
  <2>4. QED
    BY <1>2, <2>1, <2>2, <2>3 DEF AnswersBody, IInv, ChunkBytes, Answer, clientVars, fileVars
<1>3. CASE (AnswersHeader \/ AnswersBody) /\ ~Alive
  BY <1>3 DEF AnswersHeader, AnswersBody, IInv, clientVars, fileVars
<1>4. QED
  BY <1>1, <1>2, <1>3

(* A connection that ends; time that passes.                                  *)
LEMMA OtherTalk ==
  ASSUME IInv,
         ServerCallFails \/ ServerKilled \/ ConnectionReset \/ Tick \/ UNCHANGED vars
  PROVE  Talk'
<1> USE DEF Talk, Remains, StreamInStep, Conversation, RequestUnderWay, AnswerUnderWay,
     Alive, Serving, Answer
<1>1. CASE ServerCallFails
  BY <1>1 DEF ServerCallFails, IInv, clientVars, fileVars
<1>2. CASE ServerKilled
  BY <1>2 DEF ServerKilled, IInv, Ends, clientVars, fileVars
<1>3. CASE ConnectionReset
  BY <1>3 DEF ConnectionReset, IInv, clientVars, fileVars, serverVars
<1>4. CASE Tick \/ UNCHANGED vars
  BY <1>4 DEF Tick, IInv, vars, clientVars, fileVars, serverVars, netVars
<1>5. QED
  BY <1>1, <1>2, <1>3, <1>4

LEMMA TalkStep ==
  ASSUME IInv, [Next]_vars
  PROVE  Talk'
BY ClientWritesTalk, ClientReadsTalk, ClientEndsTalk, ServerReadsTalk, ServerWritesTalk,
   OtherTalk DEF Next, ClientStep, ServerStep, Fault, Ended

LEMMA Step == IInv /\ [Next]_vars => IInv'
BY TypeStep, CountingStep, EndsStep, TalkStep, CauseStep DEF IInv

LEMMA Invariance == Spec => []IInv
BY Start, Step, PTL DEF Spec

-----------------------------------------------------------------------------
(* What is proved of the client and the goroutine of its connection.          *)

(* Every variable of the client (main), of handleConnection and of their      *)
(* connection stays in its type: no index of ChunkReader runs past the file.  *)
THEOREM TypeCorrectness == Spec => []TypeOK
<1>1. IInv => TypeOK
  BY DEF IInv
<1>2. QED
  BY <1>1, Invariance, PTL

(* ReadMessage and WriteMessage stay in step at both ends, for any number of  *)
(* chunks and wherever one of the ends breaks off.                            *)
THEOREM InStep == Spec => []StreamInStep
<1>1. IInv => StreamInStep
  BY DEF IInv, Talk
<1>2. QED
  BY <1>1, Invariance, PTL

(* No run of the client fails its verification, and an error of the           *)
(* connection is a reset's or the server's end.                               *)
THEOREM FailuresHaveCauses == Spec => []FailureHasCause
<1>1. IInv => FailureHasCause
  BY DEF IInv
<1>2. QED
  BY <1>1, Invariance, PTL

-----------------------------------------------------------------------------
(* The refinement.                                                            *)

(* What a step changes of the three variables of the contract.                *)
LEMMA OneMove ==
  ASSUME IInv, [Next]_vars
  PROVE  \/ UNCHANGED <<sent, verified, result, eof, nread>>
         \/ Alive /\ sent' \in {sent, sent + 1} /\ verified' = verified
            /\ (result' = "success" => CutShort')
         \/ Verifies
<1> USE DEF Exit, fileVars, Calls
<1>1. CASE ReadsChunk \/ ReadsTruncated
  <2>1. Alive /\ sent' \in {sent, sent + 1} /\ verified' = verified
    BY <1>1 DEF ReadsChunk, ReadsTruncated, Alive
  <2>2. ReadsChunk => result' = "running"
    BY DEF ReadsChunk, IInv, Counting, Alive
  <2>3. ReadsTruncated => CutShort'
    BY NumChunksAssumption
    DEF ReadsTruncated, IInv, TypeOK, Counting, Alive, Between, CutShort
  <2>4. QED
    BY <1>1, <2>1, <2>2, <2>3
<1>2. CASE TimesOut \/ CallFails \/ DialFails \/ OpenFails \/ ReadFails \/ ClientKilled
  BY <1>2 DEF TimesOut, CallFails, DialFails, OpenFails, ReadFails, ClientKilled, Alive
<1>3. CASE Dials \/ WritesHeader \/ WritesBody \/ ReadsHeader \/ ReadsBody
  BY <1>3 DEF Dials, WritesHeader, WritesBody, ReadsHeader, ReadsBody
<1>4. CASE ServerStep \/ ServerKilled \/ ConnectionReset \/ Tick \/ UNCHANGED vars
  BY <1>4 DEF ServerStep, Accepts, ServesHeader, ServesBody, AnswersHeader, AnswersBody,
     ServerCallFails, ServerKilled, ConnectionReset, Tick, vars, clientVars
<1>5. QED
  BY <1>1, <1>2, <1>3, <1>4 DEF Next, ClientStep, Fault, Ended

(* The client implements the contract that all the benchmarks share.          *)
THEOREM ImplementsEcho == Spec => EchoSpec
<1>1. Init => Echo!Init
  BY DEF Init, Echo!Init, Outcome
<1>2. ASSUME IInv, IInv', [Next]_vars
      PROVE  [Echo!Next]_(Echo!vars)
  <2> SUFFICES ASSUME ~UNCHANGED <<sent, verified, Outcome>>
               PROVE  Echo!Next
    BY DEF Echo!vars
  <2>1. Alive /\ sent' \in {sent, sent + 1}
    <3>1. CASE UNCHANGED <<sent, verified, result, eof, nread>>
      BY <3>1 DEF Outcome, CutShort
    <3>2. CASE Verifies
      BY <3>2 DEF Verifies, Alive, fileVars
    <3>3. QED
      BY <1>2, <3>1, <3>2, OneMove
  <2>2. Outcome = "running"
    BY <1>2, <2>1 DEF IInv, Counting, Outcome
  <2>3. Echo!Send
    BY <1>2, <2>1 DEF IInv, TypeOK, Echo!Send
  <2>4. Echo!Verify
    <3>1. CASE verified' = verified
      BY <3>1 DEF Echo!Verify
    <3>2. CASE Verifies /\ verified' = Append(verified, nread)
      <4>1. /\ nread = Len(verified) + 1 /\ sent = nread
            /\ \A i \in 1..Len(verified) : verified[i] = i
        BY <1>2, <3>2 DEF Verifies, IInv, Counting, UnderWay
      <4>2. Len(verified) \in Nat
        BY <1>2, LenProperties DEF IInv, TypeOK
      <4>3. nread \in 1..sent /\ nread > Echo!LastVerified
        BY <4>1, <4>2 DEF Echo!LastVerified
      <4>4. QED
        BY <3>2, <4>3 DEF Echo!Verify
    <3>3. Verifies => verified' \in {verified, Append(verified, nread)}
      BY DEF Verifies
    <3>4. QED
      BY <1>2, <3>1, <3>2, <3>3, OneMove
  <2>5. Echo!Conclude
    <3>1. Outcome' \in {"running", "complete", "incomplete"}
      BY DEF Outcome
    <3>2. ASSUME Outcome' = "complete" PROVE verified' = [id \in 1..NumChunks |-> id]
      <4>1. Len(verified') = NumChunks /\ \A i \in 1..Len(verified') : verified'[i] = i
        BY <1>2, <3>2 DEF Outcome, IInv, Counting
      <4>2. verified' \in Seq(1..NumChunks)
        BY <1>2 DEF IInv, TypeOK
      <4>3. verified' = [i \in 1..Len(verified') |-> verified'[i]]
        BY <4>2, LenProperties
      <4>4. QED
        BY <4>1, <4>3
    <3>3. QED
      BY <3>1, <3>2 DEF Echo!Conclude
  <2>6. QED
    BY <2>2, <2>3, <2>4, <2>5 DEF Echo!Next
<1>3. QED
  BY <1>1, <1>2, Invariance, PTL DEF Spec, EchoSpec, Echo!Spec
==============================================================================
