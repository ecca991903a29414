-------------------------- MODULE GrpcStreamProofs --------------------------
(* Proofs about GrpcStream, for every number of chunks, every limit of the    *)
(* map and every window of the stream.                                        *)
EXTENDS GrpcStream, FiniteSetTheorems, TLAPS

-----------------------------------------------------------------------------
(* The inductive invariant.                                                   *)

Answer(id) == Response(Request(id))

(* The reader holds a response it has not disposed of.                        *)
Examining == rpc \in {"lookup", "matched", "verify"}

(* Chunks the handler has answered, and those it has taken off its stream.    *)
Answered == resp.id + Len(s2c)
Taken == IF srv = "write" THEN Answered + 1 ELSE Answered

(* All that was sent is, in the order of the file, read by the reader, on its *)
(* way to it, in the handler's hands, or on its way to the handler; only a    *)
(* handler that has returned leaves requests unanswered.                      *)
InStep ==
  /\ \A i \in 1..Len(s2c) : s2c[i] = Answer(resp.id + i)
  /\ Examining => resp.id >= 1 /\ resp = Answer(resp.id)
  /\ srv = "write" => hand = Answer(Answered + 1)
  /\ srv # "returned" => /\ \A i \in 1..Len(c2s) : c2s[i] = Request(Taken + i)
                         /\ sent = Taken + Len(c2s)
  /\ Answered <= sent

(* The writer keeps its promises between the test of the room in the map and  *)
(* the insertion; only the requests already written are in the map.           *)
Slots ==
  /\ rpc = "start" => wpc = "idle" /\ sent = 0
  /\ wpc = "write" => sent < NumChunks
  /\ wpc = "register" => sent >= 1 /\ sent \notin inflight
  /\ \A id \in inflight : id <= sent
  /\ wpc \in {"read", "write", "register"} => HasRoom
  /\ MapBounded

(* A request that was written and whose response was not looked up yet is in  *)
(* the map, except for the last one.                                          *)
Unanswered == (IF rpc = "lookup" THEN resp.id ELSE resp.id + 1)..sent
Registered ==
  \A id \in Unanswered :
    id < sent \/ wpc \in {"wait_slot", "blocked", "read", "write"}
    => id \in inflight

Inv == TypeOK /\ InStep /\ Slots /\ Registered

(* Responses the reader has disposed of; every one of them adds to verified   *)
(* or leaves a trace.                                                         *)
Processed == IF Examining THEN resp.id - 1 ELSE resp.id

Counted ==
  /\ Len(verified) <= Processed
  /\ Len(verified) = Processed => \A i \in 1..Len(verified) : verified[i] = i
  /\ \/ errors \cap {"orphan", "mismatch", "reader_exception"} # {}
     \/ rpc = "log_exc"
     => Len(verified) < Processed

(* What was verified is not in the map and will not return to it.             *)
Erased ==
  /\ \A i \in 1..Len(verified) :
       /\ verified[i] <= Processed
       /\ verified[i] \notin inflight
       /\ wpc = "register" => verified[i] < sent
  /\ rpc \in {"matched", "verify"} =>
       resp.id \notin inflight /\ (wpc = "register" => resp.id < sent)

(* The other errors, and the verdict.                                         *)
Blamed ==
  /\ "writer_exception" \in errors => broken
  /\ "left_in_map" \in errors => inflight # {} /\ rpc \in {"finish", "done"}
  /\ errors \cap {"start", "rpc", "data_loss"} # {}
       => rpc = "done" /\ report # "success"
  /\ report # "none" => rpc = "done"
  /\ report = "success" => ~broken /\ Len(verified) = NumChunks

(* A stream that broke is in the list of errors, or Finish will put it there. *)
Accounted ==
  /\ broken => errors # {} \/ call = "cancelled"
  /\ NoSilentFailure

Joined ==
  /\ rpc = "start" => wpc = "idle"
  /\ rpc = "aborted" => wpc = "aborted"
  /\ NoUseAfterScope

(* The writer has left its loop by an exception after it wrote request id.    *)
HalfInserted(id) == id = sent /\ (broken \/ wpc \in {"log_exc", "aborted"})

(* What the map holds under an id, and the reader's copy of it, is the chunk  *)
(* of that id, or nothing if the insertion was cut short; a blame is the last *)
(* thing that the reader does with responses.                                 *)
Faithful ==
  /\ broken => wpc \in {"finish", "exited", "aborted"}
  /\ \A id \in 1..NumChunks :
       \/ original[id] = << >> /\ (id \in inflight => HalfInserted(id))
       \/ original[id] = Payload(id) /\ id \in inflight
  /\ rpc \in {"matched", "verify"} =>
       \/ entry = << >> /\ HalfInserted(resp.id)
       \/ entry = Payload(resp.id)
  /\ "mismatch" \in errors => ~Examining
  /\ BlameMeansHalfInserted

IInv ==
  /\ Inv
  /\ NoLostWakeup /\ Joined /\ Faithful
  /\ Counted /\ Erased /\ Blamed /\ Accounted

-----------------------------------------------------------------------------
(* The messages.                                                              *)

(* reverse_bytes keeps the length and yields bytes of its input.              *)
LEMMA ReversedType ==
  ASSUME NEW data \in Seq(Nat)
  PROVE  Reversed(data) \in Seq(Nat) /\ Len(Reversed(data)) = Len(data)
<1>1. Len(data) \in Nat
  OBVIOUS
<1>2. \A i \in 1..Len(data) : Len(data) + 1 - i \in 1..Len(data)
  BY <1>1
<1>3. \A i \in 1..Len(data) : data[Len(data) + 1 - i] \in Nat
  BY <1>2
<1>4. QED
  BY <1>1, <1>3 DEF Reversed

(* A request carries its id, and the response to a request the same id.       *)
LEMMA MessageTypes ==
  /\ NoResponse \in Chunk /\ NoResponse.id = 0
  /\ \A id \in Nat : Request(id) \in Chunk /\ Request(id).id = id
  /\ \A req \in Chunk : Response(req) \in Chunk /\ Response(req).id = req.id
  /\ \A id \in Nat : Response(Request(id)).data = Reversed(Payload(id))
<1>1. NoResponse \in Chunk /\ NoResponse.id = 0
  BY DEF NoResponse, Chunk
<1>2. ASSUME NEW id \in Nat
      PROVE  Request(id) \in Chunk /\ Request(id).id = id
  BY DEF Request, Chunk, Payload
<1>3. ASSUME NEW req \in Chunk
      PROVE  Response(req) \in Chunk /\ Response(req).id = req.id
  BY ReversedType DEF Response, Chunk
<1>4. ASSUME NEW id \in Nat
      PROVE  Response(Request(id)).data = Reversed(Payload(id))
  BY DEF Response, Request
<1>5. QED
  BY <1>1, <1>2, <1>3, <1>4

(* The answer to a request carries the id and the reversed chunk.             *)
LEMMA AnswerType ==
  ASSUME NEW id \in Nat
  PROVE  Answer(id) \in Chunk /\ Answer(id).id = id
         /\ Answer(id).data = Reversed(Payload(id))
  BY MessageTypes DEF Answer

-----------------------------------------------------------------------------
(* Type correctness.                                                          *)

LEMMA TypeInit == Init => TypeOK
<1> SUFFICES ASSUME Init
             PROVE  TypeOK
  OBVIOUS
<1>1. NoResponse \in Chunk
  BY MessageTypes
<1>2. /\ << >> \in Seq(Chunk) /\ << >> \in Seq(1..NumChunks)
      /\ << >> \in Seq(Nat) /\ Len(<< >>) = 0
  OBVIOUS
<1>3. 0 \in 0..NumChunks /\ 0 <= Window
  BY NumChunksAssumption, WindowAssumption
<1>4. QED
  BY <1>1, <1>2, <1>3 DEF Init, TypeOK

(* What log_error changes beyond its own entry keeps its type.                *)
LEMMA ReaderLogsType ==
  ASSUME TypeOK, NEW kind \in {"orphan", "mismatch", "reader_exception"},
         NEW next \in {"read", "join"}, ReaderLogs(kind, next)
  PROVE  /\ wpc' \in {"idle", "wait_slot", "blocked", "read", "write",
                      "register", "log_exc", "finish", "half_close", "exited",
                      "aborted"}
         /\ broken' \in BOOLEAN
         /\ rpc' \in {"start", "read", "lookup", "matched", "verify", "log_exc",
                      "join", "finish", "done", "aborted"}
         /\ errors' \subseteq {"start", "writer_exception", "orphan",
                               "mismatch", "reader_exception", "left_in_map",
                               "rpc", "data_loss"}
         /\ call' \in {"open", "cancelled"}
  BY DEF TypeOK, ReaderLogs

LEMMA TypeStep ==
  ASSUME Inv, [Next]_vars
  PROVE  TypeOK'
<1> USE DEF Inv, TypeOK, writerVars, mapVars, readerVars, serverVars, netVars
<1>1. CASE Start
  BY <1>1 DEF Start
<1>2. CASE StartFails
  BY <1>2 DEF StartFails
<1>3. CASE WriterChecksRoom
  BY <1>3 DEF WriterChecksRoom
<1>4. CASE SpuriousWakeup
  BY <1>4 DEF SpuriousWakeup
<1>5. CASE WriterReads
  BY <1>5 DEF WriterReads
<1>6. CASE WriterEof \/ WriterReadError
  <2>1. CASE WriterEof
    BY <2>1 DEF WriterEof
  <2>2. CASE WriterReadError
    BY <2>2 DEF WriterReadError
  <2>3. QED
    BY <1>6, <2>1, <2>2
<1>7. CASE WriterWrites
  <2>1. sent + 1 \in 0..NumChunks
    BY <1>7, NumChunksAssumption DEF WriterWrites, Slots
  <2>2. Append(c2s, Request(sent + 1)) \in Seq(Chunk)
    BY <2>1, MessageTypes
  <2>3. Len(Append(c2s, Request(sent + 1))) <= Window
    BY <1>7, WindowAssumption DEF WriterWrites
  <2>4. QED
    BY <1>7, <2>1, <2>2, <2>3 DEF WriterWrites
<1>8. CASE WriterWriteFails
  BY <1>8 DEF WriterWriteFails
<1>9. CASE WriterRegisters \/ WriterHalfInserts
  <2>1. sent \in 1..NumChunks
    BY <1>9, NumChunksAssumption DEF WriterRegisters, WriterHalfInserts, Slots
  <2>2. Payload(sent) \in Seq(Nat)
    BY <2>1, NumChunksAssumption DEF Payload
  <2>3. original' \in [1..NumChunks -> Seq(Nat)]
    BY <1>9, <2>2 DEF WriterRegisters, WriterHalfInserts
  <2>4. CASE WriterRegisters
    BY <2>1, <2>3, <2>4 DEF WriterRegisters
  <2>5. CASE WriterHalfInserts
    BY <2>1, <2>5 DEF WriterHalfInserts
  <2>6. QED
    BY <1>9, <2>4, <2>5
<1>10. CASE WriterThrows
  BY <1>10 DEF WriterThrows
<1>11. CASE WriterLogsException
  BY <1>11 DEF WriterLogsException
<1>12. CASE WriterFinishes
  BY <1>12 DEF WriterFinishes
<1>13. CASE WriterHalfCloses
  BY <1>13 DEF WriterHalfCloses
<1>14. CASE ReaderReads
  <2>1. Head(s2c) \in Chunk /\ Tail(s2c) \in Seq(Chunk)
    BY <1>14 DEF ReaderReads
  <2>2. Len(Tail(s2c)) <= Window
    BY <1>14, WindowAssumption DEF ReaderReads
  <2>3. << >> \in Seq(Nat)
    OBVIOUS
  <2>4. QED
    BY <1>14, <2>1, <2>2, <2>3 DEF ReaderReads
<1>15. CASE ReaderReadEnds
  BY <1>15 DEF ReaderReadEnds
<1>16. CASE ReaderFindsRequest
  <2>1. << >> \in Seq(Nat)
    OBVIOUS
  <2>2. original[resp.id] \in Seq(Nat)
    BY <1>16 DEF ReaderFindsRequest
  <2>3. original' \in [1..NumChunks -> Seq(Nat)]
    BY <1>16, <2>1 DEF ReaderFindsRequest
  <2>4. QED
    BY <1>16, <2>2, <2>3 DEF ReaderFindsRequest
<1>17. CASE ReaderFindsOrphan
  BY <1>17, ReaderLogsType DEF ReaderFindsOrphan
<1>18. CASE ReaderNotifies
  BY <1>18 DEF ReaderNotifies
<1>19. CASE ReaderVerifies
  <2>1. resp.id \in 1..NumChunks
    BY <1>19, NumChunksAssumption
    DEF ReaderVerifies, InStep, Examining, Answered, Chunk
  <2>2. Append(verified, resp.id) \in Seq(1..NumChunks)
    BY <2>1
  <2>3. CASE resp.data = Reversed(entry)
    BY <1>19, <2>2, <2>3 DEF ReaderVerifies
  <2>4. CASE resp.data # Reversed(entry)
    BY <1>19, <2>4, ReaderLogsType DEF ReaderVerifies
  <2>5. QED
    BY <2>3, <2>4
<1>20. CASE ReaderThrows
  BY <1>20 DEF ReaderThrows
<1>21. CASE ReaderLogsException
  BY <1>21, ReaderLogsType DEF ReaderLogsException
<1>22. CASE ReaderJoins
  BY <1>22 DEF ReaderJoins
<1>23. CASE ReaderFinishes
  BY <1>23 DEF ReaderFinishes, Verdict, FinalErrors
<1>24. CASE ServerAccepts
  BY <1>24 DEF ServerAccepts
<1>25. CASE ServerReads
  <2>1. Head(c2s) \in Chunk /\ Tail(c2s) \in Seq(Chunk)
    BY <1>25 DEF ServerReads
  <2>2. Len(Tail(c2s)) <= Window
    BY <1>25, WindowAssumption DEF ServerReads
  <2>3. Response(Head(c2s)) \in Chunk
    BY <2>1, MessageTypes
  <2>4. QED
    BY <1>25, <2>1, <2>2, <2>3 DEF ServerReads
<1>26. CASE ServerReadEnds \/ ServerWriteFails
  BY <1>26 DEF ServerReadEnds, ServerWriteFails
<1>27. CASE ServerWrites
  <2>1. Append(s2c, hand) \in Seq(Chunk)
    OBVIOUS
  <2>2. Len(Append(s2c, hand)) <= Window
    BY <1>27, WindowAssumption DEF ServerWrites
  <2>3. QED
    BY <1>27, <2>1, <2>2 DEF ServerWrites
<1>28. CASE CallBreaks
  BY <1>28 DEF CallBreaks
<1>29. CASE UNCHANGED vars
  BY <1>29 DEF vars
<1>30. QED
  BY <1>1, <1>2, <1>3, <1>4, <1>5, <1>6, <1>7, <1>8, <1>9, <1>10, <1>11, <1>12,
     <1>13, <1>14, <1>15, <1>16, <1>17, <1>18, <1>19, <1>20, <1>21, <1>22,
     <1>23, <1>24, <1>25, <1>26, <1>27, <1>28, <1>29
  DEF Next, WriterStep, ReaderStep, ServerStep, Fault, Ended

-----------------------------------------------------------------------------
(* The writer and the map.                                                    *)

(* The map is finite, being a set of chunk numbers.                           *)
LEMMA InflightFinite ==
  ASSUME TypeOK
  PROVE  IsFiniteSet(inflight)
<1>1. IsFiniteSet(1..NumChunks)
  BY NumChunksAssumption, FS_Interval
<1>2. inflight \in SUBSET (1..NumChunks)
  BY DEF TypeOK
<1>3. QED
  BY <1>1, <1>2, FS_Subset

(* Slots is kept: only the writer adds to the map, one entry per test.        *)
LEMMA SlotsStep ==
  ASSUME Inv, [Next]_vars
  PROVE  Slots'
<1> USE DEF Inv, TypeOK, Slots, HasRoom, MapBounded, writerVars, mapVars,
            readerVars, serverVars, netVars
<1>1. CASE WriterChecksRoom
  BY <1>1
  DEF WriterChecksRoom
<1>2. CASE WriterReads
  BY <1>2
  DEF WriterReads
<1>3. CASE WriterWrites
  BY <1>3
  DEF WriterWrites
<1>4. CASE WriterRegisters \/ WriterHalfInserts
  <2>1. IsFiniteSet(inflight)
    BY InflightFinite
  <2>2. Cardinality(inflight \cup {sent}) = Cardinality(inflight) + 1
    BY <1>4, <2>1, FS_AddElement DEF WriterRegisters, WriterHalfInserts
  <2>3. Cardinality(inflight) \in Nat
    BY <2>1, FS_CardinalityType
  <2>4. CASE WriterRegisters
    BY <2>2, <2>3, <2>4, MaxInflightAssumption DEF WriterRegisters
  <2>5. CASE WriterHalfInserts
    BY <2>2, <2>3, <2>5, MaxInflightAssumption DEF WriterHalfInserts
  <2>6. QED
    BY <1>4, <2>4, <2>5
<1>5. CASE SpuriousWakeup \/ WriterEof \/ WriterReadError \/ WriterWriteFails
           \/ WriterThrows \/ WriterLogsException
           \/ WriterFinishes \/ WriterHalfCloses
  BY <1>5
  DEF SpuriousWakeup, WriterEof, WriterReadError, WriterWriteFails,
      WriterThrows, WriterLogsException, WriterFinishes,
      WriterHalfCloses
<1>6. CASE ReaderFindsRequest
  <2>1. IsFiniteSet(inflight)
    BY InflightFinite
  <2>2. Cardinality(inflight \ {resp.id}) = Cardinality(inflight) - 1
    BY <1>6, <2>1, FS_RemoveElement DEF ReaderFindsRequest
  <2>3. Cardinality(inflight) \in Nat
    BY <2>1, FS_CardinalityType
  <2>4. QED
    BY <1>6, <2>2, <2>3, MaxInflightAssumption DEF ReaderFindsRequest
<1>7. CASE Start \/ StartFails \/ ReaderReads \/ ReaderReadEnds
           \/ ReaderFindsOrphan \/ ReaderNotifies \/ ReaderVerifies
           \/ ReaderThrows \/ ReaderLogsException \/ ReaderJoins
           \/ ReaderFinishes
  BY <1>7
  DEF Start, StartFails, ReaderReads, ReaderReadEnds, ReaderFindsOrphan,
      ReaderNotifies, ReaderVerifies, ReaderThrows, ReaderLogsException,
      ReaderJoins, ReaderFinishes, ReaderLogs, Verdict, FinalErrors
<1>8. CASE ServerAccepts \/ ServerReads \/ ServerReadEnds \/ ServerWrites
           \/ ServerWriteFails \/ CallBreaks
  BY <1>8
  DEF ServerAccepts, ServerReads, ServerReadEnds, ServerWrites,
      ServerWriteFails, CallBreaks
<1>9. CASE UNCHANGED vars
  BY <1>9 DEF vars
<1>10. QED
  BY <1>1, <1>2, <1>3, <1>4, <1>5, <1>6, <1>7, <1>8, <1>9
  DEF Next, WriterStep, ReaderStep, ServerStep, Fault, Ended

(* The reader reads the response to the chunk after the last.                 *)
LEMMA ReadsNext ==
  ASSUME Inv, ReaderReads
  PROVE  resp'.id = resp.id + 1 /\ resp' = Answer(resp.id + 1)
<1>1. resp.id \in Nat /\ s2c \in Seq(Chunk) /\ s2c # << >>
  BY DEF Inv, TypeOK, Chunk, ReaderReads
<1>2. resp' = Answer(resp.id + 1)
  <2>1. 1 \in 1..Len(s2c) /\ resp' = s2c[1]
    BY <1>1 DEF ReaderReads
  <2>2. QED
    BY <2>1 DEF Inv, InStep
<1>3. QED
  BY <1>1, <1>2, AnswerType

(* InStep is kept: the stream delivers in order and the handler answers in    *)
(* order.                                                                     *)
LEMMA InStepStep ==
  ASSUME Inv, [Next]_vars
  PROVE  InStep'
<1> USE DEF Inv, writerVars, mapVars, readerVars, serverVars, netVars
<1>0. /\ resp.id \in Nat /\ sent \in Nat
      /\ Len(c2s) \in Nat /\ Len(s2c) \in Nat
  BY DEF TypeOK, Chunk
<1>a. c2s \in Seq(Chunk) /\ s2c \in Seq(Chunk)
  BY DEF TypeOK
<1>b. Answered \in Nat /\ Taken \in Nat
  BY <1>0 DEF Answered, Taken
<1>1. CASE WriterWrites
  <2>1. /\ Len(c2s') = Len(c2s) + 1
        /\ \A i \in 1..Len(c2s) : c2s'[i] = c2s[i]
        /\ c2s'[Len(c2s) + 1] = Request(sent + 1)
    BY <1>1, <1>0 DEF WriterWrites
  <2>2. \A i \in 1..Len(c2s') : i \in 1..Len(c2s) \/ i = Len(c2s) + 1
    BY <1>0, <2>1
  <2>3. sent' = sent + 1 /\ UNCHANGED <<resp, rpc, s2c, srv, hand>>
    BY <1>1 DEF WriterWrites
  <2>4. Answered' = Answered /\ Taken' = Taken /\ Examining' = Examining
    BY <2>3 DEF Answered, Taken, Examining
  <2>5. CASE srv = "returned"
    BY <1>0, <1>b, <2>3, <2>4, <2>5 DEF InStep
  <2>6. CASE srv # "returned"
    <3>1. sent + 1 = Taken + (Len(c2s) + 1)
      BY <1>0, <1>b, <2>6 DEF InStep
    <3>2. \A i \in 1..Len(c2s') : c2s'[i] = Request(Taken + i)
      BY <2>1, <2>2, <2>6, <3>1 DEF InStep
    <3>3. QED
      BY <1>0, <1>b, <2>1, <2>3, <2>4, <2>6, <3>1, <3>2 DEF InStep
  <2>7. QED
    BY <2>5, <2>6
<1>2. CASE WriterRegisters
  BY <1>2
  DEF WriterRegisters, InStep, Answered, Taken, Examining
<1>3. CASE WriterChecksRoom \/ SpuriousWakeup \/ WriterReads \/ WriterEof
           \/ WriterReadError \/ WriterWriteFails \/ WriterHalfInserts
           \/ WriterThrows \/ WriterLogsException \/ WriterFinishes
           \/ WriterHalfCloses
  BY <1>3
  DEF WriterChecksRoom, SpuriousWakeup, WriterReads, WriterEof, WriterReadError,
      WriterWriteFails, WriterHalfInserts, WriterThrows, WriterLogsException,
      WriterFinishes, WriterHalfCloses, InStep, Answered, Taken, Examining
<1>4. CASE ReaderReads
  <2>1. Len(s2c) >= 1 /\ Len(s2c') = Len(s2c) - 1
    BY <1>4, <1>0 DEF ReaderReads
  <2>2. \A i \in 1..Len(s2c') : s2c'[i] = s2c[i + 1] /\ i + 1 \in 1..Len(s2c)
    BY <1>4, <1>0, <2>1 DEF ReaderReads
  <2>3. resp' = Answer(resp.id + 1)
    BY <1>4, ReadsNext
  <2>4. resp'.id = resp.id + 1
    BY <1>4, ReadsNext
  <2>5. \A i \in 1..Len(s2c') : s2c'[i] = Answer(resp'.id + i)
    <3> TAKE i \in 1..Len(s2c')
    <3>1. s2c'[i] = Answer(resp.id + (i + 1))
      BY <2>2 DEF InStep
    <3>2. resp.id + (i + 1) = resp'.id + i
      BY <1>0, <2>1, <2>4
    <3>3. QED
      BY <3>1, <3>2
  <2>6. UNCHANGED <<srv, hand, c2s, sent>>
    BY <1>4 DEF ReaderReads
  <2>7. Answered' = Answered /\ Taken' = Taken
    <3>1. Answered' = Answered
      BY <1>0, <2>1, <2>4 DEF Answered
    <3>2. QED
      BY <2>6, <3>1 DEF Taken
  <2>8. QED
    BY <1>0, <2>3, <2>4, <2>5, <2>6, <2>7 DEF InStep
<1>5. CASE Start \/ StartFails \/ ReaderReadEnds \/ ReaderFindsRequest
           \/ ReaderFindsOrphan \/ ReaderNotifies \/ ReaderVerifies
           \/ ReaderThrows \/ ReaderLogsException \/ ReaderJoins
           \/ ReaderFinishes
  BY <1>5
  DEF Start, StartFails, ReaderReadEnds, ReaderFindsRequest, ReaderFindsOrphan,
      ReaderNotifies, ReaderVerifies, ReaderThrows, ReaderLogsException,
      ReaderJoins, ReaderFinishes, ReaderLogs, Verdict, FinalErrors, InStep,
      Answered, Taken, Examining
<1>6. CASE ServerReads
  <2>1. Len(c2s) >= 1 /\ Len(c2s') = Len(c2s) - 1
    BY <1>6, <1>0 DEF ServerReads
  <2>2. \A i \in 1..Len(c2s') : c2s'[i] = c2s[i + 1] /\ i + 1 \in 1..Len(c2s)
    BY <1>6, <1>0, <2>1 DEF ServerReads
  <2>3. srv = "read" /\ srv' = "write" /\ UNCHANGED <<resp, rpc, s2c, sent>>
    BY <1>6 DEF ServerReads
  <2>4. /\ Answered' = Answered /\ Taken = Answered /\ Taken' = Answered + 1
        /\ Examining' = Examining
    BY <2>3 DEF Answered, Taken, Examining
  <2>5. hand' = Answer(Answered + 1)
    BY <1>6, <1>0, <2>1, <2>3, <2>4 DEF ServerReads, Answer, InStep
  <2>6. \A i \in 1..Len(c2s') : c2s'[i] = Request(Taken' + i)
    <3> TAKE i \in 1..Len(c2s')
    <3>1. c2s'[i] = Request(Taken + (i + 1))
      BY <2>2, <2>3 DEF InStep
    <3>2. Taken + (i + 1) = Taken' + i
      BY <1>0, <1>b, <2>1, <2>4
    <3>3. QED
      BY <3>1, <3>2
  <2>7. sent = Taken' + Len(c2s')
    BY <1>0, <1>b, <2>1, <2>3, <2>4 DEF InStep
  <2>8. QED
    BY <1>0, <2>3, <2>4, <2>5, <2>6, <2>7 DEF InStep
<1>7. CASE ServerWrites
  <2>1. /\ Len(s2c') = Len(s2c) + 1
        /\ \A i \in 1..Len(s2c) : s2c'[i] = s2c[i]
        /\ s2c'[Len(s2c) + 1] = hand
    BY <1>7, <1>0 DEF ServerWrites, TypeOK
  <2>2. \A i \in 1..Len(s2c') : i \in 1..Len(s2c) \/ i = Len(s2c) + 1
    BY <1>0, <2>1
  <2>3. /\ srv = "write" /\ srv' = "read"
        /\ UNCHANGED <<resp, rpc, sent, c2s, hand>>
    BY <1>7 DEF ServerWrites
  <2>4. /\ Answered' = Answered + 1 /\ Taken = Answered + 1 /\ Taken' = Taken
        /\ Examining' = Examining
    <3>1. Answered' = Answered + 1
      BY <1>0, <2>1, <2>3 DEF Answered
    <3>2. QED
      BY <2>3, <3>1 DEF Taken, Examining
  <2>5. hand = Answer(resp.id + (Len(s2c) + 1))
    <3>1. Answered + 1 = resp.id + (Len(s2c) + 1)
      BY <1>0 DEF Answered
    <3>2. QED
      BY <2>3, <3>1 DEF InStep
  <2>6. \A i \in 1..Len(s2c') : s2c'[i] = Answer(resp.id + i)
    BY <2>1, <2>2, <2>5 DEF InStep
  <2>7. Answered + 1 <= sent
    BY <1>b, <1>0, <2>3, <2>4 DEF InStep
  <2>8. QED
    BY <1>0, <1>b, <2>3, <2>4, <2>6, <2>7 DEF InStep
<1>8. CASE ServerAccepts \/ ServerReadEnds \/ ServerWriteFails \/ CallBreaks
  BY <1>8
  DEF ServerAccepts, ServerReadEnds, ServerWriteFails, CallBreaks, InStep,
      Answered, Taken, Examining
<1>9. CASE UNCHANGED vars
  BY <1>9 DEF vars, InStep, Answered, Taken, Examining
<1>10. QED
  BY <1>1, <1>2, <1>3, <1>4, <1>5, <1>6, <1>7, <1>8, <1>9
  DEF Next, WriterStep, ReaderStep, ServerStep, Fault, Ended

(* Registered is kept: entries are made in the order of the ids, and only the *)
(* lookup of a response removes one.                                          *)
LEMMA RegisteredStep ==
  ASSUME Inv, [Next]_vars
  PROVE  Registered'
<1> USE DEF Inv, writerVars, mapVars, readerVars, serverVars, netVars
<1>0. resp.id \in Nat /\ sent \in Nat
  BY DEF TypeOK, Chunk
<1>1. CASE WriterWrites
  <2>1. sent' = sent + 1 /\ UNCHANGED <<resp, rpc, inflight>>
        /\ wpc = "write" /\ wpc' = "register"
    BY <1>1 DEF WriterWrites
  <2>2. SUFFICES ASSUME NEW id \in Unanswered', id < sent'
                 PROVE  id \in inflight
    BY <2>1 DEF Registered
  <2>3. id \in Unanswered
    BY <1>0, <2>1, <2>2 DEF Unanswered
  <2>4. QED
    BY <2>1, <2>3 DEF Registered
<1>2. CASE WriterChecksRoom \/ SpuriousWakeup \/ WriterReads \/ WriterEof
           \/ WriterReadError \/ WriterWriteFails \/ WriterRegisters
           \/ WriterHalfInserts \/ WriterThrows \/ WriterLogsException
           \/ WriterFinishes \/ WriterHalfCloses
  BY <1>2, <1>0
  DEF WriterChecksRoom, SpuriousWakeup, WriterReads, WriterEof, WriterReadError,
      WriterWriteFails, WriterRegisters, WriterHalfInserts, WriterThrows,
      WriterLogsException, WriterFinishes, WriterHalfCloses, Registered,
      Unanswered
<1>3. CASE Start
  BY <1>3, <1>0 DEF Start, Slots, Registered, Unanswered
<1>4. CASE ReaderReads
  <2>1. resp'.id = resp.id + 1
    BY <1>4, ReadsNext
  <2>2. QED
    BY <1>4, <1>0, <2>1 DEF ReaderReads, Registered, Unanswered
<1>5. CASE StartFails \/ ReaderReadEnds \/ ReaderFindsRequest
           \/ ReaderFindsOrphan \/ ReaderNotifies \/ ReaderVerifies
           \/ ReaderThrows \/ ReaderLogsException \/ ReaderJoins
           \/ ReaderFinishes
  BY <1>5, <1>0
  DEF StartFails, ReaderReadEnds, ReaderFindsRequest, ReaderFindsOrphan,
      ReaderNotifies, ReaderVerifies, ReaderThrows, ReaderLogsException,
      ReaderJoins, ReaderFinishes, ReaderLogs, Verdict, FinalErrors, Registered,
      Unanswered
<1>6. CASE ServerAccepts \/ ServerReads \/ ServerReadEnds \/ ServerWrites
           \/ ServerWriteFails \/ CallBreaks
  BY <1>6, <1>0
  DEF ServerAccepts, ServerReads, ServerReadEnds, ServerWrites,
      ServerWriteFails, CallBreaks, Registered, Unanswered
<1>7. CASE UNCHANGED vars
  BY <1>7 DEF vars, Registered, Unanswered
<1>8. QED
  BY <1>1, <1>2, <1>3, <1>4, <1>5, <1>6, <1>7
  DEF Next, WriterStep, ReaderStep, ServerStep, Fault, Ended

-----------------------------------------------------------------------------
(* The properties that need little more.                                      *)

(* No wakeup is lost: the writer falls asleep on a full map, and a slot is    *)
(* freed only by a reader that notifies next.                                 *)
LEMMA WakeupStep ==
  ASSUME NoLostWakeup, [Next]_vars
  PROVE  NoLostWakeup'
<1> USE DEF writerVars, mapVars, readerVars, serverVars, netVars
<1>1. CASE WriterChecksRoom
  BY <1>1
  DEF WriterChecksRoom, NoLostWakeup, HasRoom
<1>2. CASE SpuriousWakeup \/ WriterReads \/ WriterEof \/ WriterReadError
           \/ WriterWrites \/ WriterWriteFails \/ WriterRegisters
           \/ WriterHalfInserts \/ WriterThrows \/ WriterLogsException
           \/ WriterFinishes \/ WriterHalfCloses
  BY <1>2
  DEF SpuriousWakeup, WriterReads, WriterEof, WriterReadError, WriterWrites,
      WriterWriteFails, WriterRegisters, WriterHalfInserts, WriterThrows,
      WriterLogsException, WriterFinishes, WriterHalfCloses, NoLostWakeup,
      HasRoom
<1>3. CASE ReaderFindsRequest
  BY <1>3
  DEF ReaderFindsRequest, NoLostWakeup, HasRoom
<1>4. CASE ReaderNotifies
  BY <1>4
  DEF ReaderNotifies, NoLostWakeup, HasRoom
<1>5. CASE Start \/ StartFails \/ ReaderReads \/ ReaderReadEnds
           \/ ReaderFindsOrphan \/ ReaderVerifies \/ ReaderThrows
           \/ ReaderLogsException \/ ReaderJoins \/ ReaderFinishes
  BY <1>5
  DEF Start, StartFails, ReaderReads, ReaderReadEnds, ReaderFindsOrphan,
      ReaderVerifies, ReaderThrows, ReaderLogsException, ReaderJoins,
      ReaderFinishes, ReaderLogs, Verdict, FinalErrors, NoLostWakeup, HasRoom
<1>6. CASE ServerAccepts \/ ServerReads \/ ServerReadEnds \/ ServerWrites
           \/ ServerWriteFails \/ CallBreaks
  BY <1>6
  DEF ServerAccepts, ServerReads, ServerReadEnds, ServerWrites,
      ServerWriteFails, CallBreaks, NoLostWakeup, HasRoom
<1>7. CASE UNCHANGED vars
  BY <1>7 DEF vars, NoLostWakeup, HasRoom
<1>8. QED
  BY <1>1, <1>2, <1>3, <1>4, <1>5, <1>6, <1>7
  DEF Next, WriterStep, ReaderStep, ServerStep, Fault, Ended

(* Only a writer that has exited is joined.                                   *)
LEMMA JoinedStep ==
  ASSUME Joined, [Next]_vars
  PROVE  Joined'
<1> USE DEF writerVars, mapVars, readerVars, serverVars, netVars
<1>1. CASE WriterChecksRoom \/ SpuriousWakeup \/ WriterReads \/ WriterEof
           \/ WriterReadError \/ WriterWrites \/ WriterWriteFails
           \/ WriterRegisters \/ WriterHalfInserts \/ WriterThrows
           \/ WriterLogsException \/ WriterFinishes \/ WriterHalfCloses
  BY <1>1
  DEF WriterChecksRoom, SpuriousWakeup, WriterReads, WriterEof, WriterReadError,
      WriterWrites, WriterWriteFails, WriterRegisters, WriterHalfInserts,
      WriterThrows, WriterLogsException, WriterFinishes, WriterHalfCloses,
      Joined, NoUseAfterScope
<1>2. CASE Start
  BY <1>2
  DEF Start, Joined, NoUseAfterScope
<1>3. CASE ReaderJoins
  BY <1>3
  DEF ReaderJoins, Joined, NoUseAfterScope
<1>4. CASE StartFails \/ ReaderReads \/ ReaderReadEnds \/ ReaderFindsRequest
           \/ ReaderFindsOrphan \/ ReaderNotifies \/ ReaderVerifies
           \/ ReaderThrows \/ ReaderLogsException \/ ReaderFinishes
  BY <1>4
  DEF StartFails, ReaderReads, ReaderReadEnds, ReaderFindsRequest,
      ReaderFindsOrphan, ReaderNotifies, ReaderVerifies, ReaderThrows,
      ReaderLogsException, ReaderFinishes, ReaderLogs, Verdict, FinalErrors,
      Joined, NoUseAfterScope
<1>5. CASE ServerAccepts \/ ServerReads \/ ServerReadEnds \/ ServerWrites
           \/ ServerWriteFails \/ CallBreaks
  BY <1>5
  DEF ServerAccepts, ServerReads, ServerReadEnds, ServerWrites,
      ServerWriteFails, CallBreaks, Joined, NoUseAfterScope
<1>6. CASE UNCHANGED vars
  BY <1>6 DEF vars, Joined, NoUseAfterScope
<1>7. QED
  BY <1>1, <1>2, <1>3, <1>4, <1>5, <1>6
  DEF Next, WriterStep, ReaderStep, ServerStep, Fault, Ended

(* What is verified is the answer to the request it is compared with, or the  *)
(* last answer, compared with an entry that was left empty.                   *)
LEMMA FaithfulStep ==
  ASSUME Inv, Counted, Faithful, [Next]_vars
  PROVE  Faithful'
<1> USE DEF writerVars, mapVars, readerVars, serverVars, netVars
<1>0. /\ resp.id \in Nat /\ sent \in Nat /\ sent <= NumChunks
      /\ NumChunks \in Nat /\ inflight \subseteq 1..NumChunks
  BY NumChunksAssumption DEF Inv, TypeOK, Chunk
<1>a. original \in [1..NumChunks -> Seq(Nat)]
  BY DEF Inv, TypeOK
<1>b. resp.id <= sent
  BY <1>0 DEF Inv, TypeOK, InStep, Answered
<1>1. CASE WriterRegisters
  <2>1. wpc = "register" /\ ~broken
    BY <1>1 DEF WriterRegisters, Faithful
  <2>2. sent \in 1..NumChunks
    BY <1>0, <2>1 DEF Inv, Slots
  <2>3. /\ original'[sent] = Payload(sent) /\ sent \in inflight'
        /\ \A id \in 1..NumChunks : id # sent =>
             /\ original'[id] = original[id]
             /\ id \in inflight' <=> id \in inflight
    BY <1>1, <1>a, <2>2 DEF WriterRegisters
  <2>4. UNCHANGED <<broken, sent, resp, entry, rpc, errors, verified>>
        /\ wpc' = "wait_slot"
    BY <1>1 DEF WriterRegisters
  <2>5. \A id : ~HalfInserted(id)
    BY <2>1 DEF HalfInserted
  <2>6. "mismatch" \notin errors
    BY <2>1 DEF Faithful, BlameMeansHalfInserted
  <2>7. QED
    BY <2>1, <2>3, <2>4, <2>5, <2>6
    DEF Faithful, Examining, BlameMeansHalfInserted
<1>2. CASE WriterHalfInserts
  <2>1. wpc = "register" /\ ~broken
    BY <1>2 DEF WriterHalfInserts, Faithful
  <2>2. inflight' = inflight \cup {sent} /\ sent \notin inflight
    BY <1>2, <2>1 DEF WriterHalfInserts, Inv, Slots
  <2>3. UNCHANGED <<original, broken, sent, resp, entry, rpc, errors, verified>>
        /\ wpc' = "log_exc"
    BY <1>2 DEF WriterHalfInserts
  <2>4. \A id : ~HalfInserted(id)
    BY <2>1 DEF HalfInserted
  <2>5. HalfInserted(sent)'
    BY <2>3 DEF HalfInserted
  <2>6. "mismatch" \notin errors
    BY <2>1 DEF Faithful, BlameMeansHalfInserted
  <2>7. QED
    BY <2>1, <2>2, <2>3, <2>4, <2>5, <2>6
    DEF Faithful, Examining, BlameMeansHalfInserted
<1>3. CASE WriterWrites
  <2>1. wpc = "write" /\ wpc' = "register" /\ ~broken
        /\ UNCHANGED <<broken, inflight, original, resp, entry, rpc, errors>>
    BY <1>3 DEF WriterWrites, Faithful
  <2>2. \A id : ~HalfInserted(id)
    BY <2>1 DEF HalfInserted
  <2>3. "mismatch" \notin errors
    BY <2>1 DEF Faithful, BlameMeansHalfInserted
  <2>4. QED
    BY <2>1, <2>2, <2>3 DEF Faithful, Examining, BlameMeansHalfInserted
<1>4. CASE WriterChecksRoom \/ SpuriousWakeup \/ WriterReads \/ WriterEof
           \/ WriterReadError \/ WriterWriteFails \/ WriterThrows
           \/ WriterLogsException \/ WriterFinishes \/ WriterHalfCloses
  BY <1>4
  DEF WriterChecksRoom, SpuriousWakeup, WriterReads, WriterEof, WriterReadError,
      WriterWriteFails, WriterThrows, WriterLogsException, WriterFinishes,
      WriterHalfCloses, Faithful, HalfInserted, Examining,
      BlameMeansHalfInserted
<1>5. CASE ReaderReads
  <2>1. resp'.id = resp.id + 1
    BY <1>5, ReadsNext
  <2>2. resp.id + Len(s2c) <= sent /\ Len(s2c) \in Nat /\ Len(s2c) >= 1
    BY <1>5 DEF Inv, TypeOK, InStep, Answered, ReaderReads
  <2>3. "mismatch" \notin errors
    BY <1>0, <2>2 DEF Faithful, BlameMeansHalfInserted
  <2>4. UNCHANGED <<wpc, broken, sent, inflight, original, errors>>
        /\ rpc' = "lookup"
    BY <1>5 DEF ReaderReads
  <2>5. QED
    BY <2>3, <2>4
    DEF Faithful, HalfInserted, Examining, BlameMeansHalfInserted
<1>6. CASE ReaderFindsRequest
  <2>1. /\ rpc = "lookup" /\ rpc' = "matched" /\ resp.id \in 1..NumChunks
        /\ resp.id \in inflight
        /\ entry' = original[resp.id] /\ inflight' = inflight \ {resp.id}
        /\ UNCHANGED <<wpc, broken, sent, resp, errors, verified>>
    BY <1>6, <1>0 DEF ReaderFindsRequest
  <2>2. /\ original'[resp.id] = << >>
        /\ \A id \in 1..NumChunks : id # resp.id => original'[id] = original[id]
    BY <1>6, <1>a, <2>1 DEF ReaderFindsRequest
  <2>3. "mismatch" \notin errors
    BY <2>1 DEF Faithful, Examining
  <2>4. QED
    BY <2>1, <2>2, <2>3
    DEF Faithful, HalfInserted, Examining, BlameMeansHalfInserted
<1>7. CASE ReaderNotifies
  BY <1>7
  DEF ReaderNotifies, Faithful, HalfInserted, Examining, BlameMeansHalfInserted
<1>8. CASE ReaderVerifies
  <2>1. rpc = "verify" /\ resp = Answer(resp.id)
        /\ UNCHANGED <<sent, inflight, original, resp, entry>>
    BY <1>8 DEF Inv, InStep, Examining, ReaderVerifies
  <2>2. resp.data = Reversed(Payload(resp.id))
    BY <1>0, <2>1, AnswerType
  <2>3. "mismatch" \notin errors
    BY <2>1 DEF Faithful, Examining
  <2>4. CASE resp.data = Reversed(entry)
    BY <1>8, <2>1, <2>3, <2>4
    DEF ReaderVerifies, Faithful, HalfInserted, Examining,
        BlameMeansHalfInserted
  <2>5. CASE resp.data # Reversed(entry)
    <3>1. entry = << >> /\ HalfInserted(resp.id)
      BY <2>1, <2>2, <2>5 DEF Faithful
    <3>2. Len(verified) < sent /\ UNCHANGED verified
      <4>1. Len(verified) <= resp.id - 1 /\ Len(verified) \in Nat
        BY <2>1 DEF Inv, TypeOK, Counted, Processed, Examining
      <4>2. QED
        BY <1>0, <1>b, <1>8, <2>5, <4>1 DEF ReaderVerifies
    <3>3. ReaderLogs("mismatch", "read")
      BY <1>8, <2>5 DEF ReaderVerifies
    <3>4. QED
      BY <2>1, <3>1, <3>2, <3>3
      DEF ReaderLogs, Faithful, HalfInserted, Examining, BlameMeansHalfInserted
  <2>6. QED
    BY <2>4, <2>5
<1>9. CASE Start \/ StartFails \/ ReaderReadEnds \/ ReaderThrows
           \/ ReaderJoins \/ ReaderFinishes
  BY <1>9
  DEF Inv, Slots, Start, StartFails, ReaderReadEnds, ReaderThrows, ReaderJoins,
      ReaderFinishes, Verdict, FinalErrors, Faithful, HalfInserted, Examining,
      BlameMeansHalfInserted
<1>10. CASE ReaderFindsOrphan \/ ReaderLogsException
  BY <1>10
  DEF ReaderFindsOrphan, ReaderLogsException, ReaderLogs, Faithful,
      HalfInserted, Examining, BlameMeansHalfInserted
<1>11. CASE ServerAccepts \/ ServerReads \/ ServerReadEnds \/ ServerWrites
           \/ ServerWriteFails \/ CallBreaks
  BY <1>11
  DEF ServerAccepts, ServerReads, ServerReadEnds, ServerWrites,
      ServerWriteFails, CallBreaks, Faithful, HalfInserted, Examining,
      BlameMeansHalfInserted
<1>12. CASE UNCHANGED vars
  BY <1>12
  DEF vars, Faithful, HalfInserted, Examining, BlameMeansHalfInserted
<1>13. QED
  BY <1>1, <1>2, <1>3, <1>4, <1>5, <1>6, <1>7, <1>8, <1>9, <1>10, <1>11, <1>12
  DEF Next, WriterStep, ReaderStep, ServerStep, Fault, Ended

-----------------------------------------------------------------------------
(* What a success says.                                                       *)

(* Every response is verified, in order, or leaves a trace.                   *)
LEMMA CountedStep ==
  ASSUME Inv, Counted, [Next]_vars
  PROVE  Counted'
<1> USE DEF writerVars, mapVars, readerVars, serverVars, netVars
<1>0. /\ resp.id \in Nat /\ sent \in Nat
      /\ Len(verified) \in Nat /\ Processed \in Int
  BY DEF Inv, TypeOK, Chunk, Processed
<1>a. Examining => resp.id >= 1
  BY DEF Inv, InStep
<1>1. CASE WriterChecksRoom \/ SpuriousWakeup \/ WriterReads \/ WriterEof
           \/ WriterReadError \/ WriterWrites \/ WriterWriteFails
           \/ WriterRegisters \/ WriterHalfInserts \/ WriterThrows
           \/ WriterLogsException \/ WriterFinishes \/ WriterHalfCloses
  BY <1>1, <1>0, <1>a
  DEF WriterChecksRoom, SpuriousWakeup, WriterReads, WriterEof, WriterReadError,
      WriterWrites, WriterWriteFails, WriterRegisters, WriterHalfInserts,
      WriterThrows, WriterLogsException, WriterFinishes, WriterHalfCloses,
      Counted, Processed, Examining
<1>2. CASE ReaderReads
  <2>1. resp'.id = resp.id + 1
    BY <1>2, ReadsNext
  <2>2. rpc = "read" /\ rpc' = "lookup" /\ UNCHANGED <<verified, errors>>
    BY <1>2 DEF ReaderReads
  <2>3. Processed' = Processed
    BY <1>0, <2>1, <2>2 DEF Processed, Examining
  <2>4. QED
    BY <2>2, <2>3 DEF Counted
<1>3. CASE ReaderFindsRequest
  BY <1>3, <1>0, <1>a
  DEF ReaderFindsRequest, Counted, Processed, Examining
<1>4. CASE ReaderFindsOrphan
  BY <1>4, <1>0, <1>a
  DEF ReaderFindsOrphan, ReaderLogs, Counted, Processed, Examining
<1>5. CASE ReaderVerifies
  <2>1. rpc = "verify" /\ UNCHANGED resp
    BY <1>5 DEF ReaderVerifies
  <2>2. Processed = resp.id - 1
    BY <2>1 DEF Processed, Examining
  <2>3. CASE resp.data = Reversed(entry)
    <3>1. /\ verified' = Append(verified, resp.id) /\ rpc' = "read"
          /\ UNCHANGED errors
      BY <1>5, <2>3 DEF ReaderVerifies
    <3>2. verified \in Seq(1..NumChunks)
      BY DEF Inv, TypeOK
    <3>3. /\ Len(verified') = Len(verified) + 1
          /\ \A i \in 1..Len(verified) : verified'[i] = verified[i]
          /\ verified'[Len(verified) + 1] = resp.id
      BY <1>0, <3>1, <3>2
    <3>4. \A i \in 1..Len(verified') :
            i \in 1..Len(verified) \/ i = Len(verified) + 1
      BY <1>0, <3>3
    <3>5. Processed' = resp.id
      BY <2>1, <3>1 DEF Processed, Examining
    <3>6. QED
      BY <1>0, <2>2, <3>1, <3>3, <3>4, <3>5 DEF Counted
  <2>4. CASE resp.data # Reversed(entry)
    <3>1. UNCHANGED verified /\ rpc' \in {"read", "aborted"}
      BY <1>5, <2>4 DEF ReaderVerifies, ReaderLogs
    <3>2. Processed' = resp.id
      BY <2>1, <3>1 DEF Processed, Examining
    <3>3. QED
      BY <1>0, <2>2, <3>1, <3>2 DEF Counted
  <2>5. QED
    BY <2>3, <2>4
<1>6. CASE ReaderThrows
  BY <1>6, <1>0, <1>a
  DEF ReaderThrows, Counted, Processed, Examining
<1>7. CASE ReaderLogsException
  BY <1>7, <1>0, <1>a
  DEF ReaderLogsException, ReaderLogs, Counted, Processed, Examining
<1>8. CASE Start \/ StartFails \/ ReaderReadEnds \/ ReaderNotifies
           \/ ReaderJoins \/ ReaderFinishes
  BY <1>8, <1>0, <1>a
  DEF Start, StartFails, ReaderReadEnds, ReaderNotifies, ReaderJoins,
      ReaderFinishes, Verdict, FinalErrors, Counted, Processed, Examining
<1>9. CASE ServerAccepts \/ ServerReads \/ ServerReadEnds \/ ServerWrites
           \/ ServerWriteFails \/ CallBreaks
  BY <1>9, <1>0, <1>a
  DEF ServerAccepts, ServerReads, ServerReadEnds, ServerWrites,
      ServerWriteFails, CallBreaks, Counted, Processed, Examining
<1>10. CASE UNCHANGED vars
  BY <1>10 DEF vars, Counted, Processed, Examining
<1>11. QED
  BY <1>1, <1>2, <1>3, <1>4, <1>5, <1>6, <1>7, <1>8, <1>9, <1>10
  DEF Next, WriterStep, ReaderStep, ServerStep, Fault, Ended

(* A verified chunk stays out of the map.                                     *)
LEMMA ErasedStep ==
  ASSUME Inv, Erased, [Next]_vars
  PROVE  Erased'
<1> USE DEF writerVars, mapVars, readerVars, serverVars, netVars
<1>0. resp.id \in Nat /\ sent \in Nat
  BY DEF Inv, TypeOK, Chunk
<1>a. /\ verified \in Seq(1..NumChunks) /\ Len(verified) \in Nat
      /\ \A i \in 1..Len(verified) : verified[i] \in Nat
  <2>1. verified \in Seq(1..NumChunks) /\ NumChunks \in Nat
    BY NumChunksAssumption DEF Inv, TypeOK
  <2>2. QED
    BY <2>1
<1>b. resp.id <= sent /\ (wpc = "register" => sent \notin inflight)
  BY <1>0 DEF Inv, TypeOK, InStep, Answered, Slots
<1>1. CASE WriterWrites
  <2>1. /\ sent' = sent + 1 /\ wpc' = "register"
        /\ UNCHANGED <<inflight, resp, rpc, verified>>
    BY <1>1 DEF WriterWrites
  <2>2. QED
    BY <1>0, <1>a, <1>b, <2>1 DEF Erased, Processed, Examining
<1>2. CASE WriterRegisters \/ WriterHalfInserts
  <2>1. /\ wpc = "register" /\ wpc' # "register"
        /\ inflight' = inflight \cup {sent}
        /\ UNCHANGED <<resp, rpc, verified>>
    BY <1>2 DEF WriterRegisters, WriterHalfInserts
  <2>2. QED
    BY <1>0, <1>a, <2>1 DEF Erased, Processed, Examining
<1>3. CASE WriterChecksRoom \/ SpuriousWakeup \/ WriterReads \/ WriterEof
           \/ WriterReadError \/ WriterWriteFails
           \/ WriterThrows \/ WriterLogsException \/ WriterFinishes
           \/ WriterHalfCloses
  BY <1>3, <1>0, <1>a
  DEF WriterChecksRoom, SpuriousWakeup, WriterReads, WriterEof, WriterReadError,
      WriterWriteFails, WriterThrows, WriterLogsException,
      WriterFinishes, WriterHalfCloses, Erased, Processed, Examining
<1>4. CASE ReaderReads
  <2>1. resp'.id = resp.id + 1
    BY <1>4, ReadsNext
  <2>2. rpc' = "lookup" /\ UNCHANGED <<wpc, sent, inflight, verified>>
    BY <1>4 DEF ReaderReads
  <2>3. QED
    BY <1>0, <1>a, <2>1, <2>2 DEF Erased, Processed, Examining
<1>5. CASE ReaderFindsRequest
  <2>1. resp.id \in inflight /\ inflight' = inflight \ {resp.id}
        /\ rpc = "lookup" /\ rpc' = "matched"
        /\ UNCHANGED <<wpc, sent, resp, verified>>
    BY <1>5 DEF ReaderFindsRequest
  <2>2. wpc = "register" => resp.id < sent
    BY <1>0, <1>b, <2>1
  <2>3. QED
    BY <1>0, <1>a, <2>1, <2>2 DEF Erased, Processed, Examining
<1>6. CASE ReaderVerifies
  <2>1. rpc = "verify" /\ rpc' \notin {"lookup", "matched", "verify"}
        /\ UNCHANGED <<sent, inflight, resp>>
    BY <1>6 DEF ReaderVerifies, ReaderLogs
  <2>2. wpc' = "register" => wpc = "register"
    BY <1>6 DEF ReaderVerifies, ReaderLogs
  <2>3. CASE verified' = verified
    BY <1>0, <1>a, <2>1, <2>2, <2>3 DEF Erased, Processed, Examining
  <2>4. CASE verified' = Append(verified, resp.id)
    <3>1. /\ Len(verified') = Len(verified) + 1
          /\ \A i \in 1..Len(verified) : verified'[i] = verified[i]
          /\ verified'[Len(verified) + 1] = resp.id
      BY <1>0, <1>a, <2>4
    <3>2. \A i \in 1..Len(verified') :
            i \in 1..Len(verified) \/ i = Len(verified) + 1
      BY <1>a, <3>1
    <3>3. Processed = resp.id - 1 /\ Processed' = resp.id
      BY <1>0, <2>1 DEF Processed, Examining
    <3>4. resp.id \notin inflight /\ (wpc = "register" => resp.id < sent)
      BY <2>1 DEF Erased
    <3>5. \A i \in 1..Len(verified) : verified[i] <= Processed'
      BY <1>0, <1>a, <3>3 DEF Erased
    <3>6. QED
      BY <1>0, <2>1, <2>2, <3>1, <3>2, <3>3, <3>4, <3>5 DEF Erased
  <2>5. QED
    BY <1>6, <2>3, <2>4 DEF ReaderVerifies
<1>7. CASE Start \/ StartFails \/ ReaderReadEnds \/ ReaderFindsOrphan
           \/ ReaderNotifies \/ ReaderThrows \/ ReaderLogsException
           \/ ReaderJoins \/ ReaderFinishes
  BY <1>7, <1>0, <1>a
  DEF Start, StartFails, ReaderReadEnds, ReaderFindsOrphan, ReaderNotifies,
      ReaderThrows, ReaderLogsException, ReaderJoins, ReaderFinishes,
      ReaderLogs, Verdict, FinalErrors, Erased, Processed, Examining
<1>8. CASE ServerAccepts \/ ServerReads \/ ServerReadEnds \/ ServerWrites
           \/ ServerWriteFails \/ CallBreaks
  BY <1>8, <1>0, <1>a
  DEF ServerAccepts, ServerReads, ServerReadEnds, ServerWrites,
      ServerWriteFails, CallBreaks, Erased, Processed, Examining
<1>9. CASE UNCHANGED vars
  BY <1>9 DEF vars, Erased, Processed, Examining
<1>10. QED
  BY <1>1, <1>2, <1>3, <1>4, <1>5, <1>6, <1>7, <1>8, <1>9
  DEF Next, WriterStep, ReaderStep, ServerStep, Fault, Ended

(* Each of the other errors is kept apart from a success.                     *)
LEMMA BlamedStep ==
  ASSUME Joined, Blamed, [Next]_vars
  PROVE  Blamed'
<1> USE DEF writerVars, mapVars, readerVars, serverVars, netVars
<1>1. CASE WriterRegisters \/ WriterHalfInserts
  BY <1>1
  DEF WriterRegisters, WriterHalfInserts, Blamed, Joined, NoUseAfterScope
<1>2. CASE WriterChecksRoom \/ SpuriousWakeup \/ WriterReads \/ WriterEof
           \/ WriterReadError \/ WriterWrites \/ WriterWriteFails
           \/ WriterThrows \/ WriterLogsException
           \/ WriterFinishes \/ WriterHalfCloses
  BY <1>2
  DEF WriterChecksRoom, SpuriousWakeup, WriterReads, WriterEof, WriterReadError,
      WriterWrites, WriterWriteFails, WriterThrows, WriterLogsException,
      WriterFinishes, WriterHalfCloses, Blamed, Joined, NoUseAfterScope
<1>3. CASE ReaderFinishes
  BY <1>3
  DEF ReaderFinishes, Verdict, FinalErrors, Blamed, Joined, NoUseAfterScope
<1>4. CASE Start \/ StartFails \/ ReaderReads \/ ReaderReadEnds
           \/ ReaderFindsRequest \/ ReaderFindsOrphan \/ ReaderNotifies
           \/ ReaderVerifies \/ ReaderThrows \/ ReaderLogsException
           \/ ReaderJoins
  BY <1>4
  DEF Start, StartFails, ReaderReads, ReaderReadEnds, ReaderFindsRequest,
      ReaderFindsOrphan, ReaderNotifies, ReaderVerifies, ReaderThrows,
      ReaderLogsException, ReaderJoins, ReaderLogs, Blamed, Joined,
      NoUseAfterScope
<1>5. CASE ServerAccepts \/ ServerReads \/ ServerReadEnds \/ ServerWrites
           \/ ServerWriteFails \/ CallBreaks
  BY <1>5
  DEF ServerAccepts, ServerReads, ServerReadEnds, ServerWrites,
      ServerWriteFails, CallBreaks, Blamed, Joined, NoUseAfterScope
<1>6. CASE UNCHANGED vars
  BY <1>6 DEF vars, Blamed, Joined, NoUseAfterScope
<1>7. QED
  BY <1>1, <1>2, <1>3, <1>4, <1>5, <1>6
  DEF Next, WriterStep, ReaderStep, ServerStep, Fault, Ended

(* No way out of ProcessFile is silent.                                       *)
LEMMA AccountedStep ==
  ASSUME Accounted, [Next]_vars
  PROVE  Accounted'
<1> USE DEF Accounted, NoSilentFailure, writerVars, mapVars, readerVars,
            serverVars, netVars
<1>1. CASE WriterChecksRoom \/ SpuriousWakeup \/ WriterReads \/ WriterEof
           \/ WriterReadError \/ WriterWrites \/ WriterWriteFails
           \/ WriterRegisters \/ WriterHalfInserts \/ WriterThrows
           \/ WriterLogsException \/ WriterFinishes \/ WriterHalfCloses
  BY <1>1
  DEF WriterChecksRoom, SpuriousWakeup, WriterReads, WriterEof, WriterReadError,
      WriterWrites, WriterWriteFails, WriterRegisters, WriterHalfInserts,
      WriterThrows, WriterLogsException, WriterFinishes, WriterHalfCloses
<1>2. CASE ReaderFinishes
  BY <1>2 DEF ReaderFinishes, Verdict, FinalErrors
<1>3. CASE Start \/ StartFails \/ ReaderReads \/ ReaderReadEnds
           \/ ReaderFindsRequest \/ ReaderFindsOrphan \/ ReaderNotifies
           \/ ReaderVerifies \/ ReaderThrows \/ ReaderLogsException
           \/ ReaderJoins
  BY <1>3
  DEF Start, StartFails, ReaderReads, ReaderReadEnds, ReaderFindsRequest,
      ReaderFindsOrphan, ReaderNotifies, ReaderVerifies, ReaderThrows,
      ReaderLogsException, ReaderJoins, ReaderLogs
<1>4. CASE ServerAccepts \/ ServerReads \/ ServerReadEnds \/ ServerWrites
           \/ ServerWriteFails \/ CallBreaks
  BY <1>4
  DEF ServerAccepts, ServerReads, ServerReadEnds, ServerWrites,
      ServerWriteFails, CallBreaks
<1>5. CASE UNCHANGED vars
  BY <1>5 DEF vars
<1>6. QED
  BY <1>1, <1>2, <1>3, <1>4, <1>5
  DEF Next, WriterStep, ReaderStep, ServerStep, Fault, Ended

-----------------------------------------------------------------------------
(* Steps towards the contract.                                                *)

(* After the end of ProcessFile nothing of the contract changes.              *)
LEMMA EndIsFinal ==
  ASSUME Joined, Blamed, rpc \in {"done", "aborted"}, [Next]_vars
  PROVE  sent' = sent /\ verified' = verified /\ Outcome' = Outcome
<1> USE DEF writerVars, mapVars, readerVars, serverVars, netVars
<1>1. CASE WriterChecksRoom \/ SpuriousWakeup \/ WriterReads \/ WriterEof
           \/ WriterReadError \/ WriterWrites \/ WriterWriteFails
           \/ WriterRegisters \/ WriterHalfInserts \/ WriterThrows
           \/ WriterLogsException \/ WriterFinishes \/ WriterHalfCloses
  BY <1>1
  DEF WriterChecksRoom, SpuriousWakeup, WriterReads, WriterEof, WriterReadError,
      WriterWrites, WriterWriteFails, WriterRegisters, WriterHalfInserts,
      WriterThrows, WriterLogsException, WriterFinishes, WriterHalfCloses,
      Outcome, Joined, NoUseAfterScope
<1>2. CASE Start \/ StartFails \/ ReaderReads \/ ReaderReadEnds
           \/ ReaderFindsRequest \/ ReaderFindsOrphan \/ ReaderNotifies
           \/ ReaderVerifies \/ ReaderThrows \/ ReaderLogsException
           \/ ReaderJoins \/ ReaderFinishes
  BY <1>2
  DEF Start, StartFails, ReaderReads, ReaderReadEnds, ReaderFindsRequest,
      ReaderFindsOrphan, ReaderNotifies, ReaderVerifies, ReaderThrows,
      ReaderLogsException, ReaderJoins, ReaderFinishes, ReaderLogs, Verdict,
      FinalErrors, Outcome, Joined, NoUseAfterScope
<1>3. CASE ServerAccepts \/ ServerReads \/ ServerReadEnds \/ ServerWrites
           \/ ServerWriteFails \/ CallBreaks
  BY <1>3
  DEF ServerAccepts, ServerReads, ServerReadEnds, ServerWrites,
      ServerWriteFails, CallBreaks, Outcome, Joined, NoUseAfterScope
<1>4. CASE UNCHANGED vars
  BY <1>4 DEF vars, Outcome, Joined, NoUseAfterScope
<1>5. QED
  BY <1>1, <1>2, <1>3, <1>4
  DEF Next, WriterStep, ReaderStep, ServerStep, Fault, Ended

(* A step sends one chunk at most, or verifies one at most.                   *)
LEMMA OneMove ==
  ASSUME [Next]_vars
  PROVE  /\ sent' \in {sent, sent + 1}
         /\ \/ verified' = verified
            \/ ReaderVerifies /\ verified' = Append(verified, resp.id)
<1> USE DEF writerVars, mapVars, readerVars, serverVars, netVars
<1>1. CASE WriterChecksRoom \/ SpuriousWakeup \/ WriterReads \/ WriterEof
           \/ WriterReadError \/ WriterWrites \/ WriterWriteFails
           \/ WriterRegisters \/ WriterHalfInserts \/ WriterThrows
           \/ WriterLogsException \/ WriterFinishes \/ WriterHalfCloses
  BY <1>1
  DEF WriterChecksRoom, SpuriousWakeup, WriterReads, WriterEof, WriterReadError,
      WriterWrites, WriterWriteFails, WriterRegisters, WriterHalfInserts,
      WriterThrows, WriterLogsException, WriterFinishes, WriterHalfCloses
<1>2. CASE Start \/ StartFails \/ ReaderReads \/ ReaderReadEnds
           \/ ReaderFindsRequest \/ ReaderFindsOrphan \/ ReaderNotifies
           \/ ReaderVerifies \/ ReaderThrows \/ ReaderLogsException
           \/ ReaderJoins \/ ReaderFinishes
  BY <1>2
  DEF Start, StartFails, ReaderReads, ReaderReadEnds, ReaderFindsRequest,
      ReaderFindsOrphan, ReaderNotifies, ReaderVerifies, ReaderThrows,
      ReaderLogsException, ReaderJoins, ReaderFinishes, ReaderLogs, Verdict,
      FinalErrors
<1>3. CASE ServerAccepts \/ ServerReads \/ ServerReadEnds \/ ServerWrites
           \/ ServerWriteFails \/ CallBreaks
  BY <1>3
  DEF ServerAccepts, ServerReads, ServerReadEnds, ServerWrites,
      ServerWriteFails, CallBreaks
<1>4. CASE UNCHANGED vars
  BY <1>4 DEF vars
<1>5. QED
  BY <1>1, <1>2, <1>3, <1>4
  DEF Next, WriterStep, ReaderStep, ServerStep, Fault, Ended

-----------------------------------------------------------------------------
(* The invariant, and the properties that follow from it.                     *)

LEMMA InvInit == Init => IInv
<1> SUFFICES ASSUME Init
             PROVE  IInv
  OBVIOUS
<1>1. NoResponse \in Chunk /\ NoResponse.id = 0
  BY MessageTypes
<1>2. TypeOK
  BY TypeInit
<1>3. resp.id = 0 /\ Len(s2c) = 0 /\ Len(c2s) = 0 /\ Len(verified) = 0
  BY <1>1 DEF Init
<1>4. InStep
  BY <1>3 DEF Init, InStep, Examining, Answered, Taken
<1>5. Slots
  BY FS_EmptySet, MaxInflightAssumption DEF Init, Slots, MapBounded
<1>6. Registered
  BY <1>3 DEF Init, Registered, Unanswered
<1>7. Counted /\ Erased
  BY <1>3 DEF Init, Counted, Erased, Processed, Examining
<1>8. NoLostWakeup /\ Joined /\ Blamed /\ Accounted
  BY DEF Init, NoLostWakeup, Joined, NoUseAfterScope, Blamed, Accounted,
     NoSilentFailure
<1>a. Faithful
  BY DEF Init, Faithful, Examining, BlameMeansHalfInserted
<1>9. QED
  BY <1>2, <1>4, <1>5, <1>6, <1>7, <1>8, <1>a DEF IInv, Inv

LEMMA InvStep == IInv /\ [Next]_vars => IInv'
<1> SUFFICES ASSUME IInv, [Next]_vars
             PROVE  IInv'
  OBVIOUS
<1>1. /\ Inv /\ NoLostWakeup /\ Joined /\ Faithful
      /\ Counted /\ Erased /\ Blamed /\ Accounted
  BY DEF IInv
<1>2. Inv'
  BY <1>1, TypeStep, InStepStep, SlotsStep, RegisteredStep DEF Inv
<1>3. NoLostWakeup' /\ Joined' /\ Faithful'
  BY <1>1, WakeupStep, JoinedStep, FaithfulStep
<1>4. Counted' /\ Erased' /\ Blamed' /\ Accounted'
  BY <1>1, CountedStep, ErasedStep, BlamedStep, AccountedStep
<1>5. QED
  BY <1>2, <1>3, <1>4 DEF IInv

(* The inductive invariant holds in every state of every run.                 *)
THEOREM Invariance == Spec => []IInv
  BY InvInit, InvStep, PTL DEF Spec

(* Every variable keeps its type: the writer never runs past the end of the   *)
(* file, and no id outside of the file gets into the map.                     *)
THEOREM TypeCorrectness == Spec => []TypeOK
<1>1. IInv => TypeOK
  BY DEF IInv, Inv
<1>2. QED
  BY <1>1, Invariance, PTL

(* The map never outgrows MAX_INFLIGHT_REQUESTS, whatever the limit.          *)
THEOREM MapIsBounded == Spec => []MapBounded
<1>1. IInv => MapBounded
  BY DEF IInv, Inv, Slots
<1>2. QED
  BY <1>1, Invariance, PTL

(* notify_one after the unlock loses no wakeup.                               *)
THEOREM WakeupsAreKept == Spec => []NoLostWakeup
<1>1. IInv => NoLostWakeup
  BY DEF IInv
<1>2. QED
  BY <1>1, Invariance, PTL

(* The scope that the writer thread refers to outlives it.                    *)
THEOREM ScopeOutlivesWriter == Spec => []NoUseAfterScope
<1>1. IInv => NoUseAfterScope
  BY DEF IInv, Joined
<1>2. QED
  BY <1>1, Invariance, PTL

(* Only the last request written can miss its entry in the map.               *)
THEOREM OnlyTheLastIsOrphaned == Spec => []OrphanIsUnregistered
<1>1. IInv => OrphanIsUnregistered
  <2> SUFFICES ASSUME IInv, rpc = "lookup", resp.id \notin inflight
               PROVE  /\ resp.id = sent
                      /\ wpc \notin {"wait_slot", "blocked", "read", "write"}
    BY DEF OrphanIsUnregistered
  <2>1. resp.id \in Nat /\ sent \in Nat /\ Len(s2c) \in Nat
    BY DEF IInv, Inv, TypeOK, Chunk
  <2>2. resp.id \in Unanswered
    BY <2>1 DEF IInv, Inv, InStep, Answered, Unanswered
  <2>3. QED
    BY <2>1, <2>2 DEF IInv, Inv, Registered, Unanswered
<1>2. QED
  BY <1>1, Invariance, PTL

(* A response is blamed only for an entry that an exception left without its  *)
(* data; it is then the last one, and the writer gives up the stream.         *)
THEOREM BlameIsHalfInserted == Spec => []BlameMeansHalfInserted
<1>1. IInv => BlameMeansHalfInserted
  BY DEF IInv, Faithful
<1>2. QED
  BY <1>1, Invariance, PTL

(* A success was reached on a path on which nothing went wrong.               *)
LEMMA SuccessMeans == IInv => SuccessMeansVerified
<1> SUFFICES ASSUME IInv, report = "success"
             PROVE  /\ verified = [id \in 1..NumChunks |-> id]
                    /\ inflight = {}
                    /\ errors = {}
  BY DEF SuccessMeansVerified
<1>1. /\ NumChunks \in Nat /\ resp.id \in Nat /\ sent \in Nat
      /\ Len(s2c) \in Nat /\ sent <= NumChunks
  BY NumChunksAssumption DEF IInv, Inv, TypeOK, Chunk
<1>2. verified \in Seq(1..NumChunks) /\ inflight \subseteq 1..NumChunks
  BY DEF IInv, Inv, TypeOK
<1>3. rpc = "done" /\ ~broken /\ Len(verified) = NumChunks
  BY DEF IInv, Blamed
<1>4. Processed = resp.id
  BY <1>3 DEF Processed, Examining
<1>5. Len(verified) = Processed
  BY <1>1, <1>3, <1>4 DEF IInv, Inv, InStep, Answered, Counted
<1>6. \A i \in 1..NumChunks : verified[i] = i
  BY <1>3, <1>5 DEF IInv, Counted
<1>7. verified = [id \in 1..NumChunks |-> id]
  BY <1>2, <1>3, <1>6
<1>8. inflight = {}
  BY <1>2, <1>3, <1>6 DEF IInv, Erased
<1>9. errors = {}
  <2>1. errors \cap {"orphan", "mismatch", "reader_exception"} = {}
    BY <1>1, <1>4, <1>5 DEF IInv, Counted
  <2>2. errors \cap {"writer_exception", "left_in_map"} = {}
    BY <1>3, <1>8 DEF IInv, Blamed
  <2>3. errors \cap {"start", "rpc", "data_loss"} = {}
    BY DEF IInv, Blamed
  <2>4. errors \subseteq {"start", "writer_exception", "orphan", "mismatch",
                          "reader_exception", "left_in_map", "rpc", "data_loss"}
    BY DEF IInv, Inv, TypeOK
  <2>5. QED
    BY <2>1, <2>2, <2>3, <2>4
<1>10. QED
  BY <1>7, <1>8, <1>9

(* ProcessFile's message of success is true.                                  *)
THEOREM SuccessIsTrue == Spec => []SuccessMeansVerified
  BY SuccessMeans, Invariance, PTL

(* A ProcessFile that returns without that message has logged an error, for   *)
(* every way out of it, and even when two calls of log_error at once lose one *)
(* entry.                                                                     *)
THEOREM FailureIsLogged == Spec => []NoSilentFailure
<1>1. IInv => NoSilentFailure
  BY DEF IInv, Accounted
<1>2. QED
  BY <1>1, Invariance, PTL

(* Responses are read in the order in which the chunks were written, each     *)
(* once.                                                                      *)
THEOREM ResponsesInOrder == Spec => ReadInOrder
<1>1. ASSUME IInv, [Next]_vars
      PROVE  [rpc = "read" /\ rpc' = "lookup" =>
                resp'.id = resp.id + 1 /\ resp'.id <= sent]_vars
  <2>1. CASE ReaderReads
    <3>1. resp'.id = resp.id + 1
      BY <1>1, <2>1, ReadsNext DEF IInv
    <3>2. resp.id \in Nat /\ sent \in Nat /\ Len(s2c) \in Nat /\ Len(s2c) >= 1
      BY <1>1, <2>1 DEF IInv, Inv, TypeOK, Chunk, ReaderReads
    <3>3. resp.id + Len(s2c) <= sent
      BY <1>1 DEF IInv, Inv, InStep, Answered
    <3>4. QED
      BY <3>1, <3>2, <3>3
  <2>2. CASE ~ReaderReads
    <3>1. ~ (rpc = "read" /\ rpc' = "lookup")
      BY <2>2, <1>1
      DEF Next, WriterStep, ReaderStep, ServerStep, Fault, Ended, vars,
          writerVars, mapVars, readerVars, serverVars, netVars, Start,
          StartFails, WriterChecksRoom, SpuriousWakeup, WriterReads, WriterEof,
          WriterReadError, WriterWrites, WriterWriteFails, WriterRegisters,
          WriterHalfInserts, WriterThrows, WriterLogsException, WriterFinishes,
          WriterHalfCloses, ReaderReadEnds, ReaderFindsRequest,
          ReaderFindsOrphan, ReaderNotifies, ReaderVerifies, ReaderThrows,
          ReaderLogsException, ReaderJoins, ReaderFinishes, ServerAccepts,
          ServerReads, ServerReadEnds, ServerWrites, ServerWriteFails,
          CallBreaks
    <3>2. QED
      BY <3>1
  <2>3. QED
    BY <2>1, <2>2
<1>2. QED
  BY <1>1, Invariance, PTL DEF Spec, ReadInOrder

(* The client with its two threads implements the contract that all the       *)
(* benchmarks share.                                                          *)
THEOREM ImplementsEcho == Spec => EchoSpec
<1>1. Init => Echo!Init
  BY DEF Init, Echo!Init, Outcome
<1>2. ASSUME IInv, IInv', [Next]_vars
      PROVE  [Echo!Next]_(Echo!vars)
  <2> SUFFICES ASSUME ~UNCHANGED <<sent, verified, Outcome>>
               PROVE  Echo!Next
    BY DEF Echo!vars
  <2>1. Outcome = "running"
    BY <1>2, EndIsFinal DEF IInv, Blamed, Outcome
  <2>2. sent' \in {sent, sent + 1} \cap 0..NumChunks
    BY <1>2, OneMove DEF IInv, Inv, TypeOK
  <2>3. Echo!Verify
    <3>1. CASE verified' = verified
      BY <3>1 DEF Echo!Verify
    <3>2. CASE ReaderVerifies /\ verified' = Append(verified, resp.id)
      <4>1. /\ resp.id \in Nat /\ sent \in Nat /\ Len(s2c) \in Nat
            /\ rpc = "verify"
        BY <1>2, <3>2 DEF IInv, Inv, TypeOK, Chunk, ReaderVerifies
      <4>2. resp.id \in 1..sent
        BY <1>2, <4>1 DEF IInv, Inv, InStep, Examining, Answered
      <4>3. \A i \in 1..Len(verified) : verified[i] <= resp.id - 1
        BY <1>2, <4>1 DEF IInv, Erased, Processed, Examining
      <4>4. verified \in Seq(Nat) /\ Len(verified) \in Nat
        BY <1>2, NumChunksAssumption DEF IInv, Inv, TypeOK
      <4>5. resp.id > Echo!LastVerified
        BY <4>1, <4>2, <4>3, <4>4 DEF Echo!LastVerified
      <4>6. QED
        BY <3>2, <4>2, <4>5 DEF Echo!Verify
    <3>3. QED
      BY <1>2, <3>1, <3>2, OneMove
  <2>4. Echo!Conclude
    <3>1. Outcome' \in {"running", "complete", "incomplete"}
      BY DEF Outcome
    <3>2. Outcome' = "complete" => report' = "success"
      BY DEF Outcome
    <3>3. report' = "success" => verified' = [id \in 1..NumChunks |-> id]
      <4>1. SuccessMeansVerified'
        BY <1>2, SuccessMeans, PTL
      <4>2. QED
        BY <4>1 DEF SuccessMeansVerified
    <3>4. QED
      BY <3>1, <3>2, <3>3 DEF Echo!Conclude
  <2>5. QED
    BY <2>1, <2>2, <2>3, <2>4 DEF Echo!Next, Echo!Send
<1>3. QED
  BY <1>1, <1>2, Invariance, PTL DEF Spec, EchoSpec, Echo!Spec
=============================================================================
