--------------------------- MODULE TcpBenchmarkProofs ---------------------------
(* Proofs about TcpBenchmark, for every set of clients and every number of    *)
(* chunks.                                                                    *)
EXTENDS TcpBenchmark, FramingProofs

-----------------------------------------------------------------------------
(* The inductive invariant, client by client.                                 *)

Alive(c) == cpc[c] # "stopped"
Serving(c) == spc[c] \notin {"none", "closed"}
UnderWay(c) == cpc[c] \in {"write", "read_header", "read_body"}
Answer(c) == Reversed(chunk[c])

(* The chunk under way is the next one of the file, or the part of it that a  *)
(* failing read got.                                                          *)
FullSent(c) ==
  /\ ~eof[c] /\ sent[c] = nread[c] /\ nread[c] = chunksSent[c] + 1
  /\ chunk[c] = Payload(nread[c])
PartSent(c) ==
  /\ eof[c] /\ nread[c] = chunksSent[c] /\ nread[c] < NumChunks
  /\ Len(chunk[c]) = 1

(* The bookkeeping of the chain of handlers.                                  *)
Counting(c) ==
  /\ \A i \in 1..Len(verified[c]) : verified[c][i] = i
  /\ cpc[c] \in {"resolve", "connect", "connected"} =>
       ~eof[c] /\ nread[c] = 0 /\ sent[c] = 0 /\ chunksSent[c] = 0 /\ verified[c] = << >>
  /\ UnderWay(c) => Len(verified[c]) = chunksSent[c] /\ (FullSent(c) \/ PartSent(c))
  /\ result[c] = "ok" =>
       Len(verified[c]) = nread[c] /\ (ReadFailed(c) \/ nread[c] = NumChunks)
  /\ Alive(c) <=> result[c] = "running"

(* The connection is what its two ends have made of it.                       *)
Ends(c) ==
  /\ "client" \in fin[c] <=> ~Alive(c)
  /\ "server" \in fin[c] <=> spc[c] = "closed"
  /\ spc[c] = "closed" => server # "running" \/ ~Alive(c)
  /\ server # "running" => ~Serving(c)
  /\ cpc[c] \in {"resolve", "connect"} => spc[c] = "none"
  /\ cpc[c] = "connected" => spc[c] # "none"
  /\ spc[c] = "none" =>
       /\ cpc[c] \in {"resolve", "connect", "stopped"} /\ result[c] # "ok"
       /\ ~reset[c] /\ up[c] = << >> /\ down[c] = << >>

(* What the streams hold, whichever of the two ends is left.                  *)
Awaited(c) ==
  \/ up[c] = << >>
  \/ up[c] = Frame(chunk[c]) /\ Len(chunk[c]) \in 1..2
Streams(c) ==
  ~reset[c] =>
    /\ spc[c] \in {"backlog", "header", "write"} => Awaited(c)
    /\ spc[c] = "body" =>
         up[c] = chunk[c] /\ Len(sbody[c]) = Len(chunk[c]) /\ Len(chunk[c]) \in 1..2
    /\ cpc[c] = "connected" => up[c] = << >> /\ down[c] = << >> /\ spc[c] # "body"
    /\ cpc[c] \in {"write", "read_header"} => down[c] \in {<< >>, Frame(Answer(c))}
    /\ cpc[c] = "read_body" => down[c] = Answer(c) /\ cbody[c] = Len(chunk[c])
    /\ result[c] = "ok" /\ server = "running" =>
         up[c] = << >> /\ down[c] = << >> /\ spc[c] # "body"

(* While both are there, exactly one message is under way, once the client    *)
(* has run the handler of its connection.                                     *)
RequestUnderWay(c) ==
  cpc[c] \in {"write", "read_header"} /\ up[c] = Frame(chunk[c]) /\ down[c] = << >>
AnswerUnderWay(c) ==
  /\ up[c] = << >>
  /\ \/ cpc[c] \in {"write", "read_header"} /\ down[c] = Frame(Answer(c))
     \/ cpc[c] = "read_body"
Conversation(c) ==
  Alive(c) /\ Serving(c) /\ ~reset[c] =>
    /\ spc[c] = "backlog" => RequestUnderWay(c) \/ cpc[c] = "connected"
    /\ spc[c] = "header" =>
         RequestUnderWay(c) \/ AnswerUnderWay(c) \/ cpc[c] = "connected"
    /\ spc[c] = "write" => RequestUnderWay(c) \/ AnswerUnderWay(c)
    /\ spc[c] = "body" => cpc[c] \in {"write", "read_header"} /\ down[c] = << >>

(* Whose doing an end without success is, and a connection that was reset.    *)
Blame(c) ==
  /\ result[c] \in {"error", "exception"} =>
       spc[c] = "none" \/ reset[c] \/ server # "running"
  /\ result[c] = "exception" => spc[c] # "none" /\ reset[c] /\ sent[c] = 0
  /\ reset[c] /\ server = "running" => c \in cut \/ result[c] \notin {"running", "ok"}

ClientInv(c) ==
  Counting(c) /\ Ends(c) /\ Streams(c) /\ Conversation(c) /\ Blame(c)

IInv ==
  /\ TypeOK /\ SuccessHarmsNobody
  /\ \A c \in Clients : ClientInv(c)

-----------------------------------------------------------------------------
(* What SendNext comes to: the next chunk, a part of it, or the client's end. *)
SendsChunk(c, data) ==
  /\ nread[c] < NumChunks /\ ~eof[c]
  /\ cpc' = [cpc EXCEPT ![c] = "write"]
  /\ chunk' = [chunk EXCEPT ![c] = data]
  /\ sent' = [sent EXCEPT ![c] = sent[c] + 1]
  /\ up' = [up EXCEPT ![c] = up[c] \o Frame(data)]
  /\ UNCHANGED <<result, fin>>
SendsFull(c) ==
  /\ SendsChunk(c, Payload(nread[c] + 1))
  /\ eof' = [eof EXCEPT ![c] = FALSE]
  /\ nread' = [nread EXCEPT ![c] = nread[c] + 1]
SendsPart(c) ==
  /\ \E data \in Seq(Nat) : Len(data) = 1 /\ SendsChunk(c, data)
  /\ eof' = [eof EXCEPT ![c] = TRUE]
  /\ UNCHANGED nread
Finishes(c, count) ==
  /\ Stop(c, "ok")
  /\ \E data \in Seq(Nat) : chunk' = [chunk EXCEPT ![c] = data]
  /\ \/ UNCHANGED eof /\ (AllSent(count) \/ eof[c])
     \/ eof' = [eof EXCEPT ![c] = TRUE]
  /\ UNCHANGED <<nread, sent, up>>

LEMMA NextSends ==
  ASSUME TypeOK, NEW c \in Clients, NEW count \in Nat, SendNext(c, count)
  PROVE  SendsFull(c) \/ SendsPart(c) \/ Finishes(c, count)
<1> DEFINE n == nread[c] + 1
           part == SubSeq(Payload(n), 1, 1)
<1>1. nread[c] \in Nat /\ n \in Nat /\ chunk[c] \in Seq(Nat) /\ << >> \in Seq(Nat)
  BY NumChunksAssumption DEF TypeOK, Bytes
<1>2. Len(Payload(n)) = 2 /\ part \in Seq(Nat) /\ Len(part) = 1
  BY <1>1 DEF Payload
<1>3. Payload(n) # << >> /\ part # << >>
  <2>1. Len(Payload(n)) # Len(<< >>) /\ Len(part) # Len(<< >>)
    BY <1>2
  <2>2. QED
    BY <2>1, Apart
<1>4. CASE AllSent(count) \/ eof[c]
  <2>1. chunk' = [chunk EXCEPT ![c] = chunk[c]]
    BY <1>4 DEF SendNext, readerVars, TypeOK
  <2>2. QED
    BY <1>1, <1>4, <2>1 DEF SendNext, Finishes, readerVars
<1>5. CASE ~(AllSent(count) \/ eof[c])
  <2>1. PICK r \in ReadOutcomes(c) :
          /\ eof' = [eof EXCEPT ![c] = r.eof]
          /\ chunk' = [chunk EXCEPT ![c] = r.data]
          /\ nread' = [nread EXCEPT ![c] = nread[c] + (IF r.eof THEN 0 ELSE 1)]
          /\ IF r.data = << >>
             THEN Stop(c, "ok") /\ UNCHANGED <<sent, up>>
             ELSE /\ cpc' = [cpc EXCEPT ![c] = "write"]
                  /\ sent' = [sent EXCEPT ![c] = sent[c] + 1]
                  /\ up' = [up EXCEPT ![c] = up[c] \o Frame(r.data)]
                  /\ UNCHANGED <<result, fin>>
    BY <1>5 DEF SendNext
  <2>2. \/ nread[c] < NumChunks /\ r = [data |-> Payload(n), eof |-> FALSE]
        \/ r = [data |-> << >>, eof |-> TRUE]
        \/ nread[c] < NumChunks /\ r = [data |-> part, eof |-> TRUE]
    BY <1>1, NumChunksAssumption DEF ReadOutcomes
  <2>3. r.eof => nread' = nread
    BY <1>1, <2>1 DEF TypeOK
  <2>4. CASE nread[c] < NumChunks /\ r = [data |-> Payload(n), eof |-> FALSE]
    BY <1>3, <1>5, <2>1, <2>4 DEF SendsFull, SendsChunk
  <2>5. CASE r = [data |-> << >>, eof |-> TRUE]
    BY <1>1, <2>1, <2>3, <2>5 DEF Finishes
  <2>6. CASE nread[c] < NumChunks /\ r = [data |-> part, eof |-> TRUE]
    <3>1. SendsChunk(c, part)
      BY <1>3, <1>5, <2>1, <2>6 DEF SendsChunk
    <3>2. QED
      BY <1>2, <2>1, <2>3, <2>6, <3>1 DEF SendsPart
  <2>7. QED
    BY <2>2, <2>4, <2>5, <2>6
<1>6. QED
  BY <1>4, <1>5

-----------------------------------------------------------------------------
(* What is read: the chunk under way, whichever of the two ends reads it.     *)
LEMMA ChunkUnderWay ==
  ASSUME TypeOK, NEW c \in Clients, Counting(c), UnderWay(c)
  PROVE  Len(chunk[c]) \in 1..2 /\ chunk[c] \in Seq(Nat)
<1>1. nread[c] \in Nat /\ chunk[c] \in Seq(Nat)
  BY NumChunksAssumption DEF TypeOK, Bytes
<1>2. CASE FullSent(c)
  BY <1>1, <1>2, ChunkData DEF FullSent
<1>3. CASE PartSent(c)
  BY <1>1, <1>3 DEF PartSent
<1>4. QED
  BY <1>2, <1>3 DEF Counting

LEMMA SmallBody == \A n \in 1..2 : ~(n > MaxBody) /\ n # 0
BY DEF MaxBody

LEMMA HeaderReadIs ==
  ASSUME IInv, NEW c \in Clients, HeaderRead(c)
  PROVE  /\ cpc[c] = "read_header" /\ ~reset[c] /\ down[c] = Frame(Answer(c))
         /\ down' = [down EXCEPT ![c] = Answer(c)]
         /\ cbody' = [cbody EXCEPT ![c] = Len(chunk[c])] /\ Len(chunk[c]) \in 1..2
         /\ cpc' = [cpc EXCEPT ![c] = "read_body"]
         /\ UNCHANGED <<readerVars, chunksSent, verified, result, sessionVars, server, up,
                        fin, reset, cut>>
<1>1. TypeOK /\ Counting(c) /\ Streams(c)
  BY DEF IInv, ClientInv
<1>2. cpc[c] = "read_header" /\ ~reset[c] /\ HasBytes(down[c], HeaderSize)
  BY DEF HeaderRead
<1>3. Len(chunk[c]) \in 1..2 /\ FrameBytes(Answer(c)) /\ Len(Answer(c)) = Len(chunk[c])
  BY <1>1, <1>2, ChunkUnderWay, Framed DEF UnderWay, Answer
<1>4. down[c] = Frame(Answer(c))
  BY <1>1, <1>2, NoHeader DEF Streams
<1>5. ParseHeader(FirstBytes(down[c], HeaderSize)) = Len(chunk[c])
  BY <1>3, <1>4 DEF FrameBytes
<1>6. down' = [down EXCEPT ![c] = Answer(c)]
  BY <1>3, <1>4 DEF HeaderRead, FrameBytes
<1>7. ~(Len(chunk[c]) > MaxBody) /\ Len(chunk[c]) # 0
  BY <1>3, SmallBody, Zenon
<1>8. /\ cbody' = [cbody EXCEPT ![c] = Len(chunk[c])]
      /\ cpc' = [cpc EXCEPT ![c] = "read_body"]
      /\ UNCHANGED <<readerVars, chunksSent, verified, result, sessionVars, server, up,
                     fin, reset, cut>>
  BY <1>5, <1>7 DEF HeaderRead
<1>9. QED
  BY <1>2, <1>3, <1>4, <1>6, <1>8

LEMMA BodyReadIs ==
  ASSUME IInv, NEW c \in Clients, BodyRead(c)
  PROVE  /\ cpc[c] = "read_body" /\ ~reset[c] /\ down' = [down EXCEPT ![c] = << >>]
         /\ chunksSent' = [chunksSent EXCEPT ![c] = chunksSent[c] + 1]
         /\ verified' = [verified EXCEPT ![c] = VerifiedChunks(c)]
         /\ SendNext(c, chunksSent[c] + 1)
         /\ UNCHANGED <<cbody, sessionVars, server, reset, cut>>
<1>1. TypeOK /\ Counting(c) /\ Streams(c)
  BY DEF IInv, ClientInv
<1>2. cpc[c] = "read_body" /\ ~reset[c]
  BY DEF BodyRead
<1>3. Len(chunk[c]) \in 1..2 /\ FrameBytes(Answer(c)) /\ Len(Answer(c)) = Len(chunk[c])
  BY <1>1, <1>2, ChunkUnderWay, Framed DEF UnderWay, Answer
<1>4. down[c] = Answer(c) /\ cbody[c] = Len(chunk[c])
  BY <1>1, <1>2 DEF Streams
<1>5. FirstBytes(down[c], cbody[c]) = Answer(c) /\ WithoutFirst(down[c], cbody[c]) = << >>
  BY <1>3, <1>4 DEF FrameBytes
<1>6. Handle(c, Answer(c)) /\ down' = [down EXCEPT ![c] = << >>]
  BY <1>5 DEF BodyRead
<1>7. QED
  BY <1>2, <1>6 DEF BodyRead, Handle, Answer

LEMMA SessionReadsHeaderIs ==
  ASSUME IInv, NEW c \in Clients, SessionReadsHeader(c)
  PROVE  /\ spc[c] = "header" /\ ~reset[c] /\ up[c] = Frame(chunk[c]) /\ up[c] # << >>
         /\ Len(chunk[c]) \in 1..2
         /\ up' = [up EXCEPT ![c] = chunk[c]]
         /\ sbody' = [sbody EXCEPT ![c] = [i \in 1..Len(chunk[c]) |-> 0]]
         /\ spc' = [spc EXCEPT ![c] = "body"]
         /\ UNCHANGED <<clientVars, server, down, fin, reset, cut>>
<1>1. TypeOK /\ Streams(c) /\ chunk[c] \in Seq(Nat)
  BY DEF IInv, ClientInv, TypeOK, Bytes
<1>2. spc[c] = "header" /\ ~reset[c] /\ HasBytes(up[c], HeaderSize)
  BY DEF SessionReadsHeader
<1>3. up[c] = Frame(chunk[c]) /\ Len(chunk[c]) \in 1..2
  BY <1>1, <1>2, NoHeader DEF Streams, Awaited
<1>4. FrameBytes(chunk[c])
  BY <1>1, <1>3, Framed
<1>5. ParseHeader(FirstBytes(up[c], HeaderSize)) = Len(chunk[c]) /\ up[c] # << >>
  BY <1>3, <1>4 DEF FrameBytes
<1>6. up' = [up EXCEPT ![c] = chunk[c]]
  BY <1>3, <1>4 DEF SessionReadsHeader, FrameBytes
<1>7. ~(Len(chunk[c]) > MaxBody) /\ Len(chunk[c]) # 0
  BY <1>3, SmallBody, Zenon
<1>8. /\ sbody' = [sbody EXCEPT ![c] = [i \in 1..Len(chunk[c]) |-> 0]]
      /\ spc' = [spc EXCEPT ![c] = "body"]
      /\ UNCHANGED <<clientVars, server, down, fin, reset, cut>>
  BY <1>5, <1>7 DEF SessionReadsHeader
<1>9. QED
  BY <1>2, <1>3, <1>5, <1>6, <1>8

LEMMA SessionReadsBodyIs ==
  ASSUME IInv, NEW c \in Clients, SessionReadsBody(c)
  PROVE  /\ spc[c] = "body" /\ ~reset[c] /\ up[c] = chunk[c] /\ up[c] # << >>
         /\ up' = [up EXCEPT ![c] = << >>]
         /\ sbody' = [sbody EXCEPT ![c] = Answer(c)]
         /\ down' = [down EXCEPT ![c] = down[c] \o Frame(Answer(c))]
         /\ spc' = [spc EXCEPT ![c] = "write"]
         /\ UNCHANGED <<clientVars, server, fin, reset, cut>>
<1>1. TypeOK /\ Streams(c) /\ chunk[c] \in Seq(Nat)
  BY DEF IInv, ClientInv, TypeOK, Bytes
<1>2. spc[c] = "body" /\ ~reset[c]
  BY DEF SessionReadsBody
<1>3. up[c] = chunk[c] /\ Len(sbody[c]) = Len(chunk[c]) /\ Len(chunk[c]) \in 1..2
  BY <1>1, <1>2 DEF Streams
<1>4. FrameBytes(chunk[c])
  BY <1>1, <1>3, Framed
<1>5. /\ FirstBytes(up[c], Len(sbody[c])) = chunk[c]
      /\ WithoutFirst(up[c], Len(sbody[c])) = << >> /\ up[c] # << >>
  BY <1>3, <1>4 DEF FrameBytes
<1>6. QED
  BY <1>2, <1>3, <1>5 DEF SessionReadsBody, Answer

(* How a session ends: alone, or with the server.                             *)
LEMMA SessionEndIs ==
  ASSUME IInv, NEW c \in Clients, Accepted(c) \/ SessionOperationFails(c)
  PROVE  /\ UNCHANGED <<clientVars, sbody, up, down, reset, cut>> /\ Serving(c)
         /\ \/ reset[c] /\ ServerGoes("crashed")
            \/ /\ ~reset[c] /\ spc[c] = "backlog" /\ spc' = [spc EXCEPT ![c] = "header"]
               /\ UNCHANGED <<server, fin>>
            \/ /\ ~reset[c] /\ ~Alive(c) /\ spc' = [spc EXCEPT ![c] = "closed"]
               /\ fin' = [fin EXCEPT ![c] = fin[c] \cup {"server"}]
               /\ UNCHANGED server
<1>1. Ends(c)
  BY DEF IInv, ClientInv
<1>2. CASE Accepted(c)
  BY <1>2 DEF Accepted, Serving
<1>3. CASE SessionOperationFails(c)
  BY <1>1, <1>3 DEF SessionOperationFails, SessionEnds, Ends, Serving
<1>4. QED
  BY <1>2, <1>3

-----------------------------------------------------------------------------
(* Types.                                                                     *)
LEMMA Start == Init => IInv
<1> SUFFICES ASSUME Init PROVE IInv
  OBVIOUS
<1>1. << >> \in Seq(Nat) /\ << >> \in Seq(1..NumChunks) /\ 0 \in 0..NumChunks
  BY NumChunksAssumption
<1>2. TypeOK
  BY <1>1 DEF Init, TypeOK, Bytes, MaxBody
<1>3. ASSUME NEW c \in Clients
      PROVE  ClientInv(c)
  <2>1. Counting(c)
    BY <1>3 DEF Init, Counting, Alive, UnderWay
  <2>2. Ends(c) /\ Streams(c) /\ Conversation(c) /\ Blame(c)
    BY <1>3 DEF Init, Ends, Streams, Conversation, Blame, Alive, Serving
  <2>3. QED
    BY <2>1, <2>2 DEF ClientInv
<1>4. QED
  BY <1>2, <1>3 DEF IInv, Init, SuccessHarmsNobody

Stages == {"resolve", "connect", "connected", "write", "read_header", "read_body", "stopped"}
Results == {"running", "ok", "error", "unresolved", "exception", "killed"}

(* The types of what SendNext sets.                                           *)
SendTypes ==
  /\ cpc' \in [Clients -> Stages]
  /\ chunk' \in [Clients -> Seq(Nat)] /\ eof' \in [Clients -> BOOLEAN]
  /\ nread' \in [Clients -> 0..NumChunks] /\ sent' \in [Clients -> 0..NumChunks]
  /\ result' \in [Clients -> Results]
  /\ up' \in [Clients -> Seq(Nat)] /\ fin' \in [Clients -> SUBSET {"client", "server"}]

LEMMA StopTypes ==
  ASSUME TypeOK, NEW c \in Clients, NEW outcome \in Results, Stop(c, outcome)
  PROVE  /\ cpc' \in [Clients -> Stages] /\ result' \in [Clients -> Results]
         /\ fin' \in [Clients -> SUBSET {"client", "server"}]
  BY DEF TypeOK, Stop, Stages, Results

LEMMA FrameType ==
  ASSUME NEW p \in Seq(Nat)
  PROVE  Frame(p) \in Seq(Nat)
<1>1. Header(Len(p)) \in Seq(Nat)
  BY LenProperties, HeaderType
<1>2. QED
  BY <1>1, ConcatProperties DEF Frame

LEMMA SendsTypes ==
  ASSUME TypeOK, NEW c \in Clients, NEW count \in Nat, SendNext(c, count),
         ~eof[c] => sent[c] <= nread[c]
  PROVE  SendTypes
<1> USE NumChunksAssumption DEF TypeOK, SendTypes, Stages, Results, Bytes
<1>1. ASSUME NEW data \in Seq(Nat), SendsChunk(c, data)
      PROVE  /\ cpc' \in [Clients -> Stages] /\ chunk' \in [Clients -> Seq(Nat)]
             /\ sent' \in [Clients -> 0..NumChunks]
             /\ up' \in [Clients -> Seq(Nat)] /\ UNCHANGED <<result, fin>>
  <2>1. sent[c] + 1 \in 0..NumChunks
    BY <1>1 DEF SendsChunk
  <2>2. up[c] \o Frame(data) \in Seq(Nat)
    BY FrameType, ConcatProperties
  <2>3. QED
    BY <1>1, <2>1, <2>2 DEF SendsChunk
<1>2. CASE SendsFull(c)
  <2>1. nread[c] + 1 \in 0..NumChunks
    BY <1>2 DEF SendsFull, SendsChunk
  <2>2. Payload(nread[c] + 1) \in Seq(Nat)
    BY <2>1, ChunkData
  <2>3. QED
    BY <1>1, <1>2, <2>1, <2>2 DEF SendsFull
<1>3. CASE SendsPart(c)
  BY <1>1, <1>3 DEF SendsPart
<1>4. CASE Finishes(c, count)
  <2>1. /\ cpc' \in [Clients -> Stages] /\ result' \in [Clients -> Results]
        /\ fin' \in [Clients -> SUBSET {"client", "server"}]
    BY <1>4, StopTypes DEF Finishes
  <2>2. chunk' \in [Clients -> Seq(Nat)] /\ eof' \in [Clients -> BOOLEAN]
    <3>1. PICK data \in Seq(Nat) : chunk' = [chunk EXCEPT ![c] = data]
      BY <1>4 DEF Finishes
    <3>2. chunk' \in [Clients -> Seq(Nat)]
      BY <3>1
    <3>3. eof' = eof \/ eof' = [eof EXCEPT ![c] = TRUE]
      BY <1>4 DEF Finishes
    <3>4. QED
      BY <3>2, <3>3
  <2>3. UNCHANGED <<nread, sent, up>>
    BY <1>4 DEF Finishes
  <2>4. QED
    BY <2>1, <2>2, <2>3
<1>5. QED
  BY <1>2, <1>3, <1>4, NextSends

LEMMA ServerGoesTypes ==
  ASSUME TypeOK, NEW how \in {"stopped", "crashed"}, ServerGoes(how)
  PROVE  /\ server' \in {"running", "stopped", "crashed"}
         /\ spc' \in [Clients -> {"none", "backlog", "header", "body", "write", "closed"}]
         /\ fin' \in [Clients -> SUBSET {"client", "server"}]
  BY DEF TypeOK, ServerGoes

(* A chunk that comes back adds its number to those verified.                 *)
LEMMA Counted ==
  ASSUME TypeOK, NEW c \in Clients, FullSent(c) \/ PartSent(c)
  PROVE  \/ FullSent(c) /\ VerifiedChunks(c) = Append(verified[c], nread[c])
         \/ PartSent(c) /\ VerifiedChunks(c) = verified[c]
<1>1. CASE FullSent(c)
  BY <1>1 DEF FullSent, VerifiedChunks
<1>2. CASE PartSent(c)
  <2>1. Len(Payload(nread[c])) = 2 /\ Len(chunk[c]) = 1
    BY <1>2, NumChunksAssumption, ChunkData DEF PartSent, TypeOK
  <2>2. chunk[c] # Payload(nread[c])
    BY <2>1
  <2>3. QED
    BY <1>2, <2>2 DEF VerifiedChunks
<1>3. QED
  BY <1>1, <1>2

LEMMA ClientTypes ==
  ASSUME IInv, NEW c \in Clients,
         ClientStep(c) \/ ResolveFails(c) \/ ClientDies(c)
  PROVE  TypeOK'
<1> USE DEF readerVars, sessionVars, netVars
<1>0. TypeOK /\ Counting(c)
  BY DEF IInv, ClientInv
<1>1. CASE Resolved(c) \/ ChunkWritten(c)
  BY <1>0, <1>1 DEF Resolved, ChunkWritten, TypeOK
<1>2. CASE Connected(c)
  <2>1. /\ chunksSent[c] \in Nat /\ sent[c] <= nread[c] /\ SendNext(c, chunksSent[c])
        /\ UNCHANGED <<chunksSent, cbody, verified, sessionVars, server, down, reset, cut>>
    BY <1>0, <1>2 DEF Connected, Counting, TypeOK
  <2>2. SendTypes
    BY <1>0, <2>1, SendsTypes
  <2>3. QED
    BY <1>0, <2>1, <2>2 DEF TypeOK, SendTypes, Stages, Results, Bytes
<1>3. CASE \/ ConnectThrows(c) \/ ConnectFails(c) \/ ServerEof(c)
           \/ OperationFails(c) \/ ResolveFails(c) \/ ClientDies(c)
  <2>1. \E outcome \in Results : Stop(c, outcome)
    BY <1>3
    DEF ConnectThrows, ConnectFails, ServerEof, OperationFails, ResolveFails, ClientDies,
        Results
  <2>2. UNCHANGED <<readerVars, chunksSent, cbody, verified, sessionVars, server, up, down,
                    reset, cut>>
    BY <1>3
    DEF ConnectThrows, ConnectFails, ServerEof, OperationFails, ResolveFails, ClientDies
  <2>3. QED
    BY <1>0, <2>1, <2>2, StopTypes DEF TypeOK, Stages, Results
<1>4. CASE Establishes(c)
  BY <1>0, <1>4 DEF Establishes, TypeOK
<1>5. CASE HeaderRead(c)
  <2>1. Answer(c) \in Seq(Nat)
    BY <1>0, ReversedType DEF Answer, TypeOK, Bytes
  <2>2. Len(chunk[c]) \in 0..MaxBody
    BY <1>5, HeaderReadIs DEF MaxBody
  <2>3. /\ down' \in [Clients -> Seq(Nat)] /\ cbody' \in [Clients -> 0..MaxBody]
        /\ cpc' \in [Clients -> Stages]
    <3>1. /\ down' = [down EXCEPT ![c] = Answer(c)]
          /\ cbody' = [cbody EXCEPT ![c] = Len(chunk[c])]
          /\ cpc' = [cpc EXCEPT ![c] = "read_body"]
      BY <1>5, HeaderReadIs
    <3>2. QED
      BY <1>0, <2>1, <2>2, <3>1 DEF TypeOK, Bytes, Stages
  <2>4. UNCHANGED <<readerVars, chunksSent, verified, result, sessionVars, server, up,
                    fin, reset, cut>>
    BY <1>5, HeaderReadIs
  <2>5. QED
    BY <1>0, <2>3, <2>4 DEF TypeOK, Bytes, Stages
<1>6. CASE BodyRead(c)
  <2>1. /\ cpc[c] = "read_body" /\ SendNext(c, chunksSent[c] + 1)
        /\ verified' = [verified EXCEPT ![c] = VerifiedChunks(c)]
        /\ chunksSent' = [chunksSent EXCEPT ![c] = chunksSent[c] + 1]
        /\ down' = [down EXCEPT ![c] = << >>]
        /\ UNCHANGED <<cbody, sessionVars, server, reset, cut>>
    BY <1>6, BodyReadIs
  <2>2. FullSent(c) \/ PartSent(c)
    BY <1>0, <2>1 DEF Counting, UnderWay
  <2>3. chunksSent[c] + 1 \in 0..NumChunks /\ (~eof[c] => sent[c] <= nread[c])
    BY <1>0, <2>2, NumChunksAssumption DEF FullSent, PartSent, TypeOK
  <2>4. VerifiedChunks(c) \in Seq(1..NumChunks)
    <3>1. CASE FullSent(c) /\ VerifiedChunks(c) = Append(verified[c], nread[c])
      <4>1. nread[c] \in 1..NumChunks
        BY <1>0, <3>1 DEF FullSent, TypeOK
      <4>2. QED
        BY <1>0, <3>1, <4>1, AppendProperties DEF TypeOK
    <3>2. CASE VerifiedChunks(c) = verified[c]
      BY <1>0, <3>2 DEF TypeOK
    <3>3. QED
      BY <1>0, <2>2, <3>1, <3>2, Counted
  <2>5. chunksSent[c] + 1 \in Nat
    BY <2>3
  <2>6. SendTypes
    BY <1>0, <2>1, <2>3, <2>5, SendsTypes
  <2>7. << >> \in Seq(Nat)
    OBVIOUS
  <2>8. /\ verified' \in [Clients -> Seq(1..NumChunks)]
        /\ chunksSent' \in [Clients -> 0..NumChunks] /\ down' \in [Clients -> Seq(Nat)]
    BY <1>0, <2>1, <2>3, <2>4, <2>7 DEF TypeOK, Bytes
  <2>9. QED
    BY <1>0, <2>1, <2>6, <2>8 DEF TypeOK, SendTypes, Stages, Results, Bytes
<1>7. QED
  BY <1>1, <1>2, <1>3, <1>4, <1>5, <1>6 DEF ClientStep

LEMMA SessionTypes ==
  ASSUME IInv, NEW c \in Clients, SessionStep(c) \/ ConnectionReset(c)
  PROVE  TypeOK'
<1> USE DEF clientVars, readerVars, sessionVars, netVars
<1>0. TypeOK
  BY DEF IInv
<1>1. << >> \in Seq(Nat)
  OBVIOUS
<1>2. CASE Accepted(c) \/ SessionOperationFails(c)
  <2>1. UNCHANGED <<clientVars, sbody, up, down, reset, cut>>
    BY <1>2, SessionEndIs
  <2>2. CASE ServerGoes("crashed")
    BY <1>0, <2>1, <2>2, ServerGoesTypes DEF TypeOK
  <2>3. CASE ~ServerGoes("crashed")
    <3>1. /\ spc' \in [Clients -> {"none", "backlog", "header", "body", "write", "closed"}]
          /\ fin' \in [Clients -> SUBSET {"client", "server"}] /\ UNCHANGED server
      <4>1. \/ spc' = [spc EXCEPT ![c] = "header"] /\ UNCHANGED <<server, fin>>
            \/ /\ spc' = [spc EXCEPT ![c] = "closed"]
               /\ fin' = [fin EXCEPT ![c] = fin[c] \cup {"server"}]
               /\ UNCHANGED server
        BY <1>2, <2>3, SessionEndIs
      <4>2. fin[c] \cup {"server"} \in SUBSET {"client", "server"}
        BY <1>0 DEF TypeOK
      <4>3. CASE spc' = [spc EXCEPT ![c] = "header"] /\ UNCHANGED <<server, fin>>
        BY <1>0, <4>3 DEF TypeOK
      <4>4. CASE /\ spc' = [spc EXCEPT ![c] = "closed"]
                 /\ fin' = [fin EXCEPT ![c] = fin[c] \cup {"server"}]
                 /\ UNCHANGED server
        BY <1>0, <4>2, <4>4 DEF TypeOK
      <4>5. QED
        BY <4>1, <4>3, <4>4
    <3>2. QED
      BY <1>0, <2>1, <3>1 DEF TypeOK
  <2>4. QED
    BY <2>2, <2>3
<1>3. CASE SessionReadsHeader(c)
  <2>1. chunk[c] \in Seq(Nat) /\ Len(chunk[c]) \in Nat
    BY <1>0, LenProperties DEF TypeOK, Bytes
  <2>2. [i \in 1..Len(chunk[c]) |-> 0] \in Seq(Nat)
    BY <2>1
  <2>3. /\ up' \in [Clients -> Seq(Nat)] /\ sbody' \in [Clients -> Seq(Nat)]
        /\ spc' \in [Clients -> {"none", "backlog", "header", "body", "write", "closed"}]
    <3>1. /\ up' = [up EXCEPT ![c] = chunk[c]]
          /\ sbody' = [sbody EXCEPT ![c] = [i \in 1..Len(chunk[c]) |-> 0]]
          /\ spc' = [spc EXCEPT ![c] = "body"]
      BY <1>3, SessionReadsHeaderIs
    <3>2. QED
      BY <1>0, <2>1, <2>2, <3>1 DEF TypeOK, Bytes
  <2>4. UNCHANGED <<clientVars, server, down, fin, reset, cut>>
    BY <1>3, SessionReadsHeaderIs
  <2>5. QED
    BY <1>0, <2>3, <2>4 DEF TypeOK, Bytes
<1>4. CASE SessionReadsBody(c)
  <2>1. Answer(c) \in Seq(Nat)
    BY <1>0, ReversedType DEF Answer, TypeOK, Bytes
  <2>2. down[c] \o Frame(Answer(c)) \in Seq(Nat)
    BY <1>0, <2>1, FrameType, ConcatProperties DEF TypeOK, Bytes
  <2>3. /\ up' \in [Clients -> Seq(Nat)] /\ sbody' \in [Clients -> Seq(Nat)]
        /\ down' \in [Clients -> Seq(Nat)]
        /\ spc' \in [Clients -> {"none", "backlog", "header", "body", "write", "closed"}]
    <3>1. /\ up' = [up EXCEPT ![c] = << >>]
          /\ sbody' = [sbody EXCEPT ![c] = Answer(c)]
          /\ down' = [down EXCEPT ![c] = down[c] \o Frame(Answer(c))]
          /\ spc' = [spc EXCEPT ![c] = "write"]
      BY <1>4, SessionReadsBodyIs
    <3>2. QED
      BY <1>0, <1>1, <2>1, <2>2, <3>1 DEF TypeOK, Bytes
  <2>4. UNCHANGED <<clientVars, server, fin, reset, cut>>
    BY <1>4, SessionReadsBodyIs
  <2>5. QED
    BY <1>0, <2>3, <2>4 DEF TypeOK, Bytes
<1>5. CASE ResponseWritten(c)
  BY <1>0, <1>5 DEF ResponseWritten, TypeOK
<1>6. CASE ConnectionReset(c)
  BY <1>0, <1>1, <1>6 DEF ConnectionReset, TypeOK, Bytes
<1>7. QED
  BY <1>2, <1>3, <1>4, <1>5, <1>6 DEF SessionStep

LEMMA TypeStep ==
  ASSUME IInv, [Next]_vars
  PROVE  TypeOK'
<1>1. CASE ServerStops
  BY <1>1, ServerGoesTypes DEF ServerStops, IInv, TypeOK, readerVars
<1>2. CASE UNCHANGED vars
  BY <1>2 DEF IInv, TypeOK, vars, clientVars, readerVars, sessionVars, netVars
<1>3. QED
  BY <1>1, <1>2, ClientTypes, SessionTypes DEF Next, Ended

-----------------------------------------------------------------------------
(* A client that does not take the step: it is left alone, or it loses its    *)
(* session with the server.                                                   *)
Rest(c) == <<cpc[c], chunk[c], eof[c], nread[c], sent[c], chunksSent[c], cbody[c], verified[c],
             result[c], sbody[c], up[c], down[c], reset[c], cut \cap {c}>>

Struck(c) ==
  /\ server' # "running"
  /\ spc'[c] = IF spc[c] = "none" THEN "none" ELSE "closed"
  /\ fin'[c] = IF spc[c] = "none" THEN fin[c] ELSE fin[c] \cup {"server"}

StepOf(c) ==
  \/ ClientStep(c) \/ SessionStep(c)
  \/ ResolveFails(c) \/ ClientDies(c) \/ ConnectionReset(c)

LEMMA SameInv ==
  ASSUME NEW c \in Clients, ClientInv(c), UNCHANGED Rest(c),
         UNCHANGED <<spc[c], fin[c], server>>
  PROVE  ClientInv(c)'
<1>1. /\ UNCHANGED <<cpc[c], chunk[c], eof[c], nread[c], sent[c], chunksSent[c], cbody[c],
                     verified[c], result[c], sbody[c], up[c], down[c], reset[c]>>
      /\ c \in cut' <=> c \in cut
  BY DEF Rest
<1>2. Counting(c)'
  BY <1>1 DEF ClientInv, Counting, Alive, UnderWay, FullSent, PartSent, ReadFailed
<1>3. Ends(c)' /\ Streams(c)' /\ Conversation(c)' /\ Blame(c)'
  BY <1>1 DEF ClientInv, Ends, Streams, Conversation, Blame, Alive, Serving, Answer, Awaited,
     RequestUnderWay, AnswerUnderWay
<1>4. QED
  BY <1>2, <1>3 DEF ClientInv

LEMMA StruckInv ==
  ASSUME NEW c \in Clients, ClientInv(c), UNCHANGED Rest(c), Struck(c)
  PROVE  ClientInv(c)'
<1>1. /\ UNCHANGED <<cpc[c], chunk[c], eof[c], nread[c], sent[c], chunksSent[c], cbody[c],
                     verified[c], result[c], sbody[c], up[c], down[c], reset[c]>>
      /\ c \in cut' <=> c \in cut
  BY DEF Rest
<1>2. Counting(c)'
  BY <1>1 DEF ClientInv, Counting, Alive, UnderWay, FullSent, PartSent, ReadFailed
<1>3. Ends(c)' /\ Conversation(c)' /\ Blame(c)'
  BY <1>1 DEF Struck, ClientInv, Ends, Conversation, Blame, Alive, Serving
<1>4. Streams(c)'
  BY <1>1 DEF Struck, ClientInv, Streams, Answer
<1>5. QED
  BY <1>2, <1>3, <1>4 DEF ClientInv

LEMMA SendsLocally ==
  ASSUME TypeOK, NEW c \in Clients, NEW d \in Clients, d # c, NEW count \in Nat,
         SendNext(c, count)
  PROVE  UNCHANGED <<cpc[d], chunk[d], eof[d], nread[d], sent[d], result[d], up[d], fin[d]>>
<1>1. CASE SendsFull(c)
  BY <1>1 DEF SendsFull, SendsChunk, TypeOK
<1>2. CASE SendsPart(c)
  BY <1>2 DEF SendsPart, SendsChunk, TypeOK
<1>3. CASE Finishes(c, count)
  BY <1>3 DEF Finishes, Stop, TypeOK
<1>4. QED
  BY <1>1, <1>2, <1>3, NextSends

LEMMA Bystander ==
  ASSUME IInv, NEW c \in Clients, NEW d \in Clients, d # c, StepOf(c)
  PROVE  UNCHANGED Rest(d) /\ (UNCHANGED <<spc[d], fin[d], server>> \/ Struck(d))
<1> USE DEF Rest, clientVars, readerVars, sessionVars, netVars
<1>0. TypeOK
  BY DEF IInv
<1>1. CASE Resolved(c) \/ ChunkWritten(c)
  BY <1>0, <1>1 DEF Resolved, ChunkWritten, TypeOK
<1>2. CASE Connected(c)
  <2>1. /\ chunksSent[c] \in Nat /\ SendNext(c, chunksSent[c])
        /\ UNCHANGED <<chunksSent, cbody, verified, sessionVars, server, down, reset, cut>>
    BY <1>0, <1>2 DEF Connected, TypeOK
  <2>2. QED
    BY <1>0, <2>1, SendsLocally
<1>3. CASE \/ ConnectThrows(c) \/ ConnectFails(c) \/ ServerEof(c)
           \/ OperationFails(c) \/ ResolveFails(c) \/ ClientDies(c)
  BY <1>0, <1>3
  DEF ConnectThrows, ConnectFails, ServerEof, OperationFails, ResolveFails, ClientDies, Stop,
      TypeOK
<1>4. CASE Establishes(c)
  BY <1>0, <1>4 DEF Establishes, TypeOK
<1>5. CASE HeaderRead(c)
  BY <1>0, <1>5, HeaderReadIs DEF TypeOK
<1>6. CASE BodyRead(c)
  <2>1. chunksSent[c] + 1 \in Nat /\ SendNext(c, chunksSent[c] + 1)
    BY <1>0, <1>6, BodyReadIs DEF TypeOK
  <2>2. /\ UNCHANGED <<chunksSent[d], verified[d], down[d]>>
        /\ UNCHANGED <<cbody, sessionVars, server, reset, cut>>
    BY <1>0, <1>6, BodyReadIs DEF TypeOK
  <2>3. QED
    BY <1>0, <2>1, <2>2, SendsLocally
<1>7. CASE Accepted(c) \/ SessionOperationFails(c)
  <2>1. UNCHANGED <<clientVars, sbody, up, down, reset, cut>>
    BY <1>7, SessionEndIs
  <2>2. CASE ServerGoes("crashed")
    BY <2>1, <2>2 DEF ServerGoes, Struck
  <2>3. CASE ~ServerGoes("crashed")
    BY <1>0, <1>7, <2>1, <2>3, SessionEndIs DEF TypeOK
  <2>4. QED
    BY <2>2, <2>3
<1>8. CASE SessionReadsHeader(c)
  BY <1>0, <1>8, SessionReadsHeaderIs DEF TypeOK
<1>9. CASE SessionReadsBody(c)
  BY <1>0, <1>9, SessionReadsBodyIs DEF TypeOK
<1>10. CASE ResponseWritten(c) \/ ConnectionReset(c)
  BY <1>0, <1>10 DEF ResponseWritten, ConnectionReset, TypeOK
<1>11. QED
  BY <1>1, <1>2, <1>3, <1>4, <1>5, <1>6, <1>7, <1>8, <1>9, <1>10
  DEF StepOf, ClientStep, SessionStep

-----------------------------------------------------------------------------
(* The client of the step. SendNext, as it shows in the client's state:       *)
Goes(c) ==
  /\ cpc'[c] = "write" /\ chunk'[c] \in Seq(Nat) /\ Len(chunk'[c]) \in 1..2
  /\ sent'[c] = sent[c] + 1 /\ up'[c] = up[c] \o Frame(chunk'[c])
  /\ UNCHANGED <<result[c], fin[c]>> /\ ~eof[c]
  /\ \/ ~eof'[c] /\ nread'[c] = nread[c] + 1 /\ chunk'[c] = Payload(nread'[c])
     \/ eof'[c] /\ nread'[c] = nread[c] /\ Len(chunk'[c]) = 1 /\ nread[c] < NumChunks
EndsWell(c, count) ==
  /\ cpc'[c] = "stopped" /\ result'[c] = "ok" /\ fin'[c] = fin[c] \cup {"client"}
  /\ UNCHANGED <<nread[c], sent[c], up[c]>>
  /\ AllSent(count) \/ eof'[c]
  /\ eof[c] => eof'[c]

LEMMA Looks ==
  ASSUME TypeOK, NEW c \in Clients, NEW count \in Nat, SendNext(c, count)
  PROVE  Goes(c) \/ EndsWell(c, count)
<1>1. CASE SendsFull(c)
  <2>1. nread[c] + 1 \in Nat
    BY NumChunksAssumption DEF TypeOK
  <2>2. Payload(nread[c] + 1) \in Seq(Nat) /\ Len(Payload(nread[c] + 1)) \in 1..2
    BY <2>1, ChunkData
  <2>3. QED
    BY <1>1, <2>2 DEF SendsFull, SendsChunk, Goes, TypeOK
<1>2. CASE SendsPart(c)
  <2>1. PICK data \in Seq(Nat) : Len(data) = 1 /\ SendsChunk(c, data)
    BY <1>2 DEF SendsPart
  <2>2. Len(data) \in 1..2
    BY <2>1
  <2>3. QED
    BY <1>2, <2>1, <2>2 DEF SendsPart, SendsChunk, Goes, TypeOK
<1>3. CASE Finishes(c, count)
  BY <1>3 DEF Finishes, Stop, EndsWell, TypeOK
<1>4. QED
  BY <1>1, <1>2, <1>3, NextSends

(* A client that ends otherwise.                                              *)
Fails(c) ==
  /\ Alive(c) /\ cpc'[c] = "stopped" /\ fin'[c] = fin[c] \cup {"client"}
  /\ UNCHANGED <<chunk[c], eof[c], nread[c], sent[c], chunksSent[c], cbody[c], verified[c],
                 spc[c], sbody[c], server, up[c], down[c], reset[c], cut>>
  /\ \/ result'[c] \in {"unresolved", "killed"}
     \/ result'[c] = "error" /\ (spc[c] = "none" \/ reset[c] \/ server # "running")
     \/ result'[c] = "exception" /\ spc[c] # "none" /\ reset[c] /\ sent[c] = 0

LEMMA Failing ==
  ASSUME IInv, NEW c \in Clients,
         \/ ConnectThrows(c) \/ ConnectFails(c) \/ ServerEof(c)
         \/ OperationFails(c) \/ ResolveFails(c) \/ ClientDies(c)
  PROVE  Fails(c)
<1> USE DEF Fails, Stop, Alive, readerVars, sessionVars
<1>0. TypeOK /\ Counting(c) /\ Ends(c)
  BY DEF IInv, ClientInv
<1>1. CASE ServerEof(c)
  <2>1. Alive(c) /\ server # "running"
    BY <1>0, <1>1 DEF ServerEof, Ends
  <2>2. chunksSent[c] < NumChunks
    <3>1. nread[c] \in 0..NumChunks /\ chunksSent[c] \in Nat
      BY <1>0, NumChunksAssumption DEF TypeOK
    <3>2. FullSent(c) \/ PartSent(c)
      BY <1>0, <1>1 DEF ServerEof, Counting, UnderWay
    <3>3. QED
      BY <3>1, <3>2, NumChunksAssumption DEF FullSent, PartSent
  <2>3. ~(chunksSent[c] >= NumChunks)
    BY <1>0, <2>2, NumChunksAssumption DEF TypeOK
  <2>4. Stop(c, "error")
    BY <1>1, <2>3 DEF ServerEof
  <2>5. QED
    BY <1>0, <1>1, <2>1, <2>4 DEF ServerEof, TypeOK
<1>2. CASE ConnectThrows(c)
  BY <1>0, <1>2 DEF ConnectThrows, Ends, Counting, TypeOK
<1>3. CASE ConnectFails(c)
  BY <1>0, <1>3 DEF ConnectFails, Ends, TypeOK
<1>4. CASE OperationFails(c) \/ ResolveFails(c) \/ ClientDies(c)
  BY <1>0, <1>4 DEF OperationFails, ResolveFails, ClientDies, TypeOK
<1>5. QED
  BY <1>1, <1>2, <1>3, <1>4

(* A session's step leaves all of the client but its streams alone.           *)
LEMMA SessionsLeave ==
  ASSUME IInv, NEW c \in Clients, SessionStep(c) \/ ConnectionReset(c)
  PROVE  UNCHANGED clientVars
<1>1. CASE Accepted(c) \/ SessionOperationFails(c)
  BY <1>1, SessionEndIs
<1>2. CASE SessionReadsHeader(c)
  BY <1>2, SessionReadsHeaderIs
<1>3. CASE SessionReadsBody(c)
  BY <1>3, SessionReadsBodyIs
<1>4. QED
  BY <1>1, <1>2, <1>3 DEF SessionStep, ResponseWritten, ConnectionReset

LEMMA CountingStep ==
  ASSUME IInv, NEW c \in Clients, StepOf(c)
  PROVE  Counting(c)'
<1> USE DEF Counting, UnderWay, Alive, readerVars, sessionVars, netVars
<1>0. TypeOK /\ Counting(c) /\ Len(verified[c]) \in Nat
  BY LenProperties DEF IInv, ClientInv, TypeOK
<1>1. CASE Resolved(c) \/ Establishes(c) \/ ChunkWritten(c) \/ HeaderRead(c)
  <2>1. /\ UNCHANGED <<chunk, eof, nread, sent, chunksSent, verified, result>>
        /\ \/ cpc[c] = "resolve" /\ cpc'[c] = "connect"
           \/ cpc[c] = "connect" /\ cpc'[c] = "connected"
           \/ cpc[c] = "write" /\ cpc'[c] = "read_header"
           \/ cpc[c] = "read_header" /\ cpc'[c] = "read_body"
    BY <1>0, <1>1, HeaderReadIs DEF Resolved, Establishes, ChunkWritten, TypeOK
  <2>2. QED
    BY <1>0, <2>1 DEF FullSent, PartSent, ReadFailed
<1>2. CASE Connected(c)
  <2>1. /\ nread[c] = 0 /\ sent[c] = 0 /\ chunksSent[c] = 0 /\ verified[c] = << >>
        /\ result[c] = "running" /\ UNCHANGED <<chunksSent, verified>>
        /\ SendNext(c, 0) /\ Len(<< >>) = 0
    BY <1>0, <1>2 DEF Connected
  <2>2. ~AllSent(0)
    BY NumChunksAssumption DEF AllSent
  <2>3. CASE Goes(c)
    BY <1>0, <2>1, <2>3 DEF Goes, FullSent, PartSent
  <2>4. CASE EndsWell(c, 0)
    BY <1>0, <2>1, <2>2, <2>4, NumChunksAssumption DEF EndsWell, ReadFailed
  <2>5. QED
    BY <1>0, <2>1, <2>3, <2>4, Looks
<1>3. CASE \/ ConnectThrows(c) \/ ConnectFails(c) \/ ServerEof(c)
           \/ OperationFails(c) \/ ResolveFails(c) \/ ClientDies(c)
  BY <1>0, <1>3, Failing DEF Fails
<1>4. CASE BodyRead(c)
  <2>1. /\ chunksSent'[c] = chunksSent[c] + 1 /\ verified'[c] = VerifiedChunks(c)
        /\ SendNext(c, chunksSent[c] + 1) /\ result[c] = "running"
        /\ FullSent(c) \/ PartSent(c)
        /\ Len(verified[c]) = chunksSent[c]
    BY <1>0, <1>4, BodyReadIs DEF TypeOK
  <2>2. /\ nread[c] \in 0..NumChunks /\ chunksSent[c] \in Nat /\ chunksSent[c] + 1 \in Nat
        /\ sent[c] \in Nat
    BY <1>0, NumChunksAssumption DEF TypeOK
  <2>3. CASE FullSent(c) /\ VerifiedChunks(c) = Append(verified[c], nread[c])
    <3>1. /\ Len(verified'[c]) = nread[c] /\ nread[c] = chunksSent'[c]
          /\ \A i \in 1..Len(verified'[c]) : verified'[c][i] = i
      BY <1>0, <2>1, <2>2, <2>3, AppendProperties DEF FullSent, TypeOK
    <3>2. CASE Goes(c)
      BY <2>1, <2>2, <2>3, <3>1, <3>2 DEF Goes, FullSent, PartSent
    <3>3. CASE EndsWell(c, chunksSent[c] + 1)
      BY <2>1, <2>2, <2>3, <3>1, <3>3, NumChunksAssumption
      DEF EndsWell, AllSent, FullSent, ReadFailed
    <3>4. QED
      BY <1>0, <2>1, <2>2, <3>2, <3>3, Looks
  <2>4. CASE PartSent(c) /\ VerifiedChunks(c) = verified[c]
    <3>1. EndsWell(c, chunksSent[c] + 1)
      BY <1>0, <2>1, <2>2, <2>4, Looks DEF Goes, PartSent
    <3>2. QED
      BY <1>0, <2>1, <2>2, <2>4, <3>1 DEF EndsWell, PartSent, ReadFailed
  <2>5. QED
    BY <1>0, <2>1, <2>3, <2>4, Counted
<1>5. CASE SessionStep(c) \/ ConnectionReset(c)
  BY <1>0, <1>5, SessionsLeave DEF clientVars, FullSent, PartSent, ReadFailed
<1>6. QED
  BY <1>1, <1>2, <1>3, <1>4, <1>5 DEF StepOf, ClientStep

(* The handlers that go on with the loop over the chunks; what they take off  *)
(* the stream has been read by then.                                          *)
Continues(c) ==
  /\ Goes(c) \/ \E count \in Nat : EndsWell(c, count)
  /\ ~reset[c] /\ ~reset'[c] /\ down'[c] = << >> /\ UNCHANGED <<server, cut>>
  /\ UNCHANGED <<spc[c], sbody[c]>> /\ cpc[c] \in {"connected", "read_body"}

LEMMA Continuing ==
  ASSUME IInv, NEW c \in Clients, Connected(c) \/ BodyRead(c)
  PROVE  Continues(c)
<1>0. TypeOK /\ Ends(c)
  BY DEF IInv, ClientInv
<1>1. CASE Connected(c)
  <2>1. /\ cpc[c] = "connected" /\ ~reset[c]
        /\ chunksSent[c] \in Nat /\ SendNext(c, chunksSent[c])
        /\ UNCHANGED <<sessionVars, server, down, reset, cut>>
    BY <1>0, <1>1 DEF Connected, TypeOK
  <2>2. down[c] = << >>
    BY <2>1 DEF IInv, ClientInv, Streams
  <2>3. QED
    BY <1>0, <2>1, <2>2, Looks DEF Continues, sessionVars
<1>2. CASE BodyRead(c)
  <2>1. /\ cpc[c] = "read_body" /\ ~reset[c] /\ down'[c] = << >>
        /\ chunksSent[c] + 1 \in Nat /\ SendNext(c, chunksSent[c] + 1)
        /\ UNCHANGED <<sessionVars, server, reset, cut>>
    BY <1>0, <1>2, BodyReadIs DEF TypeOK
  <2>2. QED
    BY <1>0, <2>1, Looks DEF Continues, sessionVars
<1>3. QED
  BY <1>1, <1>2

(* The session takes the server with it.                                      *)
Crashes(c) ==
  (Accepted(c) \/ SessionOperationFails(c)) /\ reset[c] /\ ServerGoes("crashed")

LEMMA EndsStep ==
  ASSUME IInv, NEW c \in Clients, StepOf(c), ~Crashes(c)
  PROVE  Ends(c)'
<1> USE DEF Ends, Alive, Serving, readerVars, sessionVars, netVars
<1>0. TypeOK /\ Ends(c) /\ Counting(c)
  BY DEF IInv, ClientInv
<1>1. CASE Resolved(c) \/ ChunkWritten(c) \/ HeaderRead(c)
  <2>1. /\ UNCHANGED <<spc, up, fin, reset, result, server>>
        /\ cpc[c] # "stopped" /\ cpc'[c] # "stopped"
        /\ cpc'[c] \in {"resolve", "connect"} => UNCHANGED down /\ spc[c] = "none"
        /\ spc[c] = "none" => cpc'[c] = "connect"
    BY <1>0, <1>1, HeaderReadIs DEF Resolved, ChunkWritten, TypeOK
  <2>2. QED
    BY <1>0, <2>1
<1>2. CASE Establishes(c)
  BY <1>0, <1>2 DEF Establishes, TypeOK
<1>3. CASE Connected(c) \/ BodyRead(c)
  <2>1. Continues(c)
    BY <1>3, Continuing
  <2>2. CASE Goes(c)
    BY <1>0, <2>1, <2>2 DEF Continues, Goes
  <2>3. ASSUME NEW count \in Nat, EndsWell(c, count)
        PROVE  Ends(c)'
    BY <1>0, <2>1, <2>3 DEF Continues, EndsWell
  <2>4. QED
    BY <2>1, <2>2, <2>3 DEF Continues
<1>4. CASE \/ ConnectThrows(c) \/ ConnectFails(c) \/ ServerEof(c)
           \/ OperationFails(c) \/ ResolveFails(c) \/ ClientDies(c)
  <2>1. Fails(c)
    BY <1>4, Failing
  <2>2. QED
    BY <1>0, <2>1 DEF Fails
<1>5. CASE Accepted(c) \/ SessionOperationFails(c)
  <2>1. ~(reset[c] /\ ServerGoes("crashed"))
    BY <1>5 DEF Crashes
  <2>2. UNCHANGED <<clientVars, up, down, reset, server>> /\ spc[c] \notin {"none", "closed"}
    BY <1>5, <2>1, SessionEndIs
  <2>3. \/ spc'[c] = "header" /\ UNCHANGED fin
        \/ ~Alive(c) /\ spc'[c] = "closed" /\ fin'[c] = fin[c] \cup {"server"}
    BY <1>0, <1>5, <2>1, SessionEndIs DEF TypeOK
  <2>4. QED
    BY <1>0, <2>2, <2>3 DEF clientVars
<1>6. CASE SessionReadsHeader(c) \/ SessionReadsBody(c) \/ ResponseWritten(c)
  <2>1. /\ UNCHANGED <<clientVars, server, fin, reset>>
        /\ spc[c] \in {"header", "body", "write"} /\ spc'[c] \in {"header", "body", "write"}
    BY <1>0, <1>6, SessionReadsHeaderIs, SessionReadsBodyIs DEF ResponseWritten, TypeOK
  <2>2. QED
    BY <1>0, <2>1 DEF clientVars
<1>7. CASE ConnectionReset(c)
  BY <1>0, <1>7 DEF ConnectionReset, clientVars, TypeOK
<1>8. QED
  BY <1>1, <1>2, <1>3, <1>4, <1>5, <1>6, <1>7 DEF StepOf, ClientStep, SessionStep

LEMMA BlameStep ==
  ASSUME IInv, NEW c \in Clients, StepOf(c), ~Crashes(c)
  PROVE  Blame(c)'
<1> USE DEF Blame, readerVars, sessionVars, netVars
<1>0. TypeOK /\ Ends(c) /\ Counting(c) /\ Streams(c) /\ Blame(c)
  BY DEF IInv, ClientInv
<1>1. CASE Resolved(c) \/ ChunkWritten(c) \/ HeaderRead(c)
  BY <1>0, <1>1, HeaderReadIs DEF Resolved, ChunkWritten
<1>2. CASE Establishes(c)
  BY <1>0, <1>2 DEF Establishes, Ends, Counting, Alive
<1>3. CASE Connected(c) \/ BodyRead(c)
  <2>1. Continues(c)
    BY <1>3, Continuing
  <2>2. result'[c] \in {"running", "ok"}
    BY <1>0, <2>1 DEF Continues, Goes, EndsWell, Counting, Alive
  <2>3. QED
    BY <2>1, <2>2 DEF Continues
<1>4. CASE \/ ConnectThrows(c) \/ ConnectFails(c) \/ ServerEof(c)
           \/ OperationFails(c) \/ ResolveFails(c) \/ ClientDies(c)
  <2>1. Fails(c)
    BY <1>4, Failing
  <2>2. QED
    BY <1>0, <2>1 DEF Fails
<1>5. CASE SessionStep(c)
  <2>1. UNCHANGED <<clientVars, reset, cut>> /\ (server' = "running" => server = "running")
    <3>1. CASE Accepted(c) \/ SessionOperationFails(c)
      BY <3>1, SessionEndIs DEF ServerGoes
    <3>2. CASE SessionReadsHeader(c) \/ SessionReadsBody(c) \/ ResponseWritten(c)
      BY <3>2, SessionReadsHeaderIs, SessionReadsBodyIs DEF ResponseWritten
    <3>3. QED
      BY <1>5, <3>1, <3>2 DEF SessionStep
  <2>2. spc[c] # "none" /\ spc'[c] # "none"
    <3>1. CASE Accepted(c) \/ SessionOperationFails(c)
      BY <1>0, <3>1, SessionEndIs DEF ServerGoes, Serving, TypeOK
    <3>2. CASE SessionReadsHeader(c) \/ SessionReadsBody(c) \/ ResponseWritten(c)
      BY <1>0, <3>2, SessionReadsHeaderIs, SessionReadsBodyIs DEF ResponseWritten, TypeOK
    <3>3. QED
      BY <1>5, <3>1, <3>2 DEF SessionStep
  <2>3. QED
    BY <1>0, <2>1, <2>2 DEF clientVars, readerVars
<1>6. CASE ConnectionReset(c)
  <2>1. /\ UNCHANGED <<clientVars, spc, server>> /\ reset'[c] /\ ~reset[c]
        /\ \/ c \in cut'
           \/ "client" \in fin[c] /\ down[c] # << >>
           \/ "server" \in fin[c] /\ up[c] # << >>
    BY <1>0, <1>6 DEF ConnectionReset, TypeOK
  <2>2. server = "running" => c \in cut' \/ result[c] \notin {"running", "ok"}
    BY <1>0, <2>1 DEF Ends, Streams, Counting
  <2>3. QED
    BY <1>0, <2>1, <2>2 DEF clientVars
<1>7. QED
  BY <1>1, <1>2, <1>3, <1>4, <1>5, <1>6 DEF StepOf, ClientStep

(* The bytes on their way.                                                    *)
Talk(c) == Streams(c) /\ Conversation(c)

(* When the client goes on, its session awaits the next request.              *)
LEMMA QuietTurn ==
  ASSUME IInv, NEW c \in Clients, Continues(c)
  PROVE  \/ spc'[c] \in {"backlog", "header", "write"} /\ up[c] = << >>
         \/ spc'[c] = "closed" /\ server # "running"
<1>1. TypeOK /\ Ends(c) /\ Conversation(c)
  BY DEF IInv, ClientInv
<1>2. CASE cpc[c] = "connected"
  BY <1>1, <1>2 DEF IInv, ClientInv, Continues, TypeOK, Ends, Streams, Alive, Serving
<1>3. CASE cpc[c] = "read_body"
  BY <1>1, <1>3
  DEF Continues, TypeOK, Ends, Conversation, Alive, Serving, RequestUnderWay, AnswerUnderWay
<1>4. QED
  BY <1>2, <1>3 DEF Continues

LEMMA ContinuingTalk ==
  ASSUME IInv, NEW c \in Clients, Connected(c) \/ BodyRead(c)
  PROVE  Talk(c)'
<1> USE DEF Talk, Streams, Conversation, Awaited, RequestUnderWay, AnswerUnderWay, Alive,
     Serving, Answer
<1>1. Continues(c)
  BY Continuing
<1>2. \/ spc'[c] \in {"backlog", "header", "write"} /\ up[c] = << >>
      \/ spc'[c] = "closed" /\ server # "running"
  BY <1>1, QuietTurn
<1>3. ~reset'[c] /\ down'[c] = << >> /\ UNCHANGED server
  BY <1>1 DEF Continues
<1>4. CASE Goes(c)
  <2>1. << >> \o Frame(chunk'[c]) = Frame(chunk'[c])
    BY <1>4, Framed DEF Goes, FrameBytes
  <2>2. result'[c] # "ok"
    <3>1. Counting(c) /\ Alive(c)
      BY <1>1 DEF IInv, ClientInv, Continues
    <3>2. QED
      BY <1>4, <3>1 DEF Goes, Counting
  <2>3. cpc'[c] = "write" /\ up'[c] = up[c] \o Frame(chunk'[c]) /\ Len(chunk'[c]) \in 1..2
    BY <1>4 DEF Goes
  <2>4. QED
    BY <1>2, <1>3, <2>1, <2>2, <2>3
<1>5. ASSUME NEW count \in Nat, EndsWell(c, count)
      PROVE  Talk(c)'
  BY <1>2, <1>3, <1>5 DEF EndsWell
<1>6. QED
  BY <1>1, <1>4, <1>5 DEF Continues

LEMMA ClientTalk ==
  ASSUME IInv, NEW c \in Clients,
         \/ Resolved(c) \/ Establishes(c) \/ ChunkWritten(c) \/ HeaderRead(c)
         \/ ConnectThrows(c) \/ ConnectFails(c) \/ ServerEof(c)
         \/ OperationFails(c) \/ ResolveFails(c) \/ ClientDies(c)
  PROVE  Talk(c)'
<1> USE DEF Talk, Streams, Conversation, Awaited, RequestUnderWay, AnswerUnderWay, Alive,
     Serving, Answer, readerVars, sessionVars, netVars
<1>0. TypeOK /\ Ends(c) /\ Talk(c)
  BY DEF IInv, ClientInv
<1>1. CASE Resolved(c) \/ ChunkWritten(c)
  <2>1. /\ UNCHANGED <<chunk, spc, sbody, up, down, reset, cbody, result, server>>
        /\ \/ cpc[c] = "resolve" /\ cpc'[c] = "connect" /\ spc[c] = "none"
           \/ cpc[c] = "write" /\ cpc'[c] = "read_header"
    BY <1>0, <1>1 DEF Resolved, ChunkWritten, TypeOK, Ends
  <2>2. QED
    BY <1>0, <2>1
<1>2. CASE Establishes(c)
  <2>1. /\ UNCHANGED <<chunk, up, down, reset, result>> /\ cpc[c] = "connect"
        /\ cpc'[c] = "connected" /\ spc'[c] = "backlog" /\ spc[c] = "none"
    BY <1>0, <1>2 DEF Establishes, TypeOK, Ends
  <2>2. up[c] = << >> /\ down[c] = << >> /\ result[c] # "ok"
    BY <1>0, <2>1 DEF Ends
  <2>3. QED
    BY <2>1, <2>2
<1>3. CASE HeaderRead(c)
  <2>1. /\ UNCHANGED <<chunk, spc, sbody, up, reset, result, server>>
        /\ cpc[c] = "read_header" /\ ~reset[c] /\ cpc'[c] = "read_body"
        /\ down[c] = Frame(Answer(c)) /\ down'[c] = Answer(c) /\ cbody'[c] = Len(chunk[c])
    BY <1>0, <1>3, HeaderReadIs DEF TypeOK
  <2>2. down[c] # << >>
    <3>1. chunk[c] \in Seq(Nat) /\ Len(chunk[c]) \in 1..2
      BY <1>0, <1>3, HeaderReadIs DEF TypeOK, Bytes
    <3>2. QED
      BY <2>1, <3>1, Framed DEF FrameBytes
  <2>3. Counting(c)
    BY DEF IInv, ClientInv
  <2>4. result[c] # "ok"
    BY <2>1, <2>3 DEF Counting
  <2>5. QED
    BY <1>0, <2>1, <2>2, <2>4
<1>4. CASE \/ ConnectThrows(c) \/ ConnectFails(c) \/ ServerEof(c)
           \/ OperationFails(c) \/ ResolveFails(c) \/ ClientDies(c)
  <2>1. Fails(c)
    BY <1>4, Failing
  <2>2. QED
    BY <1>0, <2>1 DEF Fails
<1>5. QED
  BY <1>1, <1>2, <1>3, <1>4

LEMMA SessionTalk ==
  ASSUME IInv, NEW c \in Clients, SessionStep(c) \/ ConnectionReset(c), ~Crashes(c)
  PROVE  Talk(c)'
<1> USE DEF Talk, Streams, Conversation, Awaited, RequestUnderWay, AnswerUnderWay, Alive,
     Serving, Answer
<1>0. TypeOK /\ Ends(c) /\ Talk(c) /\ UNCHANGED clientVars
  BY SessionsLeave DEF IInv, ClientInv
<1>1. CASE Accepted(c) \/ SessionOperationFails(c)
  <2>1. ~(reset[c] /\ ServerGoes("crashed"))
    BY <1>1 DEF Crashes
  <2>2. /\ UNCHANGED <<up, down, reset, server, sbody>>
        /\ \/ spc[c] = "backlog" /\ spc'[c] = "header"
           \/ ~Alive(c) /\ spc'[c] = "closed" /\ spc[c] # "none"
    BY <1>0, <1>1, <2>1, SessionEndIs DEF TypeOK
  <2>3. QED
    BY <1>0, <2>2 DEF clientVars, readerVars
<1>2. CASE SessionReadsHeader(c)
  <2>1. /\ UNCHANGED <<down, reset, server>> /\ ~reset[c] /\ spc[c] = "header"
        /\ spc'[c] = "body" /\ up[c] = Frame(chunk[c]) /\ up[c] # << >>
        /\ up'[c] = chunk[c] /\ Len(chunk[c]) \in 1..2
        /\ sbody'[c] = [i \in 1..Len(chunk[c]) |-> 0]
    <3>1. /\ UNCHANGED <<down, reset, server>> /\ ~reset[c] /\ spc[c] = "header"
          /\ up[c] = Frame(chunk[c]) /\ up[c] # << >> /\ Len(chunk[c]) \in 1..2
          /\ up' = [up EXCEPT ![c] = chunk[c]]
          /\ sbody' = [sbody EXCEPT ![c] = [i \in 1..Len(chunk[c]) |-> 0]]
          /\ spc' = [spc EXCEPT ![c] = "body"]
      BY <1>2, SessionReadsHeaderIs
    <3>2. QED
      BY <1>0, <3>1 DEF TypeOK
  <2>2. Len(sbody'[c]) = Len(chunk[c])
    BY <2>1
  <2>3. QED
    BY <1>0, <2>1, <2>2 DEF clientVars, readerVars
<1>3. CASE SessionReadsBody(c)
  <2>1. /\ UNCHANGED <<reset, server>> /\ ~reset[c] /\ spc[c] = "body" /\ spc'[c] = "write"
        /\ up[c] # << >> /\ up'[c] = << >> /\ down'[c] = down[c] \o Frame(Answer(c))
        /\ sbody'[c] = Answer(c)
    BY <1>0, <1>3, SessionReadsBodyIs DEF TypeOK
  <2>2. << >> \o Frame(Answer(c)) = Frame(Answer(c))
    <3>1. chunk[c] \in Seq(Nat) /\ Len(chunk[c]) \in 1..2
      BY <1>0, <2>1 DEF TypeOK, Bytes
    <3>2. QED
      BY <3>1, Framed DEF FrameBytes
  <2>3. Alive(c) => down'[c] = Frame(Answer(c)) /\ cpc[c] \in {"write", "read_header"}
    BY <1>0, <2>1, <2>2
  <2>4. server = "running"
    BY <1>0, <2>1 DEF Ends
  <2>5. result[c] # "ok"
    BY <1>0, <2>1, <2>4
  <2>6. QED
    BY <1>0, <2>1, <2>3, <2>5 DEF clientVars, readerVars
<1>4. CASE ResponseWritten(c)
  <2>1. /\ UNCHANGED <<up, down, reset, server, sbody>>
        /\ spc[c] = "write" /\ spc'[c] = "header"
    BY <1>0, <1>4 DEF ResponseWritten, netVars, TypeOK
  <2>2. QED
    BY <1>0, <2>1 DEF clientVars, readerVars
<1>5. CASE ConnectionReset(c)
  BY <1>0, <1>5 DEF ConnectionReset, TypeOK
<1>6. QED
  BY <1>1, <1>2, <1>3, <1>4, <1>5 DEF SessionStep

-----------------------------------------------------------------------------
(* All of them together.                                                      *)
LEMMA OwnStep ==
  ASSUME IInv, NEW c \in Clients, StepOf(c)
  PROVE  ClientInv(c)'
<1>1. CASE Crashes(c)
  <2>1. Struck(c)
    BY <1>1 DEF Crashes, ServerGoes, Struck
  <2>2. UNCHANGED <<clientVars, sbody, up, down, reset, cut>>
    BY <1>1, SessionEndIs DEF Crashes
  <2>3. UNCHANGED Rest(c)
    BY <2>2 DEF Rest, clientVars, readerVars
  <2>4. QED
    BY <2>1, <2>3, StruckInv DEF IInv
<1>2. CASE ~Crashes(c)
  <2>1. Counting(c)' /\ Ends(c)' /\ Blame(c)'
    BY <1>2, CountingStep, EndsStep, BlameStep
  <2>2. Talk(c)'
    BY <1>2, ContinuingTalk, ClientTalk, SessionTalk DEF StepOf, ClientStep
  <2>3. QED
    BY <2>1, <2>2 DEF ClientInv, Talk
<1>3. QED
  BY <1>1, <1>2

(* A crash has its cause in the session whose connection was reset, and keeps *)
(* it.                                                                        *)
LEMMA CauseStep ==
  ASSUME IInv, [Next]_vars
  PROVE  SuccessHarmsNobody'
<1> USE DEF SuccessHarmsNobody
<1>1. ASSUME NEW c \in Clients, Crashes(c)
      PROVE  reset'[c] /\ (c \in cut' \/ result'[c] \notin {"running", "ok"})
  <2>1. UNCHANGED <<clientVars, reset, cut>> /\ reset[c] /\ Serving(c)
    BY <1>1, SessionEndIs DEF Crashes
  <2>2. Ends(c) /\ Blame(c)
    BY DEF IInv, ClientInv
  <2>3. server = "running"
    BY <2>1, <2>2 DEF Ends
  <2>4. QED
    BY <2>1, <2>2, <2>3 DEF Blame, clientVars
<1>2. ASSUME NEW c \in Clients, StepOf(c), NEW d \in Clients, reset[d],
             d \in cut \/ result[d] \notin {"running", "ok"}
      PROVE  reset'[d] /\ (d \in cut' \/ result'[d] \notin {"running", "ok"})
  <2>1. CASE d # c
    <3>1. UNCHANGED Rest(d)
      BY <1>2, <2>1, Bystander
    <3>2. QED
      BY <1>2, <3>1 DEF Rest
  <2>2. CASE d = c
    <3>1. TypeOK /\ Counting(c)
      BY DEF IInv, ClientInv
    <3>2. CASE SessionStep(c) \/ ConnectionReset(c)
      <4>1. UNCHANGED clientVars
        BY <3>2, SessionsLeave
      <4>2. cut \subseteq cut' /\ reset'[c]
        <5>1. CASE SessionStep(c)
          BY <1>2, <2>2, <5>1, SessionEndIs, SessionReadsHeaderIs, SessionReadsBodyIs
          DEF SessionStep, ResponseWritten, netVars
        <5>2. CASE ConnectionReset(c)
          BY <1>2, <2>2, <5>2 DEF ConnectionReset
        <5>3. QED
          BY <3>2, <5>1, <5>2
      <4>3. QED
        BY <1>2, <2>2, <4>1, <4>2 DEF clientVars
    <3>3. CASE Fails(c)
      BY <1>2, <2>2, <3>1, <3>3 DEF Fails, Counting
    <3>4. CASE Resolved(c) \/ Establishes(c)
      BY <1>2, <2>2, <3>4 DEF Resolved, Establishes, netVars
    <3>5. ~reset[c] => FALSE
      BY <1>2, <2>2
    <3>6. ~ChunkWritten(c) /\ ~HeaderRead(c) /\ ~BodyRead(c) /\ ~Connected(c)
      BY <3>5, Continuing DEF ChunkWritten, HeaderRead, BodyRead, Continues
    <3>7. QED
      BY <1>2, <3>2, <3>3, <3>4, <3>6, Failing DEF StepOf, ClientStep
  <2>3. QED
    BY <2>1, <2>2
<1>3. CASE server = "crashed" /\ \E c \in Clients : StepOf(c)
  <2>1. PICK d \in Clients : reset[d] /\ (d \in cut \/ result[d] \notin {"running", "ok"})
    BY <1>3 DEF IInv
  <2>2. reset'[d] /\ (d \in cut' \/ result'[d] \notin {"running", "ok"})
    BY <1>2, <1>3, <2>1
  <2>3. QED
    BY <2>2
<1>4. CASE server # "crashed" /\ \E c \in Clients : StepOf(c)
  <2>1. PICK c \in Clients : StepOf(c)
    BY <1>4
  <2>2. server' = "crashed" => Crashes(c)
    <3>1. CASE Accepted(c) \/ SessionOperationFails(c)
      BY <1>4, <3>1, SessionEndIs DEF Crashes
    <3>2. CASE Connected(c) \/ BodyRead(c)
      BY <1>4, <3>2, Continuing DEF Continues
    <3>3. CASE ~(Accepted(c) \/ SessionOperationFails(c) \/ Connected(c) \/ BodyRead(c))
      BY <1>4, <2>1, <3>3, Failing, HeaderReadIs, SessionReadsHeaderIs, SessionReadsBodyIs
      DEF StepOf, ClientStep, SessionStep, Resolved, Establishes, ChunkWritten, Fails,
          ResponseWritten, ConnectionReset
    <3>4. QED
      BY <3>1, <3>2, <3>3
  <2>3. QED
    BY <1>1, <2>2
<1>5. CASE ServerStops
  BY <1>5 DEF ServerStops, ServerGoes
<1>6. CASE UNCHANGED vars
  BY <1>6 DEF IInv, vars, clientVars, netVars
<1>7. QED
  BY <1>3, <1>4, <1>5, <1>6 DEF Next, Ended, StepOf

LEMMA Step == IInv /\ [Next]_vars => IInv'
<1> SUFFICES ASSUME IInv, [Next]_vars PROVE IInv'
  OBVIOUS
<1>1. TypeOK' /\ SuccessHarmsNobody'
  BY TypeStep, CauseStep
<1>2. ASSUME NEW d \in Clients
      PROVE  ClientInv(d)'
  <2>1. ASSUME NEW c \in Clients, StepOf(c)
        PROVE  ClientInv(d)'
    <3>1. CASE d = c
      BY <2>1, <3>1, OwnStep
    <3>2. CASE d # c
      BY <2>1, <3>2, Bystander, SameInv, StruckInv DEF IInv
    <3>3. QED
      BY <3>1, <3>2
  <2>2. CASE ServerStops
    <3>1. Struck(d) /\ UNCHANGED Rest(d)
      BY <2>2 DEF ServerStops, ServerGoes, Struck, Rest, readerVars
    <3>2. QED
      BY <3>1, StruckInv DEF IInv
  <2>3. CASE UNCHANGED vars
    <3>1. UNCHANGED Rest(d) /\ UNCHANGED <<spc[d], fin[d], server>>
      BY <2>3 DEF vars, clientVars, readerVars, sessionVars, netVars, Rest
    <3>2. QED
      BY <3>1, SameInv DEF IInv
  <2>4. QED
    BY <2>1, <2>2, <2>3 DEF Next, Ended, StepOf
<1>3. QED
  BY <1>1, <1>2 DEF IInv

LEMMA Invariance == Spec => []IInv
BY Start, Step, PTL DEF Spec

-----------------------------------------------------------------------------
(* What is proved of the clients and their sessions.                          *)

(* Every variable of TCPClient, of its TCPSession and of their connection     *)
(* stays in its type: m_chunks_sent never runs past the file, and no body is  *)
(* larger than the buffers both ends reserve.                                 *)
THEOREM TypeCorrectness == Spec => []TypeOK
<1>1. IInv => TypeOK
  BY DEF IInv
<1>2. QED
  BY <1>1, Invariance, PTL

(* The two ends read headers and bodies in step, for any number of chunks and *)
(* wherever one of them goes away: what an async_read of HEADER_LENGTH bytes  *)
(* gets is a header.                                                          *)
THEOREM InStep == Spec => []StreamInStep
<1>1. IInv => StreamInStep
  BY DEF IInv, ClientInv, Streams, Awaited, Answer, StreamInStep
<1>2. QED
  BY <1>1, Invariance, PTL

(* However many clients there are, a client's error is its connection's or    *)
(* the server's, its exception that of a connection it has just got, and none *)
(* of them ends the server and all its sessions with a connection it has      *)
(* closed well or is still using.                                             *)
THEOREM FailuresHaveCauses == Spec => []FailureHasCause
<1>1. IInv => ErrorHasCause
  BY DEF IInv, ClientInv, Blame, ErrorHasCause
<1>2. IInv => FailureHasCause
  BY <1>1 DEF IInv, FailureHasCause
<1>3. QED
  BY <1>2, Invariance, PTL

(* A sequence that numbers its own elements.                                  *)
LEMMA Numbered ==
  ASSUME NEW S, NEW s \in Seq(S), \A i \in 1..Len(s) : s[i] = i
  PROVE  s = [i \in 1..Len(s) |-> i]
<1>1. s = [i \in 1..Len(s) |-> s[i]]
  OBVIOUS
<1>2. QED
  BY <1>1

(* stop_client_operations is called with success only when every chunk the    *)
(* ChunkReader returned in full has come back reversed, in order.             *)
THEOREM OkIsVerified == Spec => []OkMeansReadVerified
<1>1. ASSUME IInv
      PROVE  OkMeansReadVerified
  <2> SUFFICES ASSUME NEW c \in Clients, result[c] = "ok"
               PROVE  verified[c] = [i \in 1..nread[c] |-> i]
    BY DEF OkMeansReadVerified
  <2>1. TypeOK /\ Counting(c)
    BY <1>1 DEF IInv, ClientInv
  <2>2. Len(verified[c]) = nread[c]
    BY <2>1 DEF Counting
  <2>3. QED
    BY <2>1, <2>2, Numbered DEF TypeOK, Counting
<1>2. QED
  BY <1>1, Invariance, PTL

-----------------------------------------------------------------------------
(* The refinement.                                                            *)

(* What a step of a client changes of the variables of the contract.          *)
LEMMA OneMove ==
  ASSUME IInv, NEW c \in Clients, StepOf(c)
  PROVE  \/ UNCHANGED <<sent[c], verified[c], result[c], eof[c], nread[c]>>
         \/ /\ Alive(c) /\ sent'[c] \in {sent[c], sent[c] + 1}
            /\ \/ verified'[c] = verified[c]
               \/ /\ FullSent(c) /\ UnderWay(c)
                  /\ verified'[c] = Append(verified[c], nread[c])
<1> USE DEF Alive, UnderWay, readerVars, sessionVars, netVars
<1>0. TypeOK /\ Counting(c)
  BY DEF IInv, ClientInv
<1>1. CASE Resolved(c) \/ Establishes(c) \/ ChunkWritten(c) \/ HeaderRead(c)
  BY <1>1, HeaderReadIs DEF Resolved, Establishes, ChunkWritten
<1>2. CASE Connected(c)
  <2>1. Goes(c) \/ EndsWell(c, chunksSent[c])
    BY <1>0, <1>2, Looks DEF Connected, TypeOK
  <2>2. QED
    BY <1>2, <2>1 DEF Connected, Goes, EndsWell
<1>3. CASE BodyRead(c)
  <2>1. /\ cpc[c] = "read_body" /\ verified'[c] = VerifiedChunks(c)
        /\ SendNext(c, chunksSent[c] + 1) /\ chunksSent[c] + 1 \in Nat
        /\ FullSent(c) \/ PartSent(c)
    BY <1>0, <1>3, BodyReadIs DEF TypeOK, Counting
  <2>2. sent'[c] \in {sent[c], sent[c] + 1}
    BY <1>0, <2>1, Looks DEF Goes, EndsWell
  <2>3. QED
    BY <1>0, <2>1, <2>2, Counted
<1>4. CASE \/ ConnectThrows(c) \/ ConnectFails(c) \/ ServerEof(c)
           \/ OperationFails(c) \/ ResolveFails(c) \/ ClientDies(c)
  BY <1>4, Failing DEF Fails
<1>5. CASE SessionStep(c) \/ ConnectionReset(c)
  BY <1>5, SessionsLeave DEF clientVars
<1>6. QED
  BY <1>1, <1>2, <1>3, <1>4, <1>5 DEF StepOf, ClientStep

LEMMA EchoStep ==
  ASSUME IInv, IInv', NEW c \in Clients, StepOf(c)
  PROVE  Echo(c)!Next \/ UNCHANGED Echo(c)!vars
<1> SUFFICES ASSUME ~UNCHANGED <<sent[c], verified[c], result[c], eof[c], nread[c]>>
             PROVE  Echo(c)!Next
  BY DEF Echo!vars, Outcome, ReadFailed
<1>0. TypeOK /\ Counting(c) /\ TypeOK' /\ Counting(c)'
  BY DEF IInv, ClientInv
<1>1. /\ Alive(c) /\ sent'[c] \in {sent[c], sent[c] + 1}
      /\ \/ verified'[c] = verified[c]
         \/ /\ FullSent(c) /\ UnderWay(c)
            /\ verified'[c] = Append(verified[c], nread[c])
  BY OneMove
<1>2. Outcome(c) = "running"
  BY <1>0, <1>1 DEF Counting, Outcome
<1>3. Echo(c)!Send
  BY <1>0, <1>1 DEF TypeOK, Echo!Send
<1>4. Echo(c)!Verify
  <2>1. CASE verified'[c] = verified[c]
    BY <2>1 DEF Echo!Verify
  <2>2. CASE /\ FullSent(c) /\ UnderWay(c)
             /\ verified'[c] = Append(verified[c], nread[c])
    <3>1. /\ nread[c] = Len(verified[c]) + 1 /\ sent[c] = nread[c]
          /\ \A i \in 1..Len(verified[c]) : verified[c][i] = i
      BY <1>0, <2>2 DEF Counting, FullSent
    <3>2. Len(verified[c]) \in Nat
      BY <1>0, LenProperties DEF TypeOK
    <3>3. nread[c] \in 1..sent[c] /\ nread[c] > Echo(c)!LastVerified
      BY <3>1, <3>2 DEF Echo!LastVerified
    <3>4. QED
      BY <2>2, <3>3 DEF Echo!Verify
  <2>3. QED
    BY <1>1, <2>1, <2>2
<1>5. Echo(c)!Conclude
  <2>1. Outcome(c)' \in {"running", "complete", "incomplete"}
    BY DEF Outcome
  <2>2. ASSUME Outcome(c)' = "complete"
        PROVE  verified'[c] = [i \in 1..NumChunks |-> i]
    <3>1. result'[c] = "ok" /\ ~ReadFailed(c)'
      BY <2>2 DEF Outcome
    <3>2. Len(verified'[c]) = NumChunks
      BY <1>0, <3>1 DEF Counting
    <3>3. verified'[c] \in Seq(1..NumChunks) /\ \A i \in 1..Len(verified'[c]) : verified'[c][i] = i
      BY <1>0 DEF TypeOK, Counting
    <3>4. QED
      BY <3>2, <3>3, Numbered
  <2>3. QED
    BY <2>1, <2>2 DEF Echo!Conclude
<1>6. QED
  BY <1>2, <1>3, <1>4, <1>5 DEF Echo!Next

(* Each client implements the contract that all the benchmarks share, whoever *)
(* else the server serves and however it ends.                                *)
THEOREM ImplementsEcho == Spec => EchoSpec
<1>1. Init => \A c \in Clients : Echo(c)!Init
  BY DEF Init, Echo!Init, Outcome
<1>2. ASSUME IInv, IInv', [Next]_vars
      PROVE  [\A c \in Clients : Echo(c)!Next \/ UNCHANGED Echo(c)!vars]_vars
  <2> SUFFICES ASSUME NEW c \in Clients, ~UNCHANGED vars
               PROVE  Echo(c)!Next \/ UNCHANGED Echo(c)!vars
    OBVIOUS
  <2>1. ASSUME NEW d \in Clients, StepOf(d)
        PROVE  Echo(c)!Next \/ UNCHANGED Echo(c)!vars
    <3>1. CASE c = d
      BY <1>2, <2>1, <3>1, EchoStep
    <3>2. CASE c # d
      <4>1. UNCHANGED Rest(c)
        BY <1>2, <2>1, <3>2, Bystander
      <4>2. QED
        BY <4>1 DEF Rest, Echo!vars, Outcome, ReadFailed
    <3>3. QED
      BY <3>1, <3>2
  <2>2. CASE ServerStops
    BY <2>2 DEF ServerStops, readerVars, Echo!vars, Outcome, ReadFailed
  <2>3. QED
    BY <1>2, <2>1, <2>2 DEF Next, Ended, StepOf
<1>3. QED
  BY <1>1, <1>2, Invariance, PTL DEF Spec, EchoSpec
==============================================================================
