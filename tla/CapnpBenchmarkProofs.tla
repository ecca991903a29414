-------------------------- MODULE CapnpBenchmarkProofs --------------------------
(* Proofs about CapnpBenchmark, for every set of clients and every number of  *)
(* chunks.                                                                    *)
EXTENDS CapnpBenchmark, FramingProofs

-----------------------------------------------------------------------------
(* The inductive invariant, client by client.                                 *)

Alive(c) == cpc[c] \notin Gone

(* The chunk under way is the next one of the file, or the part of it that a  *)
(* failing read got.                                                          *)
FullSent(c) ==
  /\ ~failed[c] /\ sent[c] = nread[c] /\ nread[c] = Len(verified[c]) + 1
  /\ chunk[c] = Payload(nread[c])
PartSent(c) ==
  /\ failed[c] /\ nread[c] = Len(verified[c])
  /\ Len(chunk[c]) = 1

(* The bookkeeping of the loop over the chunks.                               *)
Counting(c) ==
  /\ \A i \in 1..Len(verified[c]) : verified[c][i] = i
  /\ cpc[c] \in {"connect", "start"} =>
       ~failed[c] /\ nread[c] = 0 /\ sent[c] = 0 /\ verified[c] = << >>
  /\ cpc[c] = "chunk" => FullSent(c) \/ PartSent(c)
  /\ Alive(c) => errors[c] = {}
  /\ cpc[c] # "exited" => csv[c] = "none"

(* A reply on its way answers the call that the client waits for.             *)
Conversation(c) ==
  /\ cpc[c] = "connect" => call[c] = Nothing /\ reply[c] = Nothing
  /\ cpc[c] \in {"start", "done"} =>
       /\ call[c] \in {Nothing, Call(cpc[c], << >>)}
       /\ reply[c] \in {Nothing, Call(cpc[c], << >>)}
  /\ cpc[c] = "chunk" =>
       /\ call[c] \in {Nothing, Call("chunk", chunk[c])}
       /\ reply[c] \in {Nothing, Failure, Call("chunk", Reversed(chunk[c]))}

(* How a connection ends, and its client.                                     *)
Blame(c) ==
  /\ conn[c] = "closed" => ~Alive(c) \/ server = "gone"
  /\ "disconnected" \in errors[c] => conn[c] = "broken" \/ server = "gone"
  /\ "mismatch" \notin errors[c]
  /\ cpc[c] = "exited" =>
       (errors[c] = {} <=> verified[c] = [i \in 1..NumChunks |-> i] /\ csv[c] = "results")

IInv ==
  /\ TypeOK
  /\ \A c \in Clients : Counting(c) /\ Conversation(c) /\ Blame(c)

-----------------------------------------------------------------------------
(* What SendNext comes to: the next chunk, a part of it, or the end.          *)
SendsData(c, data, n, broken) ==
  /\ chunk' = [chunk EXCEPT ![c] = data]
  /\ nread' = [nread EXCEPT ![c] = n]
  /\ failed' = [failed EXCEPT ![c] = broken]
SendsChunk(c, data) ==
  /\ nread[c] < NumChunks /\ ~failed[c]
  /\ sent' = [sent EXCEPT ![c] = sent[c] + 1]
  /\ Sends(c, "chunk", data)
SendsFull(c) ==
  LET n == nread[c] + 1
  IN  SendsData(c, Payload(n), n, FALSE) /\ SendsChunk(c, Payload(n))
SendsPart(c) ==
  \E data \in Seq(Nat) :
    Len(data) = 1 /\ SendsData(c, data, nread[c], TRUE) /\ SendsChunk(c, data)
SendsEnd(c) ==
  /\ SendsData(c, << >>, nread[c], TRUE)
  /\ UNCHANGED sent
  /\ Sends(c, "done", << >>)

LEMMA NextSends ==
  ASSUME TypeOK, NEW c \in Clients, SendNext(c)
  PROVE  SendsFull(c) \/ SendsPart(c) \/ SendsEnd(c)
<1> DEFINE n == nread[c] + 1
<1>1. nread[c] \in Nat /\ n \in Nat
  BY NumChunksAssumption DEF TypeOK
<1>2. /\ Len(Payload(n)) = 2 /\ Len(<< >>) = 0
      /\ SubSeq(Payload(n), 1, 1) \in Seq(Nat) /\ Len(SubSeq(Payload(n), 1, 1)) = 1
  BY <1>1 DEF Payload
<1>3. Payload(n) # << >> /\ SubSeq(Payload(n), 1, 1) # << >>
  <2>1. Len(Payload(n)) # Len(<< >>) /\ Len(SubSeq(Payload(n), 1, 1)) # Len(<< >>)
    BY <1>2
  <2>2. QED
    BY <2>1, Apart
<1>4. PICK data \in NextChunks(c) :
        /\ SendsData(c, data, IF Len(data) = 2 THEN nread[c] + 1 ELSE nread[c], Len(data) # 2)
        /\ IF data = << >>
           THEN Sends(c, "done", << >>) /\ UNCHANGED sent
           ELSE Sends(c, "chunk", data) /\ sent' = [sent EXCEPT ![c] = sent[c] + 1]
  BY DEF SendNext, SendsData
<1>5. CASE data = << >>
  <2>1. Len(data) # 2 /\ (Len(data) # 2) = TRUE
    BY <1>2, <1>5
  <2>2. QED
    BY <1>4, <1>5, <2>1 DEF SendsEnd
<1>6. CASE data # << >>
  <2>1. /\ ~failed[c] /\ nread[c] < NumChunks
        /\ data \in {Payload(n), SubSeq(Payload(n), 1, 1)}
    BY <1>1, <1>4, <1>6, NumChunksAssumption DEF NextChunks
  <2>2. CASE data = Payload(n)
    BY <1>2, <1>3, <1>4, <2>1, <2>2 DEF SendsFull, SendsChunk
  <2>3. CASE data = SubSeq(Payload(n), 1, 1)
    <3>1. data \in Seq(Nat) /\ Len(data) = 1 /\ data # << >>
      BY <1>2, <1>3, <2>3
    <3>2. Len(data) # 2 /\ (Len(data) # 2) = TRUE
      BY <3>1
    <3>3. SendsData(c, data, nread[c], TRUE) /\ SendsChunk(c, data)
      BY <1>4, <2>1, <3>1, <3>2 DEF SendsChunk
    <3>4. QED
      BY <3>1, <3>3 DEF SendsPart
  <2>4. QED
    BY <2>1, <2>2, <2>3
<1>7. QED
  BY <1>5, <1>6

-----------------------------------------------------------------------------
(* Types.                                                                     *)
LEMMA Start == Init => IInv
<1> SUFFICES ASSUME Init PROVE IInv
  OBVIOUS
<1>1. << >> \in Seq(Nat) /\ << >> \in Seq(1..NumChunks) /\ 0 \in 0..NumChunks
  BY NumChunksAssumption
<1>2. Nothing \in Message
  BY <1>1 DEF Nothing, Call, Message
<1>3. TypeOK
  BY <1>1, <1>2 DEF Init, TypeOK
<1>4. ASSUME NEW c \in Clients
      PROVE  Counting(c) /\ Conversation(c) /\ Blame(c)
  BY <1>4 DEF Init, Counting, Conversation, Blame, Alive, Gone
<1>5. QED
  BY <1>3, <1>4 DEF IInv

LEMMA SendsTypes ==
  ASSUME TypeOK, NEW c \in Clients, SendNext(c), ~failed[c] => sent[c] <= nread[c]
  PROVE  /\ chunk' \in [Clients -> Seq(Nat)] /\ nread' \in [Clients -> 0..NumChunks]
         /\ failed' \in [Clients -> BOOLEAN] /\ sent' \in [Clients -> 0..NumChunks]
         /\ cpc' \in [Clients -> {"connect", "start", "chunk", "done", "exited", "killed"}]
         /\ call' \in [Clients -> Message] /\ UNCHANGED csv
<1> USE NumChunksAssumption DEF TypeOK, SendsData, Sends
<1>1. CASE SendsFull(c)
  <2>1. nread[c] + 1 \in 0..NumChunks /\ sent[c] + 1 \in 0..NumChunks
    BY <1>1 DEF SendsFull, SendsChunk
  <2>2. Payload(nread[c] + 1) \in Seq(Nat)
    BY <2>1, ChunkData
  <2>3. Call("chunk", Payload(nread[c] + 1)) \in Message
    BY <2>2 DEF Call, Message
  <2>4. QED
    BY <1>1, <2>1, <2>2, <2>3 DEF SendsFull, SendsChunk
<1>2. CASE SendsPart(c)
  <2>1. PICK data \in Seq(Nat) :
          Len(data) = 1 /\ SendsData(c, data, nread[c], TRUE) /\ SendsChunk(c, data)
    BY <1>2 DEF SendsPart
  <2>2. sent[c] + 1 \in 0..NumChunks
    BY <2>1 DEF SendsChunk
  <2>3. Call("chunk", data) \in Message
    BY DEF Call, Message
  <2>4. QED
    BY <2>1, <2>2, <2>3 DEF SendsChunk
<1>3. CASE SendsEnd(c)
  <2>1. << >> \in Seq(Nat)
    OBVIOUS
  <2>2. Call("done", << >>) \in Message
    BY <2>1 DEF Call, Message
  <2>3. QED
    BY <1>3, <2>1, <2>2 DEF SendsEnd
<1>4. QED
  BY <1>1, <1>2, <1>3, NextSends

ErrorKinds == {"connect", "remote", "disconnected", "file", "mismatch", "not_all_verified"}

LEMMA EndsTypes ==
  ASSUME TypeOK, NEW c \in Clients, NEW kinds \in SUBSET ErrorKinds,
         NEW file \in {"none", "results", "kj_error", "std_error"}, Ends(c, file, kinds)
  PROVE  /\ cpc' \in [Clients -> {"connect", "start", "chunk", "done", "exited", "killed"}]
         /\ csv' \in [Clients -> {"none", "results", "kj_error", "std_error"}]
         /\ errors' \in [Clients -> SUBSET ErrorKinds]
         /\ UNCHANGED call
<1>1. errors \in [Clients -> SUBSET ErrorKinds]
  BY DEF TypeOK, ErrorKinds
<1>2. errors[c] \cup kinds \in SUBSET ErrorKinds
  BY <1>1
<1>3. QED
  BY <1>1, <1>2 DEF Ends, Logged, TypeOK

LEMMA ClientTypes ==
  ASSUME TypeOK, NEW c \in Clients, Counting(c), ClientStep(c) \/ ClientDies(c)
  PROVE  TypeOK'
<1> USE DEF fileVars, serverVars, Logged
<1>1. CASE Connects(c)
  <2>1. << >> \in Seq(Nat)
    OBVIOUS
  <2>2. Call("start", << >>) \in Message
    BY <2>1 DEF Call, Message
  <2>3. QED
    BY <1>1, <2>2 DEF Connects, Sends, TypeOK
<1>2. CASE ConnectThrows(c) \/ WaitThrows(c)
  <2>1. \E kinds \in SUBSET ErrorKinds : Ends(c, "kj_error", kinds)
    BY <1>2 DEF ConnectThrows, WaitThrows, ErrorKinds
  <2>2. QED
    BY <1>2, <2>1, EndsTypes DEF ConnectThrows, WaitThrows, TypeOK, ErrorKinds
<1>10. CASE ClientDies(c)
  BY <1>10 DEF ClientDies, TypeOK
<1>3. << >> \in Seq(Nat)
  OBVIOUS
<1>4. Nothing \in Message /\ Call("done", << >>) \in Message
  BY <1>3 DEF Nothing, Call, Message
<1>5. CASE GetsHandler(c)
  <2>1. ~failed[c] => sent[c] <= nread[c]
    BY <1>5 DEF GetsHandler, Receives, Counting
  <2>2. QED
    BY <1>4, <1>5, <2>1, SendsTypes DEF GetsHandler, Receives, TypeOK
<1>6. CASE GetsHandlerNoFile(c) \/ GetsDone(c)
  <2>1. \E kinds \in SUBSET ErrorKinds, file \in {"results", "std_error"} :
          Ends(c, file, kinds)
    BY <1>6 DEF GetsHandlerNoFile, GetsDone, ErrorKinds
  <2>2. reply' \in [Clients -> Message]
    BY <1>4, <1>6 DEF GetsHandlerNoFile, GetsDone, Receives, TypeOK
  <2>3. QED
    BY <1>6, <2>1, <2>2, EndsTypes DEF GetsHandlerNoFile, GetsDone, TypeOK, ErrorKinds
<1>7. CASE GetsChunk(c) /\ reply[c].data = Reversed(chunk[c])
  <2>1. ~failed[c] => sent[c] <= nread[c]
    BY <1>7, NumChunksAssumption
    DEF GetsChunk, Receives, Counting, FullSent, PartSent, TypeOK
  <2>2. verified' \in [Clients -> Seq(1..NumChunks)]
    <3>1. CASE FullSent(c)
      <4>1. nread[c] \in 1..NumChunks
        BY <3>1, LenProperties DEF FullSent, TypeOK
      <4>2. Append(verified[c], nread[c]) \in Seq(1..NumChunks)
        BY <4>1, AppendProperties DEF TypeOK
      <4>3. QED
        BY <1>7, <4>2 DEF GetsChunk, VerifiedChunks, TypeOK
    <3>2. CASE PartSent(c)
      <4>1. Len(Payload(nread[c])) = 2 /\ Len(chunk[c]) = 1
        BY <3>2, NumChunksAssumption, ChunkData DEF PartSent, TypeOK
      <4>2. chunk[c] # Payload(nread[c])
        BY <4>1
      <4>3. QED
        BY <1>7, <4>2 DEF GetsChunk, VerifiedChunks, TypeOK
    <3>3. QED
      BY <1>7, <3>1, <3>2 DEF GetsChunk, Receives, Counting
  <2>3. QED
    BY <1>4, <1>7, <2>1, <2>2, SendsTypes DEF GetsChunk, Receives, TypeOK
<1>8. CASE GetsChunk(c) /\ reply[c].data # Reversed(chunk[c])
  <2>1. errors[c] \cup {"mismatch"} \in SUBSET ErrorKinds
    BY DEF TypeOK, ErrorKinds
  <2>2. errors' \in [Clients -> SUBSET ErrorKinds]
    <3>1. errors' = [errors EXCEPT ![c] = @ \cup {"mismatch"}]
      BY <1>8, Zenon DEF GetsChunk
    <3>2. errors \in [Clients -> SUBSET ErrorKinds]
      BY DEF TypeOK, ErrorKinds
    <3>3. QED
      BY ONLY <2>1, <3>1, <3>2
  <2>3. /\ cpc' \in [Clients -> {"connect", "start", "chunk", "done", "exited", "killed"}]
        /\ call' \in [Clients -> Message] /\ reply' \in [Clients -> Message]
    <3>1. Sends(c, "done", << >>) /\ Receives(c, "chunk")
      BY <1>8 DEF GetsChunk
    <3>2. QED
      BY <1>4, <3>1 DEF Receives, Sends, TypeOK
  <2>4. UNCHANGED <<chunk, nread, failed, sent, verified, csv, conn, server>>
    BY <1>8 DEF GetsChunk, Sends
  <2>5. QED
    BY <2>2, <2>3, <2>4 DEF TypeOK, ErrorKinds
<1>9. QED
  BY <1>1, <1>2, <1>5, <1>6, <1>7, <1>8, <1>10 DEF ClientStep

LEMMA ServerTypes ==
  ASSUME TypeOK, NEW c \in Clients,
         ServerStep(c) \/ ProcessChunkThrows(c) \/ ConnectionBreaks(c)
  PROVE  TypeOK'
<1> USE DEF TypeOK, clientVars, fileVars, serverVars
<1>1. << >> \in Seq(Nat)
  OBVIOUS
<1>2. /\ Nothing \in Message /\ Failure \in Message
      /\ Call("start", << >>) \in Message /\ Call("done", << >>) \in Message
  BY <1>1 DEF Nothing, Failure, Call, Message
<1>3. Call("chunk", Reversed(call[c].data)) \in Message
  <2>1. call[c].data \in Seq(Nat)
    BY DEF Message
  <2>2. QED
    BY <2>1, ReversedType DEF Call, Message
<1>4. CASE Accepts(c) \/ Disconnects(c)
  BY <1>4 DEF Accepts, Disconnects
<1>9. ASSUME NEW m \in Message, Answers(c, m) PROVE TypeOK'
  BY <1>2, <1>9 DEF Answers
<1>5. CASE StartStreaming(c) \/ DoneStreaming(c) \/ ProcessChunkThrows(c)
  <2> HIDE DEF TypeOK
  <2>1. QED
    BY <1>2, <1>5, <1>9 DEF StartStreaming, DoneStreaming, ProcessChunkThrows
<1>6. CASE ProcessChunk(c)
  <2> HIDE DEF TypeOK
  <2>1. QED
    BY <1>3, <1>6, <1>9 DEF ProcessChunk
<1>7. CASE ConnectionBreaks(c)
  BY <1>2, <1>7 DEF ConnectionBreaks
<1>8. QED
  BY <1>4, <1>5, <1>6, <1>7 DEF ServerStep

LEMMA TypeStep ==
  ASSUME TypeOK, \A c \in Clients : Counting(c), [Next]_vars
  PROVE  TypeOK'
<1>1. CASE AcceptThrows
  BY <1>1 DEF AcceptThrows, TypeOK, clientVars, fileVars
<1>2. CASE UNCHANGED vars
  BY <1>2 DEF TypeOK, vars, clientVars, fileVars, serverVars
<1>3. QED
  BY <1>1, <1>2, ClientTypes, ServerTypes DEF Next, Ended

-----------------------------------------------------------------------------
(* A step of one client, or for it, leaves the others alone.                  *)
Local(c) == <<cpc[c], chunk[c], nread[c], failed[c], sent[c], verified[c], errors[c],
              csv[c], call[c], reply[c], conn[c]>>

StepOf(c) ==
  \/ ClientStep(c) \/ ServerStep(c)
  \/ ClientDies(c) \/ ProcessChunkThrows(c) \/ ConnectionBreaks(c)

LEMMA OthersUnchanged ==
  ASSUME TypeOK, NEW c \in Clients, NEW d \in Clients, d # c, StepOf(c)
  PROVE  UNCHANGED Local(d) /\ UNCHANGED server
<1> USE DEF Local, clientVars, fileVars, serverVars, TypeOK
<1>1. CASE Connects(c)
  BY <1>1 DEF Connects, Sends
<1>2. CASE ConnectThrows(c) \/ WaitThrows(c) \/ GetsHandlerNoFile(c) \/ GetsDone(c)
  BY <1>2 DEF ConnectThrows, WaitThrows, GetsHandlerNoFile, GetsDone, Receives, Ends, Logged
<1>3. CASE GetsHandler(c)
  BY <1>3 DEF GetsHandler, Receives, SendNext, Sends
<1>4. CASE GetsChunk(c)
  BY <1>4 DEF GetsChunk, Receives, SendNext, Sends, Logged
<1>5. CASE ClientDies(c) \/ Accepts(c) \/ Disconnects(c) \/ ConnectionBreaks(c)
  BY <1>5 DEF ClientDies, Accepts, Disconnects, ConnectionBreaks
<1>6. CASE \/ StartStreaming(c) \/ ProcessChunk(c) \/ DoneStreaming(c)
           \/ ProcessChunkThrows(c)
  BY <1>6 DEF StartStreaming, ProcessChunk, DoneStreaming, ProcessChunkThrows, Answers
<1>7. QED
  BY <1>1, <1>2, <1>3, <1>4, <1>5, <1>6 DEF StepOf, ClientStep, ServerStep

(* The loop over the chunks.                                                  *)
LEMMA Looks ==
  ASSUME TypeOK, NEW c \in Clients, SendNext(c)
  PROVE  \/ /\ cpc'[c] = "chunk" /\ chunk'[c] = Payload(nread'[c])
            /\ ~failed[c] /\ nread'[c] = nread[c] + 1 /\ ~failed'[c]
            /\ sent'[c] = sent[c] + 1 /\ call'[c] = Call("chunk", chunk'[c])
         \/ /\ cpc'[c] = "chunk" /\ Len(chunk'[c]) = 1
            /\ ~failed[c] /\ nread'[c] = nread[c] /\ failed'[c]
            /\ sent'[c] = sent[c] + 1 /\ call'[c] = Call("chunk", chunk'[c])
         \/ /\ cpc'[c] = "done" /\ call'[c] = Call("done", << >>)
            /\ sent'[c] = sent[c]
<1>1. CASE SendsFull(c)
  BY <1>1 DEF SendsFull, SendsData, SendsChunk, Sends, TypeOK
<1>2. CASE SendsPart(c)
  BY <1>2 DEF SendsPart, SendsData, SendsChunk, Sends, TypeOK
<1>3. CASE SendsEnd(c)
  BY <1>3 DEF SendsEnd, SendsData, Sends, TypeOK
<1>4. QED
  BY <1>1, <1>2, <1>3, NextSends

(* A chunk that comes back adds its number to those verified.                 *)
LEMMA Counted ==
  ASSUME TypeOK, NEW c \in Clients, FullSent(c) \/ PartSent(c)
  PROVE  \/ FullSent(c) /\ VerifiedChunks(c) = Append(verified[c], nread[c])
         \/ PartSent(c) /\ VerifiedChunks(c) = verified[c]
<1>1. CASE FullSent(c)
  BY <1>1 DEF FullSent, VerifiedChunks
<1>2. CASE PartSent(c)
  <2>1. Len(Payload(nread[c])) = 2 /\ Len(chunk[c]) = 1
    BY <1>2, NumChunksAssumption, ChunkData DEF PartSent, TypeOK
  <2>2. chunk[c] # Payload(nread[c])
    BY <2>1
  <2>3. QED
    BY <1>2, <2>2 DEF VerifiedChunks
<1>3. QED
  BY <1>1, <1>2

LEMMA CountingStep ==
  ASSUME IInv, NEW c \in Clients, StepOf(c)
  PROVE  Counting(c)'
<1> USE DEF Counting, FullSent, PartSent, Alive, Gone, fileVars
<1>0. TypeOK /\ Counting(c) /\ Conversation(c)
  BY DEF IInv
<1>1. CASE Connects(c)
  BY <1>0, <1>1 DEF Connects, Sends, TypeOK
<1>2. CASE ConnectThrows(c) \/ WaitThrows(c) \/ GetsHandlerNoFile(c) \/ GetsDone(c)
  <2>1. UNCHANGED <<verified, chunk, nread, failed, sent>> /\ cpc'[c] = "exited"
    BY <1>0, <1>2 DEF ConnectThrows, WaitThrows, GetsHandlerNoFile, GetsDone, Ends, TypeOK
  <2>2. QED
    BY <1>0, <2>1
<1>3. CASE GetsHandler(c)
  <2>1. /\ ~failed[c] /\ nread[c] = 0 /\ sent[c] = 0 /\ verified[c] = << >>
        /\ errors[c] = {} /\ csv[c] = "none" /\ Len(<< >>) = 0
        /\ UNCHANGED <<verified, errors>> /\ SendNext(c)
    BY <1>0, <1>3 DEF GetsHandler, Receives
  <2>2. UNCHANGED csv
    BY <2>1, <1>0, SendsTypes
  <2>3. QED
    BY <1>0, <2>1, <2>2, Looks
<1>4. CASE GetsChunk(c) /\ reply[c].data = Reversed(chunk[c])
  <2>1. /\ FullSent(c) \/ PartSent(c)
        /\ errors[c] = {} /\ csv[c] = "none"
        /\ verified'[c] = VerifiedChunks(c) /\ UNCHANGED errors /\ SendNext(c)
    BY <1>0, <1>4 DEF GetsChunk, Receives, TypeOK
  <2>2. UNCHANGED csv
    BY <2>1, <1>0, SendsTypes
  <2>3. Len(verified[c]) \in Nat /\ nread[c] \in Nat
    BY <1>0, LenProperties, NumChunksAssumption DEF TypeOK
  <2>4. CASE FullSent(c) /\ VerifiedChunks(c) = Append(verified[c], nread[c])
    <3>1. /\ Len(verified'[c]) = nread[c]
          /\ \A i \in 1..Len(verified'[c]) : verified'[c][i] = i
      BY <1>0, <2>1, <2>3, <2>4, AppendProperties DEF TypeOK
    <3>2. QED
      BY <1>0, <2>1, <2>2, <2>3, <2>4, <3>1, Looks
  <2>5. CASE PartSent(c) /\ VerifiedChunks(c) = verified[c]
    BY <1>0, <2>1, <2>2, <2>3, <2>5, Looks
  <2>6. QED
    BY <1>0, <2>1, <2>4, <2>5, Counted
<1>5. CASE GetsChunk(c) /\ reply[c].data # Reversed(chunk[c])
  <2>1. reply[c].method = "chunk" /\ cpc[c] = "chunk"
    BY <1>5 DEF GetsChunk, Receives
  <2>2. FALSE
    BY <1>0, <1>5, <2>1 DEF Conversation, Call, Nothing, Failure
  <2>3. QED
    BY <2>2
<1>6. CASE ClientDies(c)
  BY <1>0, <1>6 DEF ClientDies, TypeOK
<1>7. CASE ServerStep(c) \/ ProcessChunkThrows(c) \/ ConnectionBreaks(c)
  <2>1. UNCHANGED clientVars
    BY <1>7 DEF ServerStep, Accepts, StartStreaming, ProcessChunk, DoneStreaming,
       Disconnects, ProcessChunkThrows, Answers, ConnectionBreaks
  <2>2. QED
    BY <1>0, <2>1 DEF clientVars
<1>8. QED
  BY <1>1, <1>2, <1>3, <1>4, <1>5, <1>6, <1>7 DEF StepOf, ClientStep

(* The calls and their replies.                                               *)
LEMMA ConversationStep ==
  ASSUME IInv, NEW c \in Clients, StepOf(c)
  PROVE  Conversation(c)'
<1> USE DEF Conversation, fileVars
<1>0. TypeOK /\ Counting(c) /\ Conversation(c)
  BY DEF IInv
<1>1. CASE Connects(c)
  BY <1>0, <1>1 DEF Connects, Sends, TypeOK
<1>2. CASE ConnectThrows(c) \/ WaitThrows(c) \/ GetsHandlerNoFile(c) \/ GetsDone(c)
  <2>1. cpc'[c] = "exited"
    BY <1>0, <1>2 DEF ConnectThrows, WaitThrows, GetsHandlerNoFile, GetsDone, Ends, TypeOK
  <2>2. QED
    BY <2>1
<1>3. CASE \/ GetsHandler(c)
           \/ GetsChunk(c) /\ reply[c].data = Reversed(chunk[c])
  <2>1. SendNext(c) /\ reply'[c] = Nothing
    BY <1>0, <1>3 DEF GetsHandler, GetsChunk, Receives, TypeOK
  <2>2. QED
    BY <1>0, <2>1, Looks
<1>4. CASE GetsChunk(c) /\ reply[c].data # Reversed(chunk[c])
  <2>1. Sends(c, "done", << >>) /\ reply'[c] = Nothing
    BY <1>0, <1>4 DEF GetsChunk, Receives, TypeOK
  <2>2. QED
    BY <1>0, <2>1 DEF Sends, TypeOK
<1>5. CASE ClientDies(c)
  BY <1>0, <1>5 DEF ClientDies, TypeOK
<1>6. CASE \/ StartStreaming(c) \/ ProcessChunk(c) \/ DoneStreaming(c)
           \/ ProcessChunkThrows(c)
  <2>1. /\ call[c] # Nothing /\ call'[c] = Nothing
        /\ UNCHANGED <<cpc, chunk>>
        /\ \/ call[c].method = "start" /\ reply'[c] = Call("start", << >>)
           \/ call[c].method = "done" /\ reply'[c] = Call("done", << >>)
           \/ /\ call[c].method = "chunk"
              /\ reply'[c] \in {Failure, Call("chunk", Reversed(call[c].data))}
    BY <1>0, <1>6 DEF StartStreaming, ProcessChunk, DoneStreaming, ProcessChunkThrows,
       Answers, clientVars, TypeOK
  <2>2. /\ cpc[c] = "start" => call[c].method = "start"
        /\ cpc[c] = "done" => call[c].method = "done"
        /\ cpc[c] = "chunk" => call[c].method = "chunk" /\ call[c].data = chunk[c]
        /\ cpc[c] # "connect"
    BY <1>0, <2>1 DEF Call
  <2>3. QED
    BY <2>1, <2>2
<1>7. CASE ConnectionBreaks(c)
  BY <1>0, <1>7 DEF ConnectionBreaks, clientVars, TypeOK
<1>8. CASE Accepts(c) \/ Disconnects(c)
  BY <1>0, <1>8 DEF Accepts, Disconnects, clientVars
<1>9. QED
  BY <1>1, <1>2, <1>3, <1>4, <1>5, <1>6, <1>7, <1>8 DEF StepOf, ClientStep, ServerStep

(* The end of a connection, and of its client.                                *)
LEMMA BlameStep ==
  ASSUME IInv, NEW c \in Clients, StepOf(c)
  PROVE  Blame(c)'
<1> USE DEF Blame, Alive, Gone, fileVars, serverVars
<1>0. TypeOK /\ Counting(c) /\ Conversation(c) /\ Blame(c)
  BY DEF IInv
<1>1. CASE Connects(c)
  BY <1>0, <1>1 DEF Connects, Sends, Counting, TypeOK
<1>2. CASE ConnectThrows(c) \/ WaitThrows(c) \/ GetsHandlerNoFile(c)
  <2>1. /\ UNCHANGED <<conn, server>> /\ cpc'[c] = "exited"
        /\ csv'[c] \in {"kj_error", "std_error"}
        /\ \/ errors'[c] = errors[c] \cup {"disconnected"} /\ conn[c] \in {"closed", "broken"}
           \/ \E kind \in {"connect", "remote", "file"} : errors'[c] = errors[c] \cup {kind}
    BY <1>0, <1>2
    DEF ConnectThrows, WaitThrows, GetsHandlerNoFile, Ends, Logged, TypeOK
  <2>2. Alive(c)
    BY <1>2 DEF ConnectThrows, WaitThrows, GetsHandlerNoFile, Receives
  <2>3. QED
    BY <1>0, <2>1, <2>2
<1>3. CASE GetsDone(c)
  <2>1. /\ UNCHANGED <<conn, server, verified>> /\ cpc'[c] = "exited"
        /\ csv'[c] = "results" /\ errors[c] = {}
        /\ errors'[c] = IF Len(verified[c]) = NumChunks THEN {} ELSE {"not_all_verified"}
    BY <1>0, <1>3 DEF GetsDone, Receives, Ends, Logged, Counting, TypeOK
  <2>2. Len(verified[c]) = NumChunks <=> verified[c] = [i \in 1..NumChunks |-> i]
    <3>1. verified[c] \in Seq(1..NumChunks) /\ \A i \in 1..Len(verified[c]) : verified[c][i] = i
      BY <1>0 DEF Counting, TypeOK
    <3>2. Len(verified[c]) \in Nat /\ verified[c] = [i \in 1..Len(verified[c]) |-> verified[c][i]]
      BY <3>1, LenProperties
    <3>3. ASSUME verified[c] = [i \in 1..NumChunks |-> i]
          PROVE  Len(verified[c]) = NumChunks
      BY <3>3, NumChunksAssumption
    <3>4. ASSUME Len(verified[c]) = NumChunks
          PROVE  verified[c] = [i \in 1..NumChunks |-> i]
      BY <3>1, <3>2, <3>4
    <3>5. QED
      BY <3>3, <3>4
  <2>3. QED
    BY <1>0, <2>1, <2>2
<1>4. CASE GetsHandler(c) \/ GetsChunk(c)
  <2>1. /\ UNCHANGED <<conn, server>>
        /\ cpc[c] \in {"start", "chunk"} /\ cpc'[c] \in {"chunk", "done"}
    BY <1>0, <1>4, Looks DEF GetsHandler, GetsChunk, Receives, Sends, TypeOK
  <2>2. cpc'[c] # "exited" /\ errors'[c] = {}
    BY <1>4, <2>1, CountingStep DEF Counting, StepOf, ClientStep
  <2>3. QED
    BY <1>0, <2>1, <2>2
<1>5. CASE ClientDies(c)
  BY <1>0, <1>5 DEF ClientDies, TypeOK
<1>6. CASE \/ StartStreaming(c) \/ ProcessChunk(c) \/ DoneStreaming(c)
           \/ ProcessChunkThrows(c)
  <2>1. UNCHANGED <<clientVars, serverVars>>
    BY <1>6 DEF StartStreaming, ProcessChunk, DoneStreaming, ProcessChunkThrows, Answers
  <2>2. QED
    BY <1>0, <2>1 DEF clientVars
<1>7. CASE Accepts(c) \/ Disconnects(c) \/ ConnectionBreaks(c)
  BY <1>0, <1>7 DEF Accepts, Disconnects, ConnectionBreaks, clientVars, TypeOK
<1>8. QED
  BY <1>1, <1>2, <1>3, <1>4, <1>5, <1>6, <1>7 DEF StepOf, ClientStep, ServerStep

LEMMA Step == IInv /\ [Next]_vars => IInv'
<1> SUFFICES ASSUME IInv, [Next]_vars PROVE IInv'
  OBVIOUS
<1>1. TypeOK'
  BY TypeStep DEF IInv
<1>2. ASSUME NEW d \in Clients
      PROVE  (Counting(d) /\ Conversation(d) /\ Blame(d))'
  <2>1. ASSUME NEW c \in Clients, StepOf(c)
        PROVE  (Counting(d) /\ Conversation(d) /\ Blame(d))'
    <3>1. CASE d = c
      BY <2>1, <3>1, CountingStep, ConversationStep, BlameStep
    <3>2. CASE d # c
      <4>1. UNCHANGED Local(d) /\ UNCHANGED server
        BY <2>1, <3>2, OthersUnchanged DEF IInv
      <4>2. QED
        BY <4>1 DEF IInv, Local, Counting, Conversation, Blame, Alive, FullSent, PartSent
    <3>3. QED
      BY <3>1, <3>2
  <2>2. CASE AcceptThrows
    <3>1. /\ UNCHANGED <<clientVars, call, reply>> /\ server' = "gone"
          /\ conn[d] = "broken" => conn'[d] = "broken"
      BY <2>2 DEF AcceptThrows
    <3>2. QED
      BY <3>1 DEF IInv, clientVars, fileVars, Counting, Conversation, Blame, Alive,
         FullSent, PartSent
  <2>3. CASE UNCHANGED vars
    BY <2>3 DEF IInv, vars, clientVars, fileVars, serverVars, Counting, Conversation,
       Blame, Alive, FullSent, PartSent
  <2>4. QED
    BY <2>1, <2>2, <2>3 DEF Next, Ended, StepOf
<1>3. QED
  BY <1>1, <1>2 DEF IInv

LEMMA Invariance == Spec => []IInv
BY Start, Step, PTL DEF Spec

-----------------------------------------------------------------------------
(* What is proved of the clients and the server's event loop.                 *)

(* Every variable of run_client and of the server stays in its type, for any  *)
(* number of clients.                                                         *)
THEOREM TypeCorrectness == Spec => []TypeOK
<1>1. IInv => TypeOK
  BY DEF IInv
<1>2. QED
  BY <1>1, Invariance, PTL

(* A client of capnp_client.cpp whose main ends without error has verified    *)
(* the whole file, and one that has not holds an error in its collector.      *)
THEOREM NoFailureIsSilent == Spec => []NoSilentFailure
<1>1. IInv => NoSilentFailure
  BY DEF IInv, Blame, NoSilentFailure
<1>2. QED
  BY <1>1, Invariance, PTL

(* The event loop keeps the sessions apart, however many clients there are:   *)
(* a lost connection is the network's or the server's doing, and no client    *)
(* gets the answer to another one's call.                                     *)
THEOREM FaultsAreLocal == Spec => []FaultsStayLocal
<1>1. IInv => FaultsStayLocal
  BY DEF IInv, Blame, FaultsStayLocal
<1>2. QED
  BY <1>1, Invariance, PTL

-----------------------------------------------------------------------------
(* The refinement.                                                            *)

(* What a step of a client changes of the variables of the contract.          *)
LEMMA OneMove ==
  ASSUME IInv, NEW c \in Clients, StepOf(c)
  PROVE  \/ UNCHANGED <<cpc[c], sent[c], verified[c], errors[c], csv[c]>>
         \/ /\ Alive(c) /\ sent'[c] \in {sent[c], sent[c] + 1}
            /\ \/ verified'[c] = verified[c]
               \/ /\ FullSent(c) /\ cpc[c] = "chunk"
                  /\ verified'[c] = Append(verified[c], nread[c])
<1> USE DEF Alive, Gone, fileVars
<1>0. TypeOK /\ Counting(c) /\ sent[c] \in Nat
  BY NumChunksAssumption DEF IInv, TypeOK
<1>1. CASE Connects(c) \/ ConnectThrows(c) \/ WaitThrows(c) \/ ClientDies(c)
  BY <1>1 DEF Connects, ConnectThrows, WaitThrows, ClientDies
<1>2. CASE GetsHandlerNoFile(c) \/ GetsDone(c)
  BY <1>2 DEF GetsHandlerNoFile, GetsDone, Receives
<1>3. CASE GetsHandler(c)
  <2>1. SendNext(c) /\ Alive(c) /\ UNCHANGED verified
    BY <1>3 DEF GetsHandler, Receives
  <2>2. QED
    BY <1>0, <2>1, Looks
<1>4. CASE GetsChunk(c) /\ reply[c].data = Reversed(chunk[c])
  <2>1. /\ SendNext(c) /\ cpc[c] = "chunk" /\ verified'[c] = VerifiedChunks(c)
        /\ FullSent(c) \/ PartSent(c)
    BY <1>0, <1>4 DEF GetsChunk, Receives, TypeOK, Counting
  <2>2. sent'[c] \in {sent[c], sent[c] + 1}
    BY <1>0, <2>1, Looks
  <2>3. QED
    BY <1>0, <2>1, <2>2, Counted
<1>5. CASE GetsChunk(c) /\ reply[c].data # Reversed(chunk[c])
  BY <1>5 DEF GetsChunk, Receives
<1>6. CASE ServerStep(c) \/ ProcessChunkThrows(c) \/ ConnectionBreaks(c)
  <2>1. UNCHANGED clientVars
    BY <1>6 DEF ServerStep, Accepts, StartStreaming, ProcessChunk, DoneStreaming,
       Disconnects, ProcessChunkThrows, Answers, ConnectionBreaks
  <2>2. QED
    BY <2>1 DEF clientVars
<1>7. QED
  BY <1>1, <1>2, <1>3, <1>4, <1>5, <1>6 DEF StepOf, ClientStep

LEMMA EchoStep ==
  ASSUME IInv, IInv', NEW c \in Clients, StepOf(c)
  PROVE  Echo(c)!Next \/ UNCHANGED Echo(c)!vars
<1> SUFFICES ASSUME ~UNCHANGED <<cpc[c], sent[c], verified[c], errors[c], csv[c]>>
             PROVE  Echo(c)!Next
  BY DEF Echo!vars, Outcome, Succeeded
<1>1. /\ Alive(c) /\ sent'[c] \in {sent[c], sent[c] + 1}
      /\ \/ verified'[c] = verified[c]
         \/ /\ FullSent(c) /\ cpc[c] = "chunk"
            /\ verified'[c] = Append(verified[c], nread[c])
  BY OneMove
<1>2. Outcome(c) = "running"
  BY <1>1 DEF Outcome, Alive
<1>3. Echo(c)!Send
  BY <1>1 DEF IInv, TypeOK, Echo!Send
<1>4. Echo(c)!Verify
  <2>1. CASE verified'[c] = verified[c]
    BY <2>1 DEF Echo!Verify
  <2>2. CASE FullSent(c) /\ verified'[c] = Append(verified[c], nread[c])
    <3>1. /\ nread[c] = Len(verified[c]) + 1 /\ sent[c] = nread[c]
          /\ \A i \in 1..Len(verified[c]) : verified[c][i] = i
      BY <2>2 DEF IInv, Counting, FullSent
    <3>2. Len(verified[c]) \in Nat
      BY LenProperties DEF IInv, TypeOK
    <3>3. nread[c] \in 1..sent[c] /\ nread[c] > Echo(c)!LastVerified
      BY <3>1, <3>2 DEF Echo!LastVerified
    <3>4. QED
      BY <2>2, <3>3 DEF Echo!Verify
  <2>3. QED
    BY <1>1, <2>1, <2>2
<1>5. Echo(c)!Conclude
  <2>1. Outcome(c)' \in {"running", "complete", "incomplete"}
    BY DEF Outcome
  <2>2. Outcome(c)' = "complete" => verified'[c] = [i \in 1..NumChunks |-> i]
    <3>1. ASSUME Outcome(c)' = "complete"
          PROVE  cpc'[c] = "exited" /\ csv'[c] = "results" /\ errors'[c] = {}
      <4>1. csv'[c] = "results" /\ errors'[c] = {}
        BY <3>1 DEF Outcome, Succeeded
      <4>2. QED
        BY <4>1 DEF IInv, Counting
    <3>2. QED
      BY <3>1 DEF IInv, Blame
  <2>3. QED
    BY <2>1, <2>2 DEF Echo!Conclude
<1>6. QED
  BY <1>2, <1>3, <1>4, <1>5 DEF Echo!Next

(* Each client implements the contract that all the benchmarks share.         *)
THEOREM ImplementsEcho == Spec => EchoSpec
<1>1. Init => \A c \in Clients : Echo(c)!Init
  BY DEF Init, Echo!Init, Outcome, Gone
<1>2. ASSUME IInv, IInv', [Next]_vars
      PROVE  [\A c \in Clients : Echo(c)!Next \/ UNCHANGED Echo(c)!vars]_vars
  <2> SUFFICES ASSUME NEW c \in Clients, ~UNCHANGED vars
               PROVE  Echo(c)!Next \/ UNCHANGED Echo(c)!vars
    OBVIOUS
  <2>1. ASSUME NEW d \in Clients, StepOf(d)
        PROVE  Echo(c)!Next \/ UNCHANGED Echo(c)!vars
    <3>1. CASE c = d
      BY <1>2, <2>1, <3>1, EchoStep
    <3>2. CASE c # d
      <4>1. UNCHANGED Local(c)
        BY <1>2, <2>1, <3>2, OthersUnchanged DEF IInv
      <4>2. QED
        BY <4>1 DEF Local, Echo!vars, Outcome, Succeeded
    <3>3. QED
      BY <3>1, <3>2
  <2>2. CASE AcceptThrows
    BY <2>2 DEF AcceptThrows, clientVars, fileVars, Echo!vars, Outcome, Succeeded
  <2>3. QED
    BY <1>2, <2>1, <2>2 DEF Next, Ended, StepOf
<1>3. QED
  BY <1>1, <1>2, Invariance, PTL DEF Spec, EchoSpec
==============================================================================
