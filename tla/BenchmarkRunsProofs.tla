------------------------- MODULE BenchmarkRunsProofs -------------------------
(* Runs of any client, for every size of the file and of a chunk: the counts  *)
(* of chunks, the files of results, and the figures in them.                  *)
EXTENDS BenchmarkRuns, SequenceTheorems, TLAPS

-----------------------------------------------------------------------------
(* The counts of chunks.                                                      *)

LEMMA Division ==
  ASSUME NEW a \in Nat
  PROVE  /\ a \div ChunkSize \in Nat /\ a % ChunkSize \in 0..(ChunkSize - 1)
         /\ a = ChunkSize * (a \div ChunkSize) + (a % ChunkSize)
  BY ChunkSizeAssumption, Z3

LEMMA QuotientUnique ==
  ASSUME NEW q \in Int, NEW p \in Int,
         ChunkSize * q < ChunkSize * (p + 1), ChunkSize * p < ChunkSize * (q + 1)
  PROVE  q = p
  BY ChunkSizeAssumption, Z3

LEMMA StrictlyBetween ==
  ASSUME NEW q \in Int, NEW p \in Int,
         ChunkSize * p < ChunkSize * q, ChunkSize * q < ChunkSize * (p + 1)
  PROVE  FALSE
  BY ChunkSizeAssumption, Z3

LEMMA Multiple ==
  ASSUME NEW k \in Nat
  PROVE  (ChunkSize * k) % ChunkSize = 0
  BY ChunkSizeAssumption, Z3

LEMMA Monotonic ==
  ASSUME NEW q \in Int, NEW p \in Int, q >= p
  PROVE  ChunkSize * q >= ChunkSize * p
  BY ChunkSizeAssumption, Z3

(* The ceiling is the first count that covers the file: the C++ TCP client,   *)
(* which compares it with the chunks it has sent (tcp_client.cpp:106), stops  *)
(* at the chunk that reaches the end of the file and at no other.             *)
THEOREM CountMeansEnd ==
  ASSUME NEW bytes \in Nat, NEW k \in Nat
  PROVE  k >= TotalChunks(bytes) <=> k * ChunkSize >= bytes
<1> DEFINE total == TotalChunks(bytes)
<1>1. /\ total \in Nat
      /\ ChunkSize * total >= bytes
      /\ ChunkSize * total < bytes + ChunkSize
  <2>1. bytes + ChunkSize - 1 \in Nat
    BY ChunkSizeAssumption
  <2>2. QED
    BY <2>1, Division, ChunkSizeAssumption, Z3 DEF TotalChunks
<1> HIDE DEF total
<1>2. ASSUME k >= total PROVE k * ChunkSize >= bytes
  <2>1. ChunkSize * k >= ChunkSize * total
    BY <1>1, <1>2, Monotonic
  <2>2. QED
    BY <1>1, <2>1, ChunkSizeAssumption
<1>3. ASSUME k < total PROVE k * ChunkSize < bytes
  <2>1. ChunkSize * total >= ChunkSize * (k + 1)
    BY <1>1, <1>3, Monotonic
  <2>2. QED
    BY <1>1, <2>1, ChunkSizeAssumption
<1>4. k * ChunkSize \in Nat
  BY ChunkSizeAssumption
<1>5. QED
  BY <1>1, <1>2, <1>3, <1>4 DEF total

(* The Go client's count, with a remainder of its own, is the same number.    *)
THEOREM TotalsAgree ==
  ASSUME NEW bytes \in Nat
  PROVE  GoTotalChunks(bytes) = TotalChunks(bytes)
<1> DEFINE q == bytes \div ChunkSize
           rem == bytes % ChunkSize
           total == TotalChunks(bytes)
           last == (bytes + ChunkSize - 1) % ChunkSize
<1>1. q \in Nat /\ rem \in 0..(ChunkSize - 1) /\ bytes = ChunkSize * q + rem
  BY Division
<1>2. /\ total \in Nat /\ last \in 0..(ChunkSize - 1)
      /\ bytes + ChunkSize - 1 = ChunkSize * total + last
  BY Division, ChunkSizeAssumption DEF TotalChunks
<1> HIDE DEF q, rem, total, last
<1>3. CASE rem = 0
  <2>1. ChunkSize * q < ChunkSize * (total + 1) /\ ChunkSize * total < ChunkSize * (q + 1)
    BY <1>1, <1>2, <1>3, ChunkSizeAssumption, Z3
  <2>2. QED
    BY <2>1, <1>1, <1>2, <1>3, QuotientUnique DEF GoTotalChunks, q, rem, total
<1>4. CASE rem # 0
  <2>1. /\ ChunkSize * (q + 1) < ChunkSize * (total + 1)
        /\ ChunkSize * total < ChunkSize * (q + 1 + 1)
    BY <1>1, <1>2, <1>4, ChunkSizeAssumption, Z3
  <2>2. QED
    BY <2>1, <1>1, <1>2, <1>4, QuotientUnique DEF GoTotalChunks, q, rem, total
<1>5. QED
  BY <1>3, <1>4

-----------------------------------------------------------------------------
(* The inductive invariant of the files of results.                           *)

Transfer == {"open", "connect", "loop", "reverse", "wait", "verify", "done", "hung"}
Saving == {"summary", "summaryOpen", "detail", "detailOpen", "flush"}

Counters == [timer : {"unset", "running", "stopped"}, bytes : Nat, wire : Nat,
             rtts : Nat, ok : Nat, fail : Nat, errors : Nat]
AnyReader == [size : Nat, total : Nat, pos : Nat, count : Nat, eof : BOOLEAN]
ResultFile == {"old", "torn", "new"}

(* Types without the bounds of TypeOK, which depend on each other.            *)
Types ==
  /\ code \in Codes /\ size \in Nat /\ avail \in Nat
  /\ pc \in Transfer \cup Saving \cup {"off"}
  /\ reader \in AnyReader
  /\ chunk \in Seq(Nat) /\ flight \in Seq(Seq(Nat))
  /\ m \in Counters /\ dest \in Dests
  /\ files \in [Dests -> [{"summary", "detail"} -> ResultFile]]

(* Only the gRPC client sends and goes on; only the Cap'n Proto client says   *)
(* that it is done, only the Go client has a buffer to flush.                 *)
Places ==
  /\ pc \in {"reverse", "wait"} => code # "grpc"
  /\ pc = "done" => code = "capnp"
  /\ pc = "flush" => code = "go"

OthersOld == \A d \in Dests \ {dest} : files[d].summary = "old" /\ files[d].detail = "old"

(* What a run that has opened, written or skipped its summary left of it...   *)
SummaryLeft ==
  LET s == files[dest].summary IN
    IF code = "go" THEN s = "torn"
    ELSE \/ s = "new"
         \/ s = "torn" /\ "write" \in faults
         \/ s = "old" /\ Common /\ "save" \in faults

(* ... and of its RTTs.                                                       *)
DetailLeft ==
  LET d == files[dest].detail IN
    \/ d = "new"
    \/ d = "torn" /\ "write" \in faults
    \/ d = "old" /\ "save" \in faults

(* No file is touched before main saves, and each is in the state of the step *)
(* that saving has reached.                                                   *)
Stage ==
  /\ OthersOld
  /\ pc \in Transfer \cup {"summary", "summaryOpen", "detail"} =>
       files[dest].detail = "old"
  /\ pc \in Transfer \cup {"summary"} => files[dest].summary = "old"
  /\ pc = "summaryOpen" => files[dest].summary = "torn"
  /\ pc \in {"detail", "detailOpen"} => SummaryLeft
  /\ pc = "detailOpen" => files[dest].detail = "torn" /\ HasDetail(code, m)
  /\ pc = "flush" => files[dest].summary = "torn" /\ DetailLeft

IInv == Types /\ Places /\ Stage /\ PairFromOneRun

-----------------------------------------------------------------------------
(* The metrics keep their type, whatever is recorded.                         *)
LEMMA Recorders ==
  ASSUME NEW x \in Counters, NEW n \in Nat, NEW w \in Nat, NEW b \in BOOLEAN
  PROVE  /\ LogError(x) \in Counters /\ LogErrorIf(b, x) \in Counters
         /\ SetTotalTime(x) \in Counters
         /\ StartTimer(x) \in Counters /\ StopTimer(x) \in Counters
         /\ RecordChunkRtt(x) \in Counters /\ RecordChunkSent(x, n, w) \in Counters
         /\ RecordChunkProcessed(x, n) \in Counters
         /\ RecordChunkVerified(x, b) \in Counters
         /\ StopAndRecordChunkRtt(x, n, b) \in Counters
<1>1. Modulus \in Nat /\ Modulus > 0
  BY MetricsAssumption
<1>2. \A a \in Nat : a % Modulus \in Nat
  BY <1>1, Z3
<1>3. x.bytes + n \in Nat /\ x.wire + w \in Nat
  BY DEF Counters
<1>4. RecordChunkSent(x, n, w) \in Counters
  BY <1>2, <1>3 DEF Counters, RecordChunkSent
<1>5. LogError(x) \in Counters /\ LogErrorIf(b, x) \in Counters
  BY DEF Counters, LogError, LogErrorIf
<1>6. SetTotalTime(x) \in Counters /\ StartTimer(x) \in Counters
  BY DEF Counters, SetTotalTime, StartTimer
<1>7. StopTimer(x) \in Counters
  BY DEF Counters, StopTimer
<1>8. RecordChunkRtt(x) \in Counters /\ RecordChunkProcessed(x, n) \in Counters
  BY <1>3 DEF Counters, RecordChunkRtt, RecordChunkProcessed
<1>9. RecordChunkVerified(x, b) \in Counters
  BY DEF Counters, RecordChunkVerified
<1>10. StopAndRecordChunkRtt(x, n, b) \in Counters
  <2> DEFINE good == IF b THEN 1 ELSE 0
  <2>1. good \in Nat
    OBVIOUS
  <2>2. StopAndRecordChunkRtt(x, n, b) =
          [x EXCEPT !.rtts = @ + 1, !.bytes = @ + n, !.ok = @ + good]
    BY DEF StopAndRecordChunkRtt
  <2> HIDE DEF good
  <2>3. x.rtts + 1 \in Nat /\ x.ok + good \in Nat
    BY <2>1 DEF Counters
  <2>4. QED
    BY <1>3, <2>2, <2>3 DEF Counters
<1>11. QED
  BY <1>4, <1>5, <1>6, <1>7, <1>8, <1>9, <1>10

(* So do the readers.                                                         *)
LEMMA OpenedReader ==
  ASSUME NEW c \in Codes, NEW bytes \in Nat
  PROVE  Opened(c, bytes) \in AnyReader
<1>1. TotalChunks(bytes) \in Nat
  BY Division, ChunkSizeAssumption DEF TotalChunks
<1>2. GoTotalChunks(bytes) \in Nat
  BY <1>1, TotalsAgree
<1>3. QED
  BY <1>1, <1>2 DEF Opened, AnyReader

LEMMA ReaderGoesOn ==
  ASSUME NEW c \in Codes, NEW r \in AnyReader, NEW bytes \in Nat,
         NEW n \in Reads(c, r, bytes)
  PROVE  n \in Nat /\ After(c, r, n) \in AnyReader
<1> DEFINE end == \/ r.eof \/ n = 0
                  \/ c = "tcp" /\ n < ChunkSize
                  \/ c = "go" /\ r.pos + n >= r.size
<1>1. n \in Nat
  BY ChunkSizeAssumption DEF Reads, AnyReader
<1>2. end \in BOOLEAN
  BY DEF AnyReader
<1>3. After(c, r, n) = [r EXCEPT !.pos = @ + n,
                                 !.count = IF n > 0 THEN @ + 1 ELSE @, !.eof = end]
  BY DEF After
<1> HIDE DEF end
<1>4. r.pos + n \in Nat /\ (IF n > 0 THEN r.count + 1 ELSE r.count) \in Nat
  BY <1>1 DEF AnyReader
<1>5. QED
  BY <1>1, <1>2, <1>3, <1>4 DEF AnyReader

LEMMA Appended ==
  ASSUME NEW T, NEW s \in Seq(T), NEW e \in T
  PROVE  Append(s, e) \in Seq(T)
  OBVIOUS

LEMMA ChunkLength ==
  ASSUME NEW s \in Seq(Nat)
  PROVE  Len(s) \in Nat
  OBVIOUS

-----------------------------------------------------------------------------
LEMMA Start == Init => IInv
<1> SUFFICES ASSUME Init PROVE IInv
  OBVIOUS
<1>1. Types
  BY RunsAssumption DEF Init, Types, Codes, Transfer, Saving, NoReader, AnyReader, New,
     Counters, Dests, ResultFile
<1>2. QED
  BY <1>1 DEF Init, IInv, Types, Places, Stage, OthersOld, PairFromOneRun, Transfer, Saving,
     Dests, Codes

(* Up to the first chunk.                                                     *)
LEMMA TypesOpening ==
  ASSUME Types, Opens \/ OpenFails \/ Connects \/ ConnectFails
  PROVE  Types'
<1>1. CASE Opens
  <2>1. reader' \in AnyReader
    BY <1>1, OpenedReader DEF Types, Opens
  <2>2. m' \in Counters
    BY <1>1, Recorders DEF Types, Opens, StartsTimer
  <2>3. QED
    BY <1>1, <2>1, <2>2 DEF Types, Opens, config, reversalVars, flightVars, Transfer
<1>2. CASE OpenFails
  <2>1. m' \in Counters
    BY <1>2, Recorders DEF Types, OpenFails
  <2>2. QED
    BY <1>2, <2>1 DEF Types, OpenFails, Saves, Dests, config, transferVars, reversalVars,
       flightVars, Saving
<1>3. CASE Connects
  <2>1. m' \in Counters
    BY <1>3, Recorders DEF Types, Connects, StartsTimer
  <2>2. QED
    BY <1>3, <2>1 DEF Types, Connects, config, transferVars, reversalVars, flightVars,
       Transfer
<1>4. CASE ConnectFails
  <2>1. /\ LogError(m) \in Counters /\ m \in Counters
        /\ LogError(SetTotalTime(m)) \in Counters
    BY Recorders DEF Types
  <2>2. m' \in Counters
    BY <1>4, <2>1 DEF ConnectFails
  <2>3. QED
    BY <1>4, <2>2 DEF Types, ConnectFails, Saves, Dests, config, transferVars, reversalVars,
       flightVars, Saving
<1>5. QED
  BY <1>1, <1>2, <1>3, <1>4

(* The loop over the chunks.                                                  *)
LEMMA TypesReading ==
  ASSUME Types, ReadsChunk
  PROVE  Types'
<1>1. PICK n \in Reads(code, reader, avail) :
        LET data == Piece(reader.pos, n) IN
          /\ reader' = After(code, reader, n)
          /\ \/ /\ n = 0 /\ Eof(code, reader')
                /\ UNCHANGED <<pc, reversalVars, flight, m>>
             \/ /\ n > 0 /\ code = "grpc"
                /\ flight' = Append(flight, data)
                /\ UNCHANGED <<pc, reversalVars, m>>
             \/ /\ n > 0 /\ code # "grpc"
                /\ pc' = "reverse" /\ R!Copy(data)
                /\ m' = IF code = "capnp" THEN RecordChunkSent(m, n, n) ELSE m
                /\ UNCHANGED flight
  BY DEF ReadsChunk
<1> DEFINE data == Piece(reader.pos, n)
<1>2. n \in Nat /\ reader' \in AnyReader
  BY <1>1, ReaderGoesOn DEF Types
<1>3. data \in Seq(Nat)
  BY <1>2 DEF Types, AnyReader, Piece
<1>4. m' \in Counters
  BY <1>1, <1>2, Recorders DEF Types
<1>5. flight' \in Seq(Seq(Nat))
  <2>1. flight' = flight \/ flight' = Append(flight, data)
    BY <1>1
  <2> HIDE DEF data
  <2>2. flight \in Seq(Seq(Nat))
    BY DEF Types
  <2>3. QED
    BY <1>3, <2>1, <2>2, Appended
<1>6. chunk' \in Seq(Nat)
  BY <1>1, <1>3 DEF Types, reversalVars, R!Copy
<1>7. pc' \in Transfer
  BY <1>1 DEF ReadsChunk, Transfer
<1>8. QED
  BY <1>2, <1>4, <1>5, <1>6, <1>7 DEF Types, ReadsChunk, config

LEMMA TypesSending ==
  ASSUME Types, Reverses \/ Sends \/ ReadFails \/ CallFails \/ FileCut \/ Killed
  PROVE  Types'
<1>1. CASE Reverses
  BY <1>1 DEF Types, Reverses, R!Swap, config, flightVars
<1>2. CASE Sends
  BY <1>2 DEF Types, Sends, config, transferVars, reversalVars, flightVars, Transfer
<1>3. CASE ReadFails
  <2>1. m' \in Counters
    BY <1>3, Recorders DEF Types, ReadFails
  <2>2. QED
    BY <1>3, <2>1 DEF Types, ReadFails, Saves, Dests, config, transferVars, reversalVars,
       flightVars, Saving
<1>4. CASE CallFails
  <2>1. m' \in Counters
    BY <1>4, Recorders DEF Types, CallFails
  <2>2. QED
    BY <1>4, <2>1 DEF Types, CallFails, Saves, Dests, config, transferVars, reversalVars,
       flightVars, Saving
<1>5. CASE FileCut
  <2>1. avail' \in Nat
    BY <1>5 DEF Types, FileCut
  <2>2. QED
    BY <1>5, <2>1 DEF Types, FileCut, config, transferVars, reversalVars, flightVars
<1>6. CASE Killed
  BY <1>6 DEF Types, Killed, config, transferVars, reversalVars, flightVars
<1>7. QED
  BY <1>1, <1>2, <1>3, <1>4, <1>5, <1>6

(* Answers, one at a time.                                                    *)
LEMMA TypesAnswered ==
  ASSUME Types, Places, Answered
  PROVE  Types'
<1>1. Len(chunk) \in Nat
  BY ChunkLength DEF Types
<1>2. ASSUME NEW good \in BOOLEAN
      PROVE  Recorded(good) \in Counters /\ TimeTaken(Recorded(good)) \in Counters
  <2>1. code \in {"tcp", "go", "capnp"}
    BY DEF Answered, Places, Types, Codes
  <2>2. CASE code = "tcp"
    BY <1>1, <2>2, Recorders DEF Recorded, TimeTaken, Types
  <2>3. CASE code = "go"
    <3>1. RecordChunkProcessed(RecordChunkRtt(m), Len(chunk)) \in Counters
      BY <1>1, Recorders DEF Types
    <3>2. Recorded(good) \in Counters
      BY <2>3, <3>1, Recorders DEF Recorded
    <3>3. QED
      BY <3>2, Recorders DEF TimeTaken
  <2>4. CASE code = "capnp"
    <3>1. Recorded(good) \in Counters
      BY <2>4, Recorders DEF Recorded, Types
    <3>2. QED
      BY <3>1, Recorders DEF TimeTaken
  <2>5. QED
    BY <2>1, <2>2, <2>3, <2>4
<1>3. m' \in Counters
  BY <1>2 DEF Answered
<1>4. pc' \in Transfer \cup Saving /\ dest' \in Dests
  BY DEF Answered, Saves, Types, Transfer, Saving, Dests
<1>5. QED
  BY <1>3, <1>4 DEF Types, Answered, config, reversalVars, flightVars

(* Answers of the gRPC server, as they come.                                  *)
LEMMA TypesMatching ==
  ASSUME Types, Matches \/ Verifies \/ Orphaned \/ StreamBreaks
  PROVE  Types'
<1>1. CASE Matches
  <2>1. Head(flight) \in Seq(Nat) /\ Tail(flight) \in Seq(Seq(Nat))
    BY <1>1 DEF Types, Matches
  <2>2. Len(Head(flight)) \in Nat /\ Len(Head(flight)) + Header \in Nat
    BY <2>1, ChunkLength, MetricsAssumption
  <2>3. m' \in Counters
    BY <1>1, <2>2, Recorders DEF Types, Matches
  <2>4. QED
    BY <1>1, <2>1, <2>3 DEF Types, Matches, R!Copy, config, Transfer
<1>2. CASE Verifies
  <2>1. m' \in Counters
    BY <1>2, Recorders DEF Types, Verifies
  <2>2. QED
    BY <1>2, <2>1 DEF Types, Verifies, config, reversalVars, flightVars, Transfer
<1>3. CASE Orphaned
  <2>1. m' \in Counters
    BY <1>3, Recorders DEF Types, Orphaned
  <2>2. QED
    BY <1>3, <2>1 DEF Types, Orphaned, config, reversalVars
<1>4. CASE StreamBreaks
  <2>1. m' \in Counters
    <3>1. (Len(flight) + lost > 0) \in BOOLEAN
      OBVIOUS
    <3>2. QED
      BY <1>4, <3>1, Recorders DEF Types, StreamBreaks
  <2>2. QED
    BY <1>4, <2>1 DEF Types, StreamBreaks, Saves, Dests, config, transferVars,
       reversalVars, flightVars, Transfer, Saving
<1>5. QED
  BY <1>1, <1>2, <1>3, <1>4

(* The end of the loop, and doneStreaming.                                    *)
LEMMA TypesEnding ==
  ASSUME Types, LoopEnds \/ DoneAnswered \/ DoneFails
  PROVE  Types'
<1>1. TimeTaken(m) \in Counters
  BY Recorders DEF TimeTaken, Types
<1>2. NotAllVerified \in BOOLEAN /\ (lost > 0) \in BOOLEAN
  BY DEF NotAllVerified
<1>3. m' \in Counters
  BY <1>1, <1>2, Recorders DEF Types, LoopEnds, DoneAnswered, DoneFails
<1>4. QED
  BY <1>3 DEF Types, LoopEnds, DoneAnswered, DoneFails, Saves, Dests, config,
     transferVars, reversalVars, flightVars, Transfer, Saving

-----------------------------------------------------------------------------
(* Saving.                                                                    *)
LEMMA TypesSaving ==
  ASSUME Types, OpensSummary \/ WritesSummary \/ OpensDetail \/ WritesDetail
                  \/ FlushesSummary
  PROVE  Types'
<1>1. ASSUME NEW which \in {"summary", "detail"}, NEW contents \in ResultFile
      PROVE  [files EXCEPT ![dest][which] = contents]
               \in [Dests -> [{"summary", "detail"} -> ResultFile]]
  BY <1>1 DEF Types
<1>2. files' \in [Dests -> [{"summary", "detail"} -> ResultFile]]
  BY <1>1 DEF Types, ResultFile, Writes, OpensSummary, WritesSummary, OpensDetail,
     WritesDetail, FlushesSummary
<1>3. pc' \in Saving \cup {"off"}
  BY DEF OpensSummary, WritesSummary, OpensDetail, WritesDetail, FlushesSummary, Saving
<1>4. SavingUnchanged
  BY DEF OpensSummary, WritesSummary, OpensDetail, WritesDetail, FlushesSummary
<1>5. QED
  BY <1>2, <1>3, <1>4 DEF Types, SavingUnchanged, config, transferVars, reversalVars,
     flightVars

LEMMA TypesKept ==
  ASSUME Types, Places, [Next]_vars
  PROVE  Types'
<1>1. CASE ClientStep
  BY <1>1, TypesOpening, TypesReading, TypesSending, TypesAnswered, TypesMatching,
     TypesEnding, TypesSaving DEF ClientStep
<1>2. CASE FileCut \/ Killed
  BY <1>2, TypesSending
<1>3. CASE UNCHANGED vars
  BY <1>3 DEF Types, vars, config, transferVars, reversalVars, flightVars
<1>4. QED
  BY <1>1, <1>2, <1>3 DEF Next, Ended

LEMMA PlacesKept ==
  ASSUME Types, Places, [Next]_vars
  PROVE  Places'
<1>1. CASE Opens \/ OpenFails \/ Connects \/ ConnectFails
  BY <1>1 DEF Places, Opens, OpenFails, Connects, ConnectFails, Saves, config
<1>2. CASE ReadsChunk
  BY <1>2 DEF Places, ReadsChunk, config
<1>3. CASE ReadFails \/ Reverses \/ Sends \/ CallFails
  BY <1>3 DEF Places, ReadFails, Reverses, Sends, CallFails, Saves, config
<1>4. CASE Answered
  BY <1>4 DEF Places, Answered, Saves, config
<1>5. CASE Matches \/ Verifies \/ Orphaned \/ StreamBreaks
  BY <1>5 DEF Places, Matches, Verifies, Orphaned, StreamBreaks, Saves, config
<1>6. CASE LoopEnds \/ DoneAnswered \/ DoneFails
  BY <1>6 DEF Places, LoopEnds, DoneAnswered, DoneFails, Saves, config
<1>7. CASE OpensSummary \/ WritesSummary \/ OpensDetail \/ WritesDetail \/ FlushesSummary
  BY <1>7 DEF Places, OpensSummary, WritesSummary, OpensDetail, WritesDetail,
     FlushesSummary, SavingUnchanged, config
<1>8. CASE FileCut \/ Killed
  BY <1>8 DEF Places, FileCut, Killed, config
<1>9. CASE UNCHANGED vars
  BY <1>9 DEF Places, vars, config
<1>10. QED
  BY <1>1, <1>2, <1>3, <1>4, <1>5, <1>6, <1>7, <1>8, <1>9 DEF Next, ClientStep, Ended

-----------------------------------------------------------------------------
(* A step of the transfer finds all files as earlier runs have left them, and *)
(* leaves them so, whichever pair main chooses to save.                       *)
LEMMA TransferKeepsFiles ==
  ASSUME Types, Stage, pc \in Transfer, files' = files, dest' \in Dests,
         pc' \in Transfer \cup {"summary", "off"}
  PROVE  Stage' /\ PairFromOneRun'
<1>1. \A d \in Dests : files[d].summary = "old" /\ files[d].detail = "old"
  BY DEF Types, Stage, OthersOld
<1>2. \A d \in Dests : files'[d].summary = "old" /\ files'[d].detail = "old"
  BY <1>1
<1>3. Stage'
  BY <1>2 DEF Stage, OthersOld, Transfer, Saving
<1>4. PairFromOneRun'
  BY <1>2 DEF PairFromOneRun
<1>5. QED
  BY <1>3, <1>4

LEMMA TransferSteps ==
  ASSUME IInv,
         \/ Opens \/ OpenFails \/ Connects \/ ConnectFails
         \/ ReadsChunk \/ ReadFails \/ Reverses \/ Sends \/ CallFails \/ Answered
         \/ Matches \/ Verifies \/ Orphaned \/ StreamBreaks
         \/ LoopEnds \/ DoneAnswered \/ DoneFails \/ FileCut
  PROVE  Stage' /\ PairFromOneRun'
<1>1. pc \in Transfer /\ files' = files
  BY DEF Transfer, Opens, OpenFails, Connects, ConnectFails, ReadsChunk, ReadFails,
     Reverses, Sends, CallFails, Answered, Matches, Verifies, Orphaned, StreamBreaks,
     LoopEnds, DoneAnswered, DoneFails, FileCut
<1>2. dest' \in Dests
  <2>1. dest' = dest \/ dest' \in {"results", "kj", "std"}
    BY DEF Saves, Opens, OpenFails, Connects, ConnectFails, ReadsChunk, ReadFails,
       Reverses, Sends, CallFails, Answered, Matches, Verifies, Orphaned, StreamBreaks,
       LoopEnds, DoneAnswered, DoneFails, FileCut
  <2>2. QED
    BY <2>1 DEF IInv, Types, Dests
<1>3. pc' \in Transfer \cup {"summary", "off"}
  BY <1>1 DEF IInv, Types, Transfer, Saves, Opens, OpenFails, Connects, ConnectFails,
     ReadsChunk, ReadFails, Reverses, Sends, CallFails, Answered, Matches, Verifies,
     Orphaned, StreamBreaks, LoopEnds, DoneAnswered, DoneFails, FileCut, reversalVars
<1>4. QED
  BY <1>1, <1>2, <1>3, TransferKeepsFiles DEF IInv

(* What a write to a file of the pair does to the pair and to the others.     *)
LEMMA Written ==
  ASSUME Types, OthersOld, SavingUnchanged,
         NEW which \in {"summary", "detail"}, NEW contents \in ResultFile,
         Writes(which, contents)
  PROVE  /\ OthersOld'
         /\ files'[dest'][which] = contents
         /\ \A f \in {"summary", "detail"} \ {which} :
              files'[dest'][f] = files[dest][f]
  BY DEF Types, OthersOld, SavingUnchanged, Writes

LEMMA Untouched ==
  ASSUME OthersOld, SavingUnchanged, files' = files
  PROVE  /\ OthersOld'
         /\ files'[dest'].summary = files[dest].summary
         /\ files'[dest'].detail = files[dest].detail
  BY DEF OthersOld, SavingUnchanged

LEMMA OpensSummaryStep ==
  ASSUME IInv, OpensSummary
  PROVE  Stage' /\ PairFromOneRun'
<1>1. /\ OthersOld /\ files[dest].summary = "old" /\ files[dest].detail = "old"
      /\ Types /\ SavingUnchanged /\ code' = code
  BY DEF IInv, Stage, OpensSummary, Transfer, SavingUnchanged, config
<1>2. CASE Writes("summary", "torn") /\ pc' = "summaryOpen" /\ NoFault
  <2>1. /\ OthersOld'
        /\ files'[dest'].summary = "torn" /\ files'[dest'].detail = "old"
    BY <1>1, <1>2, Written DEF ResultFile
  <2>2. QED
    BY <1>2, <2>1 DEF Stage, PairFromOneRun, Transfer
<1>3. CASE /\ Hit("save") /\ files' = files
           /\ pc' = IF GoesOnUnsaved(code) THEN "detail" ELSE "off"
  <2>1. /\ OthersOld'
        /\ files'[dest'].summary = "old" /\ files'[dest'].detail = "old"
    BY <1>1, <1>3, Untouched
  <2>2. CASE GoesOnUnsaved(code)
    BY <1>1, <1>3, <2>1, <2>2 DEF Stage, PairFromOneRun, SummaryLeft, Common,
       GoesOnUnsaved, Transfer, Hit
  <2>3. CASE ~GoesOnUnsaved(code)
    BY <1>3, <2>1, <2>3 DEF Stage, PairFromOneRun, OthersOld, Transfer
  <2>4. QED
    BY <2>2, <2>3
<1>4. QED
  BY <1>2, <1>3 DEF OpensSummary

LEMMA WritesSummaryStep ==
  ASSUME IInv, WritesSummary
  PROVE  Stage' /\ PairFromOneRun'
<1>1. /\ OthersOld /\ files[dest].summary = "torn" /\ files[dest].detail = "old"
      /\ Types /\ SavingUnchanged /\ code' = code /\ pc' = "detail"
  BY DEF IInv, Stage, WritesSummary, SavingUnchanged, config
<1>2. CASE code # "go" /\ Writes("summary", "new") /\ NoFault
  <2>1. /\ OthersOld'
        /\ files'[dest'].summary = "new" /\ files'[dest'].detail = "old"
    BY <1>1, <1>2, Written DEF ResultFile
  <2>2. QED
    BY <1>1, <1>2, <2>1 DEF Stage, SummaryLeft, PairFromOneRun, Transfer
<1>3. CASE code # "go" /\ Hit("write") /\ files' = files
  BY <1>1, <1>3, Untouched DEF Stage, SummaryLeft, PairFromOneRun, Transfer, Hit
<1>4. CASE code = "go" /\ files' = files /\ faults' = faults
  BY <1>1, <1>4, Untouched DEF Stage, SummaryLeft, PairFromOneRun, Transfer
<1>5. QED
  BY <1>2, <1>3, <1>4 DEF WritesSummary

LEMMA OpensDetailStep ==
  ASSUME IInv, OpensDetail
  PROVE  Stage' /\ PairFromOneRun'
<1>1. /\ OthersOld /\ SummaryLeft /\ files[dest].detail = "old"
      /\ Types /\ SavingUnchanged /\ code' = code /\ m' = m /\ code \in Codes
  BY DEF IInv, Stage, Types, OpensDetail, SavingUnchanged, config
<1>2. CASE HasDetail(code, m) /\ Writes("detail", "torn") /\ pc' = "detailOpen" /\ NoFault
  <2>1. /\ OthersOld' /\ files'[dest'].detail = "torn"
        /\ files'[dest'].summary = files[dest].summary
    BY <1>1, <1>2, Written DEF ResultFile
  <2>2. QED
    BY <1>1, <1>2, <2>1 DEF Stage, SummaryLeft, Common, PairFromOneRun, Transfer, NoFault
<1>3. CASE HasDetail(code, m) /\ Hit("save") /\ files' = files
           /\ pc' = IF code = "go" THEN "flush" ELSE "off"
  <2>1. /\ OthersOld' /\ files'[dest'].detail = "old"
        /\ files'[dest'].summary = files[dest].summary
    BY <1>1, <1>3, Untouched
  <2>2. QED
    BY <1>1, <1>3, <2>1 DEF Stage, SummaryLeft, DetailLeft, PairFromOneRun, OthersOld,
       Transfer, Hit
<1>4. CASE ~HasDetail(code, m) /\ files' = files /\ faults' = faults
           /\ pc' = IF code = "go" THEN "flush" ELSE "off"
  <2>1. /\ OthersOld' /\ files'[dest'].detail = "old"
        /\ files'[dest'].summary = files[dest].summary
    BY <1>1, <1>4, Untouched
  <2>2. Common /\ Common' /\ m'.rtts = 0 /\ code # "go"
    BY <1>1, <1>4 DEF HasDetail, Common, Codes, Types, Counters
  <2>3. QED
    BY <1>1, <1>4, <2>1, <2>2 DEF Stage, SummaryLeft, PairFromOneRun, OthersOld, Transfer
<1>5. QED
  BY <1>2, <1>3, <1>4 DEF OpensDetail

LEMMA WritesDetailStep ==
  ASSUME IInv, WritesDetail
  PROVE  Stage' /\ PairFromOneRun'
<1>1. /\ OthersOld /\ SummaryLeft /\ files[dest].detail = "torn"
      /\ Types /\ SavingUnchanged /\ code' = code
      /\ pc' = IF code = "go" THEN "flush" ELSE "off"
  BY DEF IInv, Stage, WritesDetail, SavingUnchanged, config
<1>2. CASE Writes("detail", "new") /\ NoFault
  <2>1. /\ OthersOld' /\ files'[dest'].detail = "new"
        /\ files'[dest'].summary = files[dest].summary
    BY <1>1, <1>2, Written DEF ResultFile
  <2>2. QED
    BY <1>1, <1>2, <2>1 DEF Stage, SummaryLeft, DetailLeft, Common, PairFromOneRun,
       OthersOld, Transfer, NoFault
<1>3. CASE Hit("write") /\ files' = files
  <2>1. /\ OthersOld' /\ files'[dest'].detail = "torn"
        /\ files'[dest'].summary = files[dest].summary
    BY <1>1, <1>3, Untouched
  <2>2. QED
    BY <1>1, <1>3, <2>1 DEF Stage, SummaryLeft, DetailLeft, PairFromOneRun, OthersOld,
       Transfer, Hit
<1>4. QED
  BY <1>2, <1>3 DEF WritesDetail

LEMMA FlushesSummaryStep ==
  ASSUME IInv, FlushesSummary
  PROVE  Stage' /\ PairFromOneRun'
<1>1. /\ OthersOld /\ DetailLeft /\ files[dest].summary = "torn"
      /\ Types /\ SavingUnchanged /\ code' = code /\ pc' = "off" /\ ~Common'
  BY DEF IInv, Stage, Places, Common, FlushesSummary, SavingUnchanged, config
<1>2. CASE Writes("summary", "new") /\ NoFault
  <2>1. /\ OthersOld' /\ files'[dest'].summary = "new"
        /\ files'[dest'].detail = files[dest].detail
    BY <1>1, <1>2, Written DEF ResultFile
  <2>2. QED
    BY <1>1, <1>2, <2>1 DEF Stage, DetailLeft, PairFromOneRun, OthersOld, Transfer, NoFault
<1>3. CASE Hit("write") /\ files' = files
  <2>1. /\ OthersOld' /\ files'[dest'].summary = "torn"
        /\ files'[dest'].detail = files[dest].detail
    BY <1>1, <1>3, Untouched
  <2>2. QED
    BY <1>1, <1>3, <2>1 DEF Stage, DetailLeft, PairFromOneRun, OthersOld, Transfer, Hit
<1>4. QED
  BY <1>2, <1>3 DEF FlushesSummary

(* A run may be killed between any two of its steps.                          *)
LEMMA KilledStep ==
  ASSUME IInv, Killed
  PROVE  Stage' /\ PairFromOneRun'
<1>1. /\ OthersOld' /\ pc' = "off" /\ "killed" \in faults'
      /\ files' = files /\ dest' = dest /\ code' = code
  BY DEF IInv, Stage, OthersOld, Killed, Hit, config
<1>2. Stage'
  BY <1>1 DEF Stage, Transfer
<1>3. files[dest].detail = "new" /\ ~Common => files[dest].summary # "old"
  <2>1. pc \in Transfer \cup Saving
    BY DEF IInv, Types, Killed
  <2>2. CASE pc \in Transfer \cup {"summary", "summaryOpen", "detail"}
    BY <2>2 DEF IInv, Stage
  <2>3. CASE pc = "detailOpen"
    BY <2>3 DEF IInv, Stage
  <2>4. CASE pc = "flush"
    BY <2>4 DEF IInv, Stage
  <2>5. QED
    BY <2>1, <2>2, <2>3, <2>4 DEF Saving
<1>4. PairFromOneRun'
  BY <1>1, <1>3 DEF PairFromOneRun, OthersOld, Common
<1>5. QED
  BY <1>2, <1>4

-----------------------------------------------------------------------------
LEMMA Step == IInv /\ [Next]_vars => IInv'
<1> SUFFICES ASSUME IInv, [Next]_vars PROVE IInv'
  OBVIOUS
<1>1. Types' /\ Places'
  BY TypesKept, PlacesKept DEF IInv
<1>2. Stage' /\ PairFromOneRun'
  <2>1. CASE OpensSummary \/ WritesSummary \/ OpensDetail \/ WritesDetail
             \/ FlushesSummary \/ Killed
    BY <2>1, OpensSummaryStep, WritesSummaryStep, OpensDetailStep, WritesDetailStep,
       FlushesSummaryStep, KilledStep
  <2>2. CASE UNCHANGED vars
    BY <2>2 DEF IInv, Stage, OthersOld, SummaryLeft, DetailLeft, PairFromOneRun, Common,
       vars, config
  <2>3. QED
    BY <2>1, <2>2, TransferSteps DEF Next, ClientStep, Ended
<1>3. QED
  BY <1>1, <1>2 DEF IInv

(* After a run of any of the four clients, cut short anywhere, the pair of    *)
(* files it chose is its own and whole but for what a kill or a failing file  *)
(* explains, and no other file has been touched: saveResults and its kin.     *)
THEOREM ResultsFromOneRun == Spec => []PairFromOneRun
<1>1. IInv => PairFromOneRun
  BY DEF IInv
<1>2. QED
  BY <1>1, Start, Step, PTL DEF Spec

-----------------------------------------------------------------------------
(* The invariant of the figures. It holds beside IInv, on whose step it       *)
(* rests; the loop of the reversal has its own, from ReversalProofs.          *)
RP == INSTANCE ReversalProofs WITH Element <- Nat, orig <- chunk, data <- expected,
                                   i <- left, j <- right

(* The reader has been opened when the loop begins.                           *)
Unopened == pc = "open" \/ (pc = "connect" /\ code \in {"capnp", "go"})
Begins == pc \in {"open", "connect"}
HasChunk == pc \in {"reverse", "wait", "verify"}

(* The bounds that TypeOK adds to Types.                                      *)
Buffers ==
  /\ size \in Sizes /\ avail \in 0..size /\ reader \in Readers(size)
  /\ chunk \in Seq(1..size) /\ expected \in Seq(1..size) /\ Len(chunk) <= ChunkSize
  /\ flight \in Seq(Seq(1..size)) /\ lost \in Nat
  /\ Len(flight) + lost <= MaxInflight

Figures ==
  /\ verified \in Seq(1..size)
  /\ m.bytes < Modulus /\ m.wire < Modulus /\ m.fail <= 1

(* Every chunk but the last is full, unless a read of the Go client is short. *)
Rounded ==
  /\ reader.pos <= ChunkSize * reader.count /\ reader.count <= reader.pos
  /\ code # "go" =>
       /\ ChunkSize * reader.count < reader.pos + ChunkSize
       /\ reader.pos = ChunkSize * reader.count \/ avail <= reader.pos

(* The flag of the C++ TCP reader: a file of whole chunks ends without it.    *)
FlagKnown ==
  code = "tcp" /\ pc \in Transfer /\ ~Unopened =>
    LET short == reader.size = 0 \/ reader.pos < ChunkSize * reader.count
    IN  /\ short => reader.eof
        /\ reader.eof => short \/ "cut" \in faults

(* What the flag and the total of the reader say.                             *)
EndKnown ==
  /\ Begins => reader.pos = 0
  /\ Unopened => reader = NoReader
  /\ code = "tcp" => reader.total = TotalChunks(reader.size)
  /\ reader.eof => avail <= reader.pos \/ (code = "go" /\ reader.pos >= reader.size)
  /\ code = "go" /\ reader.pos > 0 /\ reader.pos >= reader.size => reader.eof
  /\ "cut" \notin faults =>
       avail = size /\ (pc \in Transfer /\ ~Unopened => reader.size = size)
  /\ FlagKnown

(* The first byte that is still to be answered follows this one.              *)
Front == IF flight = << >> THEN reader.pos ELSE Head(flight)[1] - 1

(* The chunk in hand is what the file has before the chunks in flight.        *)
InHand ==
  /\ InFlight(Front, reader.pos)
  /\ \A k \in 1..Len(flight) : Len(flight[k]) \in 1..ChunkSize
  /\ code # "grpc" => flight = << >> /\ lost = 0
  /\ HasChunk => chunk # << >> /\ chunk = Piece(Front - Len(chunk), Len(chunk))
  /\ pc = "verify" => code = "grpc"
  /\ pc = "wait" => R!Done
  /\ RP!LoopInv

(* A client that awaits each answer has verified what it has read, but for    *)
(* the chunk in hand, and counted a chunk an RTT: any wrong answer ends it.   *)
OneByOne ==
  /\ verified = Piece(0, Len(verified))
  /\ pc # "done" =>
       /\ "wrong answer" \notin faults /\ m.errors = 0
       /\ Len(verified) + Len(Pending) = reader.pos
  /\ pc = "done" =>
       \/ Len(verified) = reader.pos /\ reader.eof /\ m.errors = 0
       \/ "wrong answer" \in faults /\ m.errors > 0 /\ Len(verified) <= reader.pos
  /\ m.rtts + (IF HasChunk THEN 1 ELSE 0) = reader.count
  /\ m.bytes = IF code = "capnp" THEN reader.pos ELSE Len(verified)
  /\ m.bytes <= ChunkSize * m.rtts + (IF code = "capnp" THEN Len(Pending) ELSE 0)
  /\ m.wire = IF code = "capnp" THEN reader.pos ELSE 0
  /\ code # "capnp" => m.ok = m.rtts
  /\ m.fail = 0
  /\ m.timer = CASE code = "capnp" -> IF pc = "done" THEN "stopped" ELSE "unset"
                 [] OTHER -> IF Begins THEN "unset" ELSE "running"

(* The gRPC client counts what is answered, and goes on after a wrong answer  *)
(* or an orphan: as long as it has logged no error it has verified all it has *)
(* counted, in order.                                                         *)
Pipelined ==
  /\ m.rtts <= m.bytes /\ m.bytes <= Front /\ m.bytes <= ChunkSize * m.rtts
  /\ m.rtts + Len(flight) + lost <= reader.count
  /\ m.wire = m.bytes + Header * m.rtts
  /\ Len(verified) + Len(Pending) <= m.bytes
  /\ "wrong answer" \notin faults => Len(verified) + Len(Pending) = m.bytes
  /\ m.errors = 0 => /\ m.bytes = Front /\ lost = 0
                     /\ "wrong answer" \notin faults
                     /\ verified = Piece(0, Len(verified))
                     /\ m.rtts + Len(flight) = reader.count
  /\ m.errors > 0 => faults \cap {"wrong answer", "orphan"} # {}
  /\ m.fail = 0 /\ m.timer = "unset"

Progress == pc \in Transfer => IF code = "grpc" THEN Pipelined ELSE OneByOne

(* What holds of the figures that are saved, from the end of the transfer on. *)
Truthful == dest = "results" /\ Flawless => WholeVerified
Perfect == faults = {} => dest = "results" /\ Flawless /\ AllTimed
AllRead == faults \subseteq {"cut"} => flight = << >> /\ verified = Piece(0, reader.pos)

Saved ==
  /\ pc \in Saving => AllRead
  /\ pc \in Saving \/ files[dest].summary = "new" => Balanced /\ Truthful
  /\ pc \in Saving \/ (pc = "off" /\ faults = {}) => Perfect
  /\ pc = "off" /\ faults = {} => files[dest].summary = "new"

FInv == Buffers /\ Figures /\ Rounded /\ EndKnown /\ InHand /\ Progress /\ Saved

-----------------------------------------------------------------------------
(* Arithmetic, and pieces of the file.                                        *)
LEMMA OneMore ==
  ASSUME NEW k \in Nat
  PROVE  /\ ChunkSize * k \in Nat /\ ChunkSize * (k + 1) = ChunkSize * k + ChunkSize
         /\ Header * k \in Nat /\ Header * (k + 1) = Header * k + Header
         /\ ChunkSize \in Nat /\ ChunkSize >= 1 /\ Header \in Nat
  BY ChunkSizeAssumption, MetricsAssumption, Z3

LEMMA TimesZero == ChunkSize * 0 = 0 /\ Header * 0 = 0
  BY ChunkSizeAssumption, MetricsAssumption, Z3

LEMMA Covered ==
  ASSUME NEW bytes \in Nat
  PROVE  /\ TotalChunks(bytes) \in Nat /\ TotalChunks(bytes) <= bytes
         /\ ChunkSize * TotalChunks(bytes) >= bytes
         /\ ChunkSize * TotalChunks(bytes) < bytes + ChunkSize
<1>1. bytes + ChunkSize - 1 \in Nat
  BY ChunkSizeAssumption
<1>2. /\ TotalChunks(bytes) \in Nat
      /\ ChunkSize * TotalChunks(bytes) >= bytes
      /\ ChunkSize * TotalChunks(bytes) < bytes + ChunkSize
  BY <1>1, Division, ChunkSizeAssumption, Z3 DEF TotalChunks
<1> DEFINE total == TotalChunks(bytes)
<1> HIDE DEF total
<1>3. total <= bytes
  <2>1. SUFFICES ASSUME total >= bytes + 1 PROVE FALSE
    BY <1>2 DEF total
  <2>2. total \in Nat /\ ChunkSize * total < bytes + ChunkSize
    BY <1>2 DEF total
  <2>3. ChunkSize * total >= ChunkSize * (bytes + 1)
    BY <2>1, <2>2, Monotonic
  <2>4. ChunkSize * (bytes + 1) >= bytes + ChunkSize
    BY ChunkSizeAssumption, Z3
  <2>5. QED
    BY <2>2, <2>3, <2>4, OneMore
<1>4. QED
  BY <1>2, <1>3 DEF total

(* A count whose last chunk is the first that covers the bytes is the ceiling.*)
LEMMA CeilingUnique ==
  ASSUME NEW bytes \in Nat, NEW k \in Nat,
         bytes <= ChunkSize * k, ChunkSize * k < bytes + ChunkSize
  PROVE  k = TotalChunks(bytes)
<1> DEFINE total == TotalChunks(bytes)
<1>1. /\ total \in Nat
      /\ ChunkSize * total >= bytes /\ ChunkSize * total < bytes + ChunkSize
  BY Covered
<1> HIDE DEF total
<1>2. /\ ChunkSize * k \in Nat /\ ChunkSize * (k + 1) = ChunkSize * k + ChunkSize
      /\ ChunkSize * total \in Nat /\ ChunkSize * (total + 1) = ChunkSize * total + ChunkSize
      /\ ChunkSize \in Nat
  BY <1>1, OneMore
<1> DEFINE a == ChunkSize * k
           b == ChunkSize * total
           c == ChunkSize * (k + 1)
           d == ChunkSize * (total + 1)
<1>4. a < d /\ b < c
  <2>1. /\ a \in Nat /\ b \in Nat /\ c = a + ChunkSize /\ d = b + ChunkSize
        /\ b >= bytes /\ b < bytes + ChunkSize /\ bytes <= a /\ a < bytes + ChunkSize
    BY <1>1, <1>2
  <2> HIDE DEF a, b, c, d
  <2>2. QED
    BY <1>2, <2>1
<1>5. k = total
  BY <1>1, <1>4, QuotientUnique
<1>6. QED
  BY <1>5 DEF total

LEMMA CeilingMonotonic ==
  ASSUME NEW a \in Nat, NEW b \in Nat, a <= b
  PROVE  TotalChunks(a) <= TotalChunks(b)
<1>1. TotalChunks(b) * ChunkSize >= a
  BY Covered, OneMore
<1>2. QED
  BY <1>1, Covered, CountMeansEnd

(* What is sent for the file fits in a size_t.                                *)
LEMMA Fits ==
  ASSUME NEW bytes \in Nat, NEW sent \in Nat, NEW k \in Nat, bytes \in Sizes,
         sent <= bytes, k <= TotalChunks(bytes)
  PROVE  sent + Header * k < Modulus /\ sent < Modulus /\ Modulus \in Nat
<1>1. bytes + Header * TotalChunks(bytes) < Modulus
  BY WidthAssumption
<1>2. TotalChunks(bytes) \in Nat
  BY Covered
<1> DEFINE total == TotalChunks(bytes)
<1> HIDE DEF total
<1>3. Header * k <= Header * total /\ Header * k \in Nat
  BY <1>2, MetricsAssumption, Z3 DEF total
<1>4. Header * total \in Nat
  BY <1>2, OneMore DEF total
<1>5. QED
  BY <1>1, <1>3, <1>4, MetricsAssumption DEF total

LEMMA AtLeastTwo ==
  ASSUME NEW n \in Nat, n >= 1, n # 1
  PROVE  2 \in 1..n /\ 1 \in 1..(n - 1) /\ 1 + 1 = 2 /\ 2 - 1 = 1
  OBVIOUS

LEMMA BothGrow ==
  ASSUME NEW a \in Nat, NEW b \in Nat, NEW n \in Nat
  PROVE  (a + 0 <= b => a + n <= b + n) /\ (a + 0 = b => a + n = b + n)
  OBVIOUS

LEMMA Remains ==
  ASSUME NEW a \in Nat, a < Modulus
  PROVE  a % Modulus = a
  BY MetricsAssumption, Z3

LEMMA PieceProperties ==
  ASSUME NEW from \in Nat, NEW n \in Nat
  PROVE  /\ Len(Piece(from, n)) = n /\ Piece(from, n) \in Seq(Nat)
         /\ \A i \in 1..n : Piece(from, n)[i] = from + i
         /\ \A top \in Nat : from + n <= top => Piece(from, n) \in Seq(1..top)
  BY DEF Piece

LEMMA PiecesJoin ==
  ASSUME NEW a \in Nat, NEW b \in Nat
  PROVE  Piece(0, a) \o Piece(a, b) = Piece(0, a + b)
  BY DEF Piece

-----------------------------------------------------------------------------
(* Steps that leave the buffers alone.                                        *)
Still == UNCHANGED <<config, avail, reader, reversalVars, flightVars>>

LEMMA FrameKept ==
  ASSUME Buffers, Rounded, EndKnown, InHand, Still,
         "cut" \in faults => "cut" \in faults',
         HasChunk' => HasChunk, pc' = "verify" => pc = "verify",
         pc' = "wait" => pc = "wait" \/ R!Done,
         Begins' => Begins, Unopened' => Unopened,
         pc' \in Transfer /\ ~Unopened' => pc \in Transfer /\ ~Unopened
  PROVE  Buffers' /\ Rounded' /\ EndKnown' /\ InHand'
<1>1. /\ code' = code /\ size' = size /\ avail' = avail /\ reader' = reader
      /\ chunk' = chunk /\ expected' = expected /\ left' = left /\ right' = right
      /\ flight' = flight /\ lost' = lost
  BY DEF Still, config, reversalVars, flightVars
<1>2. Buffers'
  BY <1>1 DEF Buffers
<1>3. Rounded'
  BY <1>1 DEF Rounded
<1>4. EndKnown'
  BY <1>1 DEF EndKnown, FlagKnown
<1>5. InHand'
  BY <1>1 DEF InHand, InFlight, End, Front, RP!LoopInv, R!Done
<1>6. QED
  BY <1>2, <1>3, <1>4, <1>5

(* A step within the transfer saves nothing.                                  *)
LEMMA SavedLater ==
  ASSUME IInv', pc' \in Transfer
  PROVE  Saved'
<1>1. pc' \notin Saving /\ pc' # "off"
  BY DEF Transfer, Saving
<1>2. files'[dest'].summary = "old"
  BY DEF IInv, Stage
<1>3. QED
  BY <1>1, <1>2 DEF Saved

(* Nor does one that leaves it for good, for which there is a reason.         *)
LEMMA SavedNever ==
  ASSUME IInv, pc \in Transfer, pc' = "off", faults' # {},
         UNCHANGED <<files, dest>>
  PROVE  Saved'
<1>1. files'[dest'].summary = "old"
  BY DEF IInv, Stage
<1>2. QED
  BY <1>1 DEF Saved, Saving

LEMMA SavedFrom ==
  ASSUME pc' = "summary", AllRead', Balanced', Truthful', Perfect'
  PROVE  Saved'
  BY DEF Saved, Saving

-----------------------------------------------------------------------------
(* Saving changes the files and the faults, and nothing the figures say.      *)
LEMMA FiguresSaved ==
  ASSUME FInv, IInv, SavingUnchanged, pc \in Saving, pc' \in Saving \cup {"off"},
         faults' = faults \/ faults' = faults \cup {"save"}
           \/ faults' = faults \cup {"write"} \/ faults' = faults \cup {"killed"},
         pc' = "off" /\ faults' = {} => files'[dest'].summary = "new"
  PROVE  FInv'
<1>1. /\ Still /\ code' = code /\ size' = size /\ m' = m /\ dest' = dest
      /\ verified' = verified /\ flight' = flight /\ reader' = reader
  BY DEF SavingUnchanged, Still, config, transferVars, flightVars
<1>2. pc' \notin Transfer /\ pc \notin Transfer
  BY DEF Transfer, Saving
<1>3. Buffers' /\ Rounded' /\ EndKnown' /\ InHand'
  BY <1>1, <1>2, FrameKept
  DEF FInv, HasChunk, Begins, Unopened, Transfer
<1>4. Figures' /\ Progress'
  BY <1>1, <1>2 DEF FInv, Figures, Progress
<1>5. /\ "wrong answer" \in faults' <=> "wrong answer" \in faults
      /\ faults' \subseteq {"cut"} => faults \subseteq {"cut"}
      /\ faults' = {} => faults = {}
  OBVIOUS
<1>6. Balanced /\ Truthful /\ Perfect /\ AllRead
  BY DEF FInv, Saved
<1>7. Balanced'
  BY <1>1, <1>5, <1>6 DEF Balanced, Common
<1>8. Truthful' /\ Perfect'
  BY <1>1, <1>5, <1>6 DEF Truthful, Perfect, Flawless, WholeVerified, AllTimed
<1>9. AllRead'
  BY <1>1, <1>5, <1>6 DEF AllRead
<1>10. Saved'
  BY <1>7, <1>8, <1>9 DEF Saved
<1>11. QED
  BY <1>3, <1>4, <1>10 DEF FInv

LEMMA SavingSteps ==
  ASSUME FInv, IInv, OpensSummary \/ WritesSummary \/ OpensDetail \/ WritesDetail
                       \/ FlushesSummary
  PROVE  FInv'
<1>1. /\ SavingUnchanged /\ pc \in Saving /\ pc' \in Saving \cup {"off"}
      /\ \/ faults' = faults \/ faults' = faults \cup {"save"}
         \/ faults' = faults \cup {"write"}
  BY DEF OpensSummary, WritesSummary, OpensDetail, WritesDetail, FlushesSummary, Saving,
     Hit, NoFault
<1>2. ASSUME pc' = "off", faults' = {} PROVE files'[dest'].summary = "new"
  <2>1. dest' = dest /\ faults = {}
    BY <1>1, <1>2 DEF SavingUnchanged
  <2>2. CASE OpensSummary \/ WritesSummary
    BY <1>2, <2>2 DEF OpensSummary, WritesSummary, Hit
  <2>3. CASE OpensDetail
    <3>1. code # "go" /\ SummaryLeft /\ files' = files
      BY <1>2, <2>3 DEF OpensDetail, IInv, Stage, Hit
    <3>2. QED
      BY <2>1, <3>1 DEF SummaryLeft
  <2>4. CASE WritesDetail
    <3>1. code # "go" /\ SummaryLeft /\ Writes("detail", "new")
      BY <1>2, <2>4 DEF WritesDetail, IInv, Stage, Hit
    <3>2. files'[dest'].summary = files[dest].summary
      BY <1>1, <3>1, Written DEF IInv, Stage, ResultFile
    <3>3. QED
      BY <2>1, <3>1, <3>2 DEF SummaryLeft
  <2>5. CASE FlushesSummary
    <3>1. Writes("summary", "new")
      BY <1>2, <2>5 DEF FlushesSummary, Hit
    <3>2. QED
      BY <1>1, <3>1, Written DEF IInv, Stage, ResultFile
  <2>6. QED
    BY <2>2, <2>3, <2>4, <2>5
<1>3. QED
  BY <1>1, <1>2, FiguresSaved

LEMMA KilledFigures ==
  ASSUME FInv, IInv, Killed
  PROVE  FInv'
<1>1. /\ SavingUnchanged /\ files' = files
      /\ pc' = "off" /\ faults' = faults \cup {"killed"} /\ faults' # {}
  BY DEF Killed, Hit, SavingUnchanged
<1>2. CASE pc \in Saving
  BY <1>1, <1>2, FiguresSaved
<1>3. CASE pc \in Transfer
  <2>1. /\ Still /\ m' = m /\ verified' = verified /\ size' = size /\ dest' = dest
    BY <1>1 DEF SavingUnchanged, Still, config, transferVars
  <2>2. Buffers' /\ Rounded' /\ EndKnown' /\ InHand'
    BY <1>1, <2>1, FrameKept DEF FInv, HasChunk, Begins, Unopened, Transfer
  <2>3. Figures' /\ Progress'
    BY <1>1, <2>1 DEF FInv, Figures, Progress, Transfer
  <2>4. Saved'
    BY <1>1, <1>3, <2>1, SavedNever
  <2>5. QED
    BY <2>2, <2>3, <2>4 DEF FInv
<1>4. QED
  BY <1>2, <1>3 DEF IInv, Types, Killed

-----------------------------------------------------------------------------
(* Up to the first chunk there is nothing to count.                           *)
LEMMA Beginning ==
  ASSUME FInv, IInv, Begins
  PROVE  /\ reader.pos = 0 /\ reader.count = 0 /\ flight = << >> /\ lost = 0
         /\ Len(verified) = 0 /\ Front = 0 /\ Pending = << >> /\ ~HasChunk
         /\ m.rtts = 0 /\ m.bytes = 0 /\ m.wire = 0 /\ m.fail = 0
         /\ m.timer = "unset" /\ pc \in Transfer
<1>1. /\ pc \in Transfer /\ ~HasChunk /\ Pending = << >> /\ pc # "done"
      /\ ~(pc \in {"reverse", "wait", "verify"})
  BY DEF Begins, Transfer, HasChunk, Pending
<1>2. reader.pos = 0 /\ reader.count = 0
  BY DEF FInv, EndKnown, Rounded, Buffers, Readers
<1>3. Len(verified) \in Nat /\ Len(flight) \in Nat /\ lost \in Nat
  BY DEF FInv, Buffers, Figures
<1>4. Len(<< >>) = 0
  OBVIOUS
<1>5. m.rtts \in Nat /\ m.bytes \in Nat /\ Header * 0 = 0
  BY MetricsAssumption DEF IInv, Types, Counters
<1>6. CASE code = "grpc"
  <2>1. Pipelined
    BY <1>1, <1>6 DEF FInv, Progress
  <2>8. m.rtts + Len(flight) + lost <= 0
    BY <1>2, <2>1 DEF Pipelined
  <2>2. m.rtts = 0 /\ Len(flight) = 0 /\ lost = 0
    BY <1>3, <1>5, <2>8
  <2>3. flight = << >>
    BY <2>2, EmptySeq DEF FInv, Buffers
  <2>4. Front = 0
    BY <1>2, <2>3 DEF Front
  <2>9. /\ m.bytes <= Front /\ m.wire = m.bytes + Header * m.rtts
        /\ Len(verified) + Len(Pending) <= m.bytes
        /\ m.fail = 0 /\ m.timer = "unset"
    BY <2>1 DEF Pipelined
  <2>5. m.bytes = 0 /\ m.wire = 0 /\ m.fail = 0 /\ m.timer = "unset"
    BY <1>5, <2>2, <2>4, <2>9
  <2>10. Len(Pending) = 0
    BY <1>1, <1>4
  <2>6. Len(verified) = 0
    BY <1>3, <2>5, <2>9, <2>10
  <2>7. QED
    BY <1>1, <1>2, <2>2, <2>3, <2>4, <2>5, <2>6
<1>7. CASE code # "grpc"
  <2>1. OneByOne /\ flight = << >> /\ lost = 0
    BY <1>1, <1>7 DEF FInv, Progress, InHand
  <2>2. Len(verified) + 0 = 0
    BY <1>1, <1>2, <1>4, <2>1 DEF OneByOne
  <2>3. Front = 0 /\ Len(verified) = 0
    BY <1>2, <1>3, <2>1, <2>2 DEF Front
  <2>4. m.rtts + 0 = 0
    BY <1>1, <1>2, <2>1 DEF OneByOne
  <2>5. m.rtts = 0 /\ m.bytes = 0 /\ m.wire = 0 /\ m.fail = 0
    <3>1. /\ m.bytes = IF code = "capnp" THEN reader.pos ELSE Len(verified)
          /\ m.wire = IF code = "capnp" THEN reader.pos ELSE 0
          /\ m.fail = 0
      BY <2>1 DEF OneByOne
    <3>2. QED
      BY <1>2, <1>5, <2>3, <2>4, <3>1
  <2>7. m.timer = "unset"
    BY <1>1, <1>7, <2>1 DEF OneByOne
  <2>6. QED
    BY <1>1, <1>2, <2>1, <2>3, <2>5, <2>7
<1>8. QED
  BY <1>6, <1>7

(* Starting the timer counts nothing.                                         *)
LEMMA TimerStarts ==
  ASSUME m \in Counters, NEW c \in Codes, StartsTimer(c)
  PROVE  /\ m'.bytes = m.bytes /\ m'.wire = m.wire /\ m'.rtts = m.rtts /\ m'.ok = m.ok
         /\ m'.fail = m.fail /\ m'.errors = m.errors
         /\ m'.timer = IF code = c THEN "running" ELSE m.timer
  BY DEF StartsTimer, StartTimer, Counters

LEMMA OpensFigures ==
  ASSUME FInv, IInv, IInv', Opens
  PROVE  FInv'
<1>1. /\ pc = "open" /\ Begins /\ pc \in Transfer /\ code \in Codes /\ size \in Nat
      /\ avail \in 0..size /\ m \in Counters
  BY DEF Opens, Begins, Transfer, IInv, Types, FInv, Buffers
<1>2. /\ reader' = Opened(code, avail) /\ code' = code /\ size' = size /\ avail' = avail
      /\ UNCHANGED <<chunk, expected, left, right, flight, lost, verified, dest, files,
                     faults>>
      /\ pc' = IF code \in {"grpc", "tcp"} THEN "connect" ELSE "loop"
      /\ StartsTimer("go")
  BY DEF Opens, config, reversalVars, flightVars
<1>3. TotalChunks(avail) \in Nat /\ TotalChunks(avail) <= avail
      /\ GoTotalChunks(avail) = TotalChunks(avail)
  BY <1>1, Covered, TotalsAgree
<1>4. /\ reader'.size = avail /\ reader'.pos = 0 /\ reader'.count = 0
      /\ (code = "tcp" => reader'.total = TotalChunks(avail))
      /\ (reader'.eof => avail = 0)
      /\ (code = "tcp" /\ avail = 0 => reader'.eof)
      /\ reader' \in Readers(size)
  <2> DEFINE empty == code = "tcp" /\ avail = 0
             total == CASE code = "tcp" -> TotalChunks(avail)
                        [] code = "go" -> GoTotalChunks(avail)
                        [] OTHER -> 0
  <2>1. /\ empty \in BOOLEAN /\ (empty => avail = 0)
        /\ (code = "tcp" /\ avail = 0 => empty)
    OBVIOUS
  <2>2. total \in 0..size /\ (code = "tcp" => total = TotalChunks(avail))
    BY <1>1, <1>3
  <2>3. reader' = [size |-> avail, total |-> total, pos |-> 0, count |-> 0, eof |-> empty]
    BY <1>2 DEF Opened
  <2> HIDE DEF empty, total
  <2>4. QED
    BY <1>1, <2>1, <2>2, <2>3 DEF Readers
<1>5. Buffers'
  BY <1>2, <1>4 DEF FInv, Buffers
<1>6. Rounded'
  BY <1>2, <1>4, OneMore, ChunkSizeAssumption DEF Rounded
<1>7. EndKnown'
  <2>1. ~Unopened'
    BY <1>2 DEF Unopened
  <2>2. "cut" \notin faults => avail = size
    BY DEF FInv, EndKnown
  <2>3. reader'.eof => avail' <= reader'.pos
    BY <1>2, <1>4
  <2>4. FlagKnown'
    <3>1. ChunkSize * reader'.count = 0 /\ ~(0 < 0)
      BY <1>4, TimesZero
    <3>2. QED
      BY <1>2, <1>4, <3>1 DEF FlagKnown
  <2>5. QED
    BY <1>2, <1>4, <2>1, <2>2, <2>3, <2>4 DEF EndKnown
<1>8. /\ reader.pos = 0 /\ flight = << >> /\ Front = 0 /\ Pending = << >>
  BY <1>1, Beginning
<1>9. Front' = 0 /\ Pending' = << >> /\ ~HasChunk' /\ pc' # "done"
  BY <1>2, <1>4, <1>8 DEF Front, Pending, HasChunk
<1>10. InHand'
  BY <1>1, <1>2, <1>4, <1>8, <1>9
  DEF FInv, InHand, InFlight, End, RP!LoopInv, HasChunk
<1>11. /\ m'.bytes = m.bytes /\ m'.wire = m.wire /\ m'.rtts = m.rtts /\ m'.ok = m.ok
       /\ m'.fail = m.fail /\ m'.errors = m.errors
       /\ m'.timer = IF code = "go" THEN "running" ELSE m.timer
  BY <1>1, <1>2, TimerStarts DEF Codes
<1>12. Figures'
  BY <1>2, <1>11 DEF FInv, Figures
<1>13. /\ reader.count = 0 /\ ~HasChunk /\ m.timer = "unset"
  BY <1>1, Beginning
<1>14. pc' \in Transfer
  BY <1>2 DEF Transfer
<1>15. CASE code = "grpc"
  <2>1. Pipelined
    BY <1>1, <1>15 DEF FInv, Progress
  <2>2. Pipelined'
    BY <1>2, <1>4, <1>8, <1>9, <1>11, <1>13, <1>15, <2>1 DEF Pipelined
  <2>3. QED
    BY <1>2, <1>5, <1>6, <1>7, <1>10, <1>12, <1>14, <1>15, <2>2, SavedLater
    DEF FInv, Progress
<1>16. CASE code # "grpc"
  <2>1. OneByOne
    BY <1>1, <1>16 DEF FInv, Progress
  <2>2. OneByOne'
    BY <1>1, <1>2, <1>4, <1>8, <1>9, <1>11, <1>13, <1>16, <2>1 DEF OneByOne, Begins, Codes
  <2>3. QED
    BY <1>2, <1>5, <1>6, <1>7, <1>10, <1>12, <1>14, <1>16, <2>2, SavedLater
    DEF FInv, Progress
<1>17. QED
  BY <1>15, <1>16

LEMMA ConnectsFigures ==
  ASSUME FInv, IInv, IInv', Connects
  PROVE  FInv'
<1>1. /\ pc = "connect" /\ Begins /\ pc \in Transfer /\ code \in Codes /\ m \in Counters
  BY DEF Connects, Begins, Transfer, IInv, Types
<1>2. /\ Still /\ code' = code /\ size' = size /\ flight' = flight /\ reader' = reader
      /\ UNCHANGED <<lost, verified, dest, files, faults>>
      /\ pc' = IF code \in {"grpc", "tcp"} THEN "loop" ELSE "open"
      /\ StartsTimer("tcp")
  BY DEF Connects, Still, config, transferVars, flightVars
<1>3. Buffers' /\ Rounded' /\ EndKnown' /\ InHand'
  BY <1>1, <1>2, FrameKept DEF FInv, HasChunk, Begins, Unopened, Transfer, Codes
<1>4. /\ m'.bytes = m.bytes /\ m'.wire = m.wire /\ m'.rtts = m.rtts /\ m'.ok = m.ok
      /\ m'.fail = m.fail /\ m'.errors = m.errors
      /\ m'.timer = IF code = "tcp" THEN "running" ELSE m.timer
  BY <1>1, <1>2, TimerStarts DEF Codes
<1>5. Figures'
  BY <1>2, <1>4 DEF FInv, Figures
<1>6. /\ Front' = Front /\ Pending' = Pending /\ HasChunk' = HasChunk
      /\ pc' \in Transfer /\ pc' # "done" /\ pc # "done"
  BY <1>1, <1>2 DEF Front, Pending, HasChunk, Transfer
<1>7. CASE code = "grpc"
  <2>1. Pipelined
    BY <1>1, <1>7 DEF FInv, Progress
  <2>2. Pipelined'
    BY <1>2, <1>4, <1>6, <1>7, <2>1 DEF Pipelined
  <2>3. QED
    BY <1>2, <1>3, <1>5, <1>6, <1>7, <2>2, SavedLater DEF FInv, Progress
<1>8. CASE code # "grpc"
  <2>1. OneByOne
    BY <1>1, <1>8 DEF FInv, Progress
  <2>2. OneByOne'
    BY <1>1, <1>2, <1>4, <1>6, <1>8, <2>1 DEF OneByOne, Begins, Codes
  <2>3. QED
    BY <1>2, <1>3, <1>5, <1>6, <1>8, <2>2, SavedLater DEF FInv, Progress
<1>9. QED
  BY <1>7, <1>8

-----------------------------------------------------------------------------
(* Another client cuts the file short.                                        *)
LEMMA FileCutFigures ==
  ASSUME FInv, IInv, IInv', FileCut
  PROVE  FInv'
<1>1. /\ code' = code /\ size' = size /\ pc' = pc /\ m' = m /\ reader' = reader
      /\ UNCHANGED <<chunk, expected, left, right, flight, lost, verified>>
      /\ avail' \in 0..(avail - 1) /\ faults' = faults \cup {"cut"} /\ pc \in Transfer
  BY DEF FileCut, Hit, config, transferVars, reversalVars, flightVars, Transfer
<1>2. avail \in Nat /\ avail' \in Nat /\ avail' <= avail /\ reader.pos \in Nat
  BY <1>1 DEF FInv, Buffers, Readers
<1>3. Buffers'
  <2>1. avail' \in 0..size
    <3>1. avail \in 0..size /\ size \in Nat
      BY DEF FInv, Buffers, IInv, Types
    <3>2. QED
      BY ONLY <1>2, <3>1
  <2>2. QED
    BY <1>1, <2>1 DEF FInv, Buffers
<1>4. Rounded'
  BY <1>1, <1>2 DEF FInv, Rounded
<1>5. EndKnown'
  BY <1>1, <1>2 DEF FInv, EndKnown, FlagKnown, Unopened, Begins
<1>6. InHand'
  BY <1>1 DEF FInv, InHand, InFlight, End, Front, RP!LoopInv, R!Done, HasChunk
<1>7. Figures' /\ Progress'
  BY <1>1 DEF FInv, Figures, Progress, Pipelined, OneByOne, Front, Pending, HasChunk, Begins
<1>8. QED
  BY <1>1, <1>3, <1>4, <1>5, <1>6, <1>7, SavedLater DEF FInv

LEMMA Exchanged ==
  ASSUME NEW T, NEW s \in Seq(T), NEW a \in 1..Len(s), NEW b \in 1..Len(s)
  PROVE  [s EXCEPT ![a] = s[b], ![b] = s[a]] \in Seq(T)
  OBVIOUS

(* The reversal does not change what it reverses.                             *)
LEMMA ReversesFigures ==
  ASSUME FInv, IInv, IInv', Reverses
  PROVE  FInv'
<1>1. /\ code' = code /\ size' = size /\ pc' = pc /\ m' = m /\ reader' = reader
      /\ avail' = avail /\ UNCHANGED <<chunk, flight, lost, verified, faults>>
      /\ pc \in {"reverse", "verify"} /\ pc \in Transfer /\ R!Swap
      /\ expected' = [expected EXCEPT ![left] = expected[right], ![right] = expected[left]]
  BY DEF Reverses, R!Swap, config, flightVars, Transfer
<1>2. left \in 1..Len(expected) /\ right \in 1..Len(expected)
  <2>1. /\ Len(expected) = Len(chunk) /\ left \in Nat /\ left >= 1 /\ right \in Int
        /\ left + right = Len(chunk) + 1 /\ left < right
    BY <1>1 DEF FInv, InHand, RP!LoopInv, R!Swap
  <2>2. Len(chunk) \in Nat
    BY DEF FInv, Buffers
  <2>3. QED
    BY ONLY <2>1, <2>2
<1>3. expected' \in Seq(1..size)
  <2>1. expected \in Seq(1..size)
    BY DEF FInv, Buffers
  <2>2. QED
    BY <1>1, <1>2, <2>1, Exchanged
<1>4. Buffers'
  BY <1>1, <1>3 DEF FInv, Buffers
<1>5. Rounded' /\ EndKnown'
  BY <1>1 DEF FInv, Rounded, EndKnown, FlagKnown, Unopened, Begins
<1>6. RP!LoopInv'
  BY <1>1, RP!LoopStep DEF FInv, InHand, R!Swap, RP!Swap
<1>7. InHand'
  BY <1>1, <1>6 DEF FInv, InHand, InFlight, End, Front, HasChunk
<1>8. Figures' /\ Progress'
  BY <1>1 DEF FInv, Figures, Progress, Pipelined, OneByOne, Front, Pending, HasChunk, Begins
<1>9. QED
  BY <1>1, <1>4, <1>5, <1>7, <1>8, SavedLater DEF FInv

LEMMA SendsFigures ==
  ASSUME FInv, IInv, IInv', Sends
  PROVE  FInv'
<1>1. /\ Still /\ code' = code /\ size' = size /\ m' = m /\ reader' = reader
      /\ UNCHANGED <<chunk, flight, lost, verified, faults>>
      /\ pc = "reverse" /\ pc' = "wait" /\ R!Done
  BY DEF Sends, Still, config, transferVars, reversalVars, flightVars
<1>2. /\ pc \in Transfer /\ pc' \in Transfer /\ HasChunk /\ HasChunk' /\ ~Begins /\ ~Begins'
      /\ ~Unopened /\ ~Unopened'
  BY <1>1 DEF Transfer, HasChunk, Begins, Unopened
<1>3. Buffers' /\ Rounded' /\ EndKnown' /\ InHand'
  BY <1>1, <1>2, FrameKept DEF FInv
<1>4. Figures' /\ Progress'
  BY <1>1, <1>2 DEF FInv, Figures, Progress, Pipelined, OneByOne, Front, Pending
<1>5. QED
  BY <1>2, <1>3, <1>4, SavedLater DEF FInv

-----------------------------------------------------------------------------
(* Reading. What a read finds, and what it makes of the reader.               *)
LEMMA Found ==
  ASSUME FInv, IInv, NEW n \in Reads(code, reader, avail)
  PROVE  /\ n \in Nat /\ n <= ChunkSize /\ reader.pos + n <= size
         /\ n = 0 => avail <= reader.pos
         /\ n > 0 => avail > reader.pos
         /\ code # "go" /\ n < ChunkSize => avail <= reader.pos + n
<1> DEFINE rest == IF avail > reader.pos THEN avail - reader.pos ELSE 0
           full == IF rest < ChunkSize THEN rest ELSE ChunkSize
<1>1. /\ reader.pos \in 0..size /\ avail \in 0..size /\ size \in Nat
      /\ ChunkSize \in Nat /\ ChunkSize >= 1
  BY ChunkSizeAssumption DEF FInv, Buffers, Readers, IInv, Types
<1>2. /\ rest \in Nat /\ reader.pos + rest <= size
      /\ avail <= reader.pos + rest /\ (rest > 0 => avail > reader.pos)
  BY <1>1
<1>3. n \in IF code = "go" /\ full > 0 THEN 1..full ELSE {full}
  BY DEF Reads
<1> HIDE DEF rest
<1>4. /\ full \in Nat /\ full <= ChunkSize /\ full <= rest
      /\ (full = 0 => rest = 0) /\ (full < ChunkSize => full = rest)
  BY <1>1, <1>2
<1> HIDE DEF full
<1>5. /\ n \in Nat /\ n <= full /\ (n = 0 => full = 0) /\ (code # "go" => n = full)
  BY <1>3, <1>4
<1>6. QED
  BY <1>1, <1>2, <1>4, <1>5

LEMMA ReaderRead ==
  ASSUME FInv, IInv, NEW n \in Reads(code, reader, avail),
         reader' = After(code, reader, n)
  PROVE  /\ reader'.size = reader.size /\ reader'.total = reader.total
         /\ reader'.pos = reader.pos + n
         /\ reader'.count = IF n > 0 THEN reader.count + 1 ELSE reader.count
         /\ reader'.eof <=> \/ reader.eof \/ n = 0
                            \/ code = "tcp" /\ n < ChunkSize
                            \/ code = "go" /\ reader.pos + n >= reader.size
         /\ reader' \in Readers(size)
<1> DEFINE end == \/ reader.eof \/ n = 0
                  \/ code = "tcp" /\ n < ChunkSize
                  \/ code = "go" /\ reader.pos + n >= reader.size
           count == IF n > 0 THEN reader.count + 1 ELSE reader.count
<1>1. /\ n \in Nat /\ reader.pos + n <= size
      /\ reader \in Readers(size) /\ size \in Nat /\ reader.count <= reader.pos
  BY Found DEF FInv, Buffers, Rounded, IInv, Types
<1>2. end \in BOOLEAN
  BY <1>1 DEF Readers
<1>3. /\ reader.pos \in Nat /\ reader.count \in Nat
  BY <1>1 DEF Readers
<1>4. reader.pos + n \in 0..size /\ count \in 0..size
  BY <1>1, <1>3
<1>5. reader' = [reader EXCEPT !.pos = reader.pos + n, !.count = count, !.eof = end]
  BY DEF After
<1> HIDE DEF end, count
<1>6. /\ reader'.size = reader.size /\ reader'.total = reader.total
      /\ reader'.pos = reader.pos + n /\ reader'.count = count /\ reader'.eof = end
      /\ reader' \in Readers(size)
  BY <1>1, <1>2, <1>4, <1>5 DEF Readers
<1>7. QED
  BY <1>6 DEF end, count

(* However much it finds, the counts and the flag stay right.                 *)
LEMMA ReadingKept ==
  ASSUME FInv, IInv, ReadsChunk, NEW n \in Reads(code, reader, avail),
         reader' = After(code, reader, n), pc' \in Transfer \ {"open", "connect"}
  PROVE  Rounded' /\ EndKnown'
<1>1. /\ n \in Nat /\ n <= ChunkSize
      /\ (n = 0 => avail <= reader.pos) /\ (n > 0 => avail > reader.pos)
      /\ (code # "go" /\ n < ChunkSize => avail <= reader.pos + n)
  BY Found
<1>2. /\ reader'.size = reader.size /\ reader'.total = reader.total
      /\ reader'.pos = reader.pos + n
      /\ reader'.count = IF n > 0 THEN reader.count + 1 ELSE reader.count
      /\ reader'.eof <=> \/ reader.eof \/ n = 0
                         \/ code = "tcp" /\ n < ChunkSize
                         \/ code = "go" /\ reader.pos + n >= reader.size
  BY ReaderRead
<1>3. /\ code' = code /\ size' = size /\ avail' = avail /\ faults' = faults
      /\ ~reader.eof /\ pc \in Transfer /\ ~Unopened /\ ~Unopened' /\ ~Begins'
  BY DEF ReadsChunk, EndSeen, config, Unopened, Begins, Transfer
<1>4. /\ reader.pos \in Nat /\ reader.count \in Nat /\ avail \in Nat /\ size \in Nat
  BY DEF FInv, Buffers, Readers, IInv, Types
<1>5. /\ ChunkSize * (reader.count + 1) = ChunkSize * reader.count + ChunkSize
      /\ ChunkSize * reader.count \in Nat /\ ChunkSize \in Nat
  BY <1>4, OneMore
<1>6. Rounded'
  <2>1. CASE n = 0
    BY <1>2, <1>3, <1>4, <2>1 DEF FInv, Rounded
  <2>2. CASE n > 0
    <3>1. /\ reader'.count = reader.count + 1 /\ reader'.pos = reader.pos + n
          /\ ChunkSize * reader'.count = ChunkSize * reader.count + ChunkSize
      BY <1>2, <1>5, <2>2
    <3>2. /\ reader.pos <= ChunkSize * reader.count /\ reader.count <= reader.pos
          /\ code # "go" => reader.pos = ChunkSize * reader.count
      BY <1>1, <1>4, <2>2 DEF FInv, Rounded
    <3> DEFINE before == ChunkSize * reader.count
               after == ChunkSize * reader'.count
    <3>3. before \in Nat /\ after = before + ChunkSize
      BY <1>5, <3>1
    <3>4. /\ reader.pos <= before /\ reader.count <= reader.pos
          /\ code # "go" => reader.pos = before
      BY <3>2
    <3> HIDE DEF before, after
    <3>5. /\ reader'.pos <= after /\ reader'.count <= reader'.pos
          /\ code # "go" => /\ after < reader'.pos + ChunkSize
                            /\ reader'.pos = after \/ avail <= reader'.pos
      BY <1>1, <1>4, <1>5, <2>2, <3>1, <3>3, <3>4
    <3>6. QED
      BY <1>3, <3>5 DEF Rounded, after
  <2>3. QED
    BY <1>1, <2>1, <2>2
<1>7. EndKnown'
  <2>1. code = "tcp" => reader'.total = TotalChunks(reader'.size)
    BY <1>2 DEF FInv, EndKnown
  <2>2. reader'.eof => avail <= reader'.pos \/ (code = "go" /\ reader'.pos >= reader'.size)
    BY <1>1, <1>2, <1>3, <1>4
  <2>3. code = "go" /\ reader'.pos >= reader'.size => reader'.eof
    BY <1>2
  <2>4. "cut" \notin faults => avail = size /\ reader'.size = size
    BY <1>2, <1>3 DEF FInv, EndKnown
  <2>5. FlagKnown'
    <3> SUFFICES ASSUME code = "tcp"
                 PROVE  LET short == \/ reader'.size = 0
                                     \/ reader'.pos < ChunkSize * reader'.count
                        IN  /\ short => reader'.eof
                            /\ reader'.eof => short \/ "cut" \in faults
      BY <1>3 DEF FlagKnown
    <3> DEFINE before == ChunkSize * reader.count
               after == ChunkSize * reader'.count
    <3>1. reader.size # 0 /\ ~(reader.pos < before)
      BY <1>3 DEF FInv, EndKnown, FlagKnown
    <3>2. reader.pos <= before /\ before \in Nat /\ ChunkSize \in Nat
      BY <1>5 DEF FInv, Rounded
    <3>3. reader.pos = before
      <4> HIDE DEF before
      <4>1. QED
        BY <1>4, <3>1, <3>2
    <3>4. CASE n = 0
      <4>1. reader'.eof
        BY <1>2, <3>4
      <4>2. ASSUME "cut" \notin faults PROVE FALSE
        <5>1. pc = "loop" /\ pc # "done" /\ ~HasChunk /\ ~(m.ok >= reader.total)
          BY DEF ReadsChunk, EndSeen, HasChunk
        <5>2. OneByOne
          BY <1>3 DEF FInv, Progress
        <5>3. m.ok = m.rtts /\ m.rtts + 0 = reader.count /\ m.rtts \in Nat
          BY <5>1, <5>2 DEF OneByOne, IInv, Types, Counters
        <5>4. m.ok = reader.count
          BY ONLY <5>3
        <5>5. reader.total = TotalChunks(size) /\ avail = size
          BY <1>3, <4>2 DEF FInv, EndKnown
        <5>6. ~(reader.count * ChunkSize >= size)
          BY <1>4, <5>1, <5>4, <5>5, CountMeansEnd
        <5>7. reader.count * ChunkSize = before
          BY <1>4, ChunkSizeAssumption, Z3
        <5> HIDE DEF before
        <5>8. QED
          BY <1>1, <1>4, <3>3, <3>4, <5>5, <5>6, <5>7
      <4>3. QED
        BY <4>1, <4>2
    <3>5. CASE n > 0
      <4>1. /\ reader'.count = reader.count + 1 /\ reader'.pos = before + n
            /\ reader'.size = reader.size
            /\ (reader'.eof <=> n < ChunkSize)
        BY <1>2, <1>3, <3>3, <3>5
      <4>2. after = before + ChunkSize
        BY <1>5, <4>1
      <4> HIDE DEF before, after
      <4>3. reader'.pos < after <=> n < ChunkSize
        BY <1>1, <3>2, <4>1, <4>2
      <4>4. QED
        BY <3>1, <4>1, <4>3 DEF after
    <3>6. QED
      BY <1>1, <3>4, <3>5
  <2>6. QED
    BY <1>3, <2>1, <2>2, <2>3, <2>4, <2>5 DEF EndKnown
<1>8. QED
  BY <1>6, <1>7

(* The reversal begins with a copy.                                           *)
LEMMA LoopCopied ==
  ASSUME NEW s \in Seq(Nat), R!Copy(s)
  PROVE  RP!LoopInv'
<1>1. chunk' = s /\ expected' = s /\ left' = 1 /\ right' = Len(s) /\ Len(s) \in Nat
  BY DEF R!Copy
<1>2. \A k \in 1..Len(s) : 1 <= k /\ k <= Len(s)
  BY <1>1
<1>3. QED
  BY <1>1, <1>2 DEF RP!LoopInv

(* A client that sends one chunk at a time reads the next.                    *)
LEMMA ReadsAlone ==
  ASSUME FInv, IInv, IInv', ReadsChunk, code # "grpc",
         NEW n \in Reads(code, reader, avail), n > 0,
         reader' = After(code, reader, n), pc' = "reverse",
         R!Copy(Piece(reader.pos, n)), UNCHANGED <<flight, lost>>,
         m' = IF code = "capnp" THEN RecordChunkSent(m, n, n) ELSE m
  PROVE  FInv'
<1> DEFINE data == Piece(reader.pos, n)
<1>1. /\ pc = "loop" /\ pc \in Transfer /\ ~HasChunk /\ Pending = << >> /\ ~Begins
      /\ pc' \in Transfer /\ HasChunk' /\ Pending' = chunk' /\ ~Begins' /\ pc' # "done"
  BY DEF ReadsChunk, Transfer, HasChunk, Pending, Begins
<1>2. /\ n \in Nat /\ n <= ChunkSize /\ reader.pos + n <= size /\ reader.pos \in Nat
      /\ reader.count \in Nat /\ size \in Nat /\ size \in Sizes
      /\ reader'.pos = reader.pos + n /\ reader'.count = reader.count + 1
      /\ reader' \in Readers(size)
  BY Found, ReaderRead DEF FInv, Buffers, Readers, IInv, Types
<1>3. /\ Len(data) = n /\ data \in Seq(Nat) /\ data \in Seq(1..size)
  BY <1>2, PieceProperties
<1>4. /\ code' = code /\ size' = size /\ avail' = avail /\ faults' = faults
      /\ verified' = verified /\ chunk' = data /\ expected' = data
      /\ flight = << >> /\ lost = 0 /\ flight' = << >> /\ lost' = 0
  BY DEF ReadsChunk, config, R!Copy, FInv, InHand
<1>5. Rounded' /\ EndKnown'
  BY ReadingKept DEF Transfer
<1>6. Buffers'
  BY <1>2, <1>3, <1>4 DEF FInv, Buffers
<1>7. Front' = reader.pos + n
  BY <1>2, <1>4 DEF Front
<1>8. InHand'
  <2>1. RP!LoopInv'
    BY <1>3, LoopCopied
  <2>2. Len(<< >>) = 0 /\ reader.pos + n - n = reader.pos
    BY <1>2
  <2>3. InFlight(Front, reader.pos)'
    BY <1>2, <1>4, <1>7, <2>2 DEF InFlight, End
  <2>4. chunk' # << >> /\ chunk' = Piece(Front' - Len(chunk'), Len(chunk'))
    <3>1. Len(chunk') = n /\ Front' - n = reader.pos
      BY <1>2, <1>3, <1>4, <1>7
    <3>2. QED
      BY <1>4, <2>2, <3>1
  <2>5. QED
    BY <1>4, <2>1, <2>2, <2>3, <2>4 DEF InHand
<1>9. OneByOne
  BY <1>1 DEF FInv, Progress
<1>10. /\ Len(verified) = reader.pos /\ m.rtts = reader.count /\ m.errors = 0
       /\ "wrong answer" \notin faults /\ verified = Piece(0, Len(verified))
  <2>0. pc # "done"
    BY <1>1
  <2>1. /\ Len(verified) + Len(Pending) = reader.pos /\ m.errors = 0
        /\ "wrong answer" \notin faults /\ verified = Piece(0, Len(verified))
    BY <1>9, <2>0, Zenon DEF OneByOne
  <2>4. Len(verified) \in Nat /\ Len(Pending) = 0
    BY <1>1 DEF FInv, Figures
  <2>2. m.rtts + 0 = reader.count /\ m.rtts \in Nat
    BY <1>1, <1>9 DEF OneByOne, IInv, Types, Counters
  <2>5. Len(verified) = reader.pos /\ m.rtts = reader.count
    <3>1. Len(verified) + Len(Pending) = reader.pos /\ reader.pos \in Nat
      BY <1>2, <2>1
    <3>2. QED
      BY ONLY <2>2, <2>4, <3>1
  <2>3. QED
    BY <2>1, <2>5, Zenon
<1>11. reader.pos + n < Modulus /\ (reader.pos + n) % Modulus = reader.pos + n
  <2>1. 0 <= TotalChunks(size) /\ reader.pos + n \in Nat
    BY <1>2, Covered
  <2>2. QED
    BY <1>2, <2>1, Fits, Remains
<1>12. m \in Counters
  BY DEF IInv, Types
<1>13. /\ m'.rtts = m.rtts /\ m'.ok = m.ok /\ m'.fail = m.fail /\ m'.errors = m.errors
       /\ m'.timer = m.timer
       /\ m'.bytes = IF code = "capnp" THEN reader.pos + n ELSE m.bytes
       /\ m'.wire = IF code = "capnp" THEN reader.pos + n ELSE m.wire
  <2>1. code = "capnp" => m.bytes = reader.pos /\ m.wire = reader.pos
    BY <1>9 DEF OneByOne
  <2>2. QED
    BY <1>11, <1>12, <2>1 DEF RecordChunkSent, Counters
<1>14. Figures'
  BY <1>4, <1>11, <1>13 DEF FInv, Figures
<1>15. OneByOne'
  <2>1. m'.bytes <= ChunkSize * m'.rtts
                      + (IF code' = "capnp" THEN Len(Pending') ELSE 0)
    <3>1. ChunkSize * m.rtts \in Nat /\ m.bytes \in Nat
      BY <1>12, OneMore DEF Counters
    <3>2. m.bytes <= ChunkSize * m.rtts + (IF code = "capnp" THEN Len(<< >>) ELSE 0)
      BY <1>1, <1>9 DEF OneByOne
    <3>3. code = "capnp" => m.bytes = reader.pos
      BY <1>9 DEF OneByOne
    <3>4. Len(Pending') = n /\ Len(<< >>) = 0
      BY <1>1, <1>3, <1>4
    <3> HIDE DEF data
    <3>5. QED
      BY <1>2, <1>4, <1>13, <3>1, <3>2, <3>3, <3>4
  <2>2. Len(verified') + Len(Pending') = reader'.pos
    BY <1>1, <1>2, <1>3, <1>4, <1>10
  <2>3. m'.rtts + 1 = reader'.count
    BY <1>2, <1>10, <1>13
  <2>4. QED
    BY <1>1, <1>2, <1>4, <1>9, <1>10, <1>13, <2>1, <2>2, <2>3 DEF OneByOne
<1>16. QED
  BY <1>1, <1>4, <1>5, <1>6, <1>8, <1>14, <1>15, SavedLater DEF FInv, Progress

(* Nothing is left: only the reader learns of it.                             *)
LEMMA ReadsNothing ==
  ASSUME FInv, IInv, IInv', ReadsChunk, 0 \in Reads(code, reader, avail),
         reader' = After(code, reader, 0),
         UNCHANGED <<pc, reversalVars, flight, lost, m>>
  PROVE  FInv'
<1>1. /\ pc \in {"loop", "verify"} /\ pc' = pc /\ pc \in Transfer /\ ~Begins
  BY DEF ReadsChunk, Transfer, Begins
<1>2. /\ reader'.pos = reader.pos /\ reader'.count = reader.count
      /\ reader' \in Readers(size)
  BY ReaderRead DEF FInv, Buffers, Readers
<1>3. /\ code' = code /\ size' = size /\ avail' = avail /\ faults' = faults
      /\ UNCHANGED <<chunk, expected, left, right, flight, lost, verified, m>>
  BY DEF ReadsChunk, config, reversalVars
<1>4. Rounded' /\ EndKnown'
  BY <1>1, ReadingKept DEF Transfer
<1>5. Buffers' /\ Figures'
  BY <1>2, <1>3 DEF FInv, Buffers, Figures
<1>6. InHand'
  BY <1>1, <1>2, <1>3 DEF FInv, InHand, InFlight, End, Front, RP!LoopInv, R!Done, HasChunk
<1>7. Progress'
  BY <1>1, <1>2, <1>3
  DEF FInv, Progress, Pipelined, OneByOne, Front, Pending, HasChunk, Begins
<1>8. QED
  BY <1>1, <1>4, <1>5, <1>6, <1>7, SavedLater DEF FInv

-----------------------------------------------------------------------------
(* The chunks in flight, one by one.                                          *)
LEMMA FrontType ==
  ASSUME FInv, IInv
  PROVE  Front \in Nat /\ Front <= size /\ size \in Nat
<1>1. /\ reader.pos \in 0..size /\ size \in Nat /\ flight \in Seq(Seq(1..size))
  BY DEF FInv, Buffers, Readers, IInv, Types
<1>2. CASE flight = << >>
  BY <1>1, <1>2 DEF Front
<1>3. CASE flight # << >>
  <2>1. Len(flight) \in Nat /\ 1 \in 1..Len(flight)
    BY <1>1, <1>3, EmptySeq
  <2>2. Head(flight) = flight[1] /\ flight[1] \in Seq(1..size)
    BY <1>1, <1>3, <2>1
  <2>3. Len(flight[1]) \in 1..ChunkSize /\ ChunkSize \in Nat
    BY <2>1, ChunkSizeAssumption DEF FInv, InHand
  <2>4. flight[1][1] \in 1..size
    <3>1. 1 \in 1..Len(flight[1])
      BY <2>3
    <3>2. QED
      BY <2>2, <3>1, ElementOfSeq
  <2>5. QED
    BY <1>1, <1>3, <2>2, <2>4 DEF Front
<1>4. QED
  BY <1>2, <1>3

LEMMA FlightChunk ==
  ASSUME FInv, IInv, NEW k \in 1..Len(flight)
  PROVE  /\ flight[k] \in Seq(1..size) /\ flight[k] \in Seq(Nat)
         /\ Len(flight[k]) \in 1..ChunkSize /\ Len(flight[k]) \in Nat
         /\ End(Front, k - 1) \in Nat
         /\ End(Front, k) = End(Front, k - 1) + Len(flight[k])
         /\ flight[k] = Piece(End(Front, k - 1), Len(flight[k]))
         /\ flight[k][1] = End(Front, k - 1) + 1
<1>1. flight \in Seq(Seq(1..size)) /\ Len(flight) \in Nat /\ k \in Nat /\ ChunkSize \in Nat
  BY ChunkSizeAssumption DEF FInv, Buffers
<1>2. \A x \in 1..Len(flight) :
        /\ flight[x] \in Seq(1..size) /\ Len(flight[x]) \in 1..ChunkSize
        /\ flight[x][Len(flight[x])] \in Nat
  <2> TAKE x \in 1..Len(flight)
  <2>1. flight[x] \in Seq(1..size)
    BY <1>1, ElementOfSeq
  <2>2. Len(flight[x]) \in 1..ChunkSize
    BY DEF FInv, InHand
  <2>3. Len(flight[x]) \in 1..Len(flight[x])
    BY <2>2
  <2>4. flight[x][Len(flight[x])] \in 1..size
    BY <2>1, <2>3, ElementOfSeq
  <2>5. QED
    BY <2>1, <2>2, <2>4
<1>3. /\ End(Front, k) = flight[k][Len(flight[k])]
      /\ End(Front, k - 1) = IF k = 1 THEN Front ELSE flight[k - 1][Len(flight[k - 1])]
  BY <1>1 DEF End
<1> DEFINE from == End(Front, k - 1)
           to == End(Front, k)
           n == Len(flight[k])
<1>4. from \in Nat /\ to \in Nat
  <2>1. CASE k = 1
    BY <1>2, <1>3, <2>1, FrontType
  <2>2. CASE k # 1
    <3>1. k - 1 \in 1..Len(flight)
      BY <1>1, <2>2
    <3>2. QED
      BY <1>2, <1>3, <2>2, <3>1
  <2>3. QED
    BY <2>1, <2>2
<1>5. flight[k] = Piece(from, to - from)
  BY DEF FInv, InHand, InFlight
<1>6. n \in 1..ChunkSize
  BY <1>2
<1> HIDE DEF from, to
<1>7. to - from = n
  <2>1. CASE to >= from
    <3>1. to - from \in Nat
      BY <1>4, <2>1
    <3>2. Len(Piece(from, to - from)) = to - from
      BY <1>4, <3>1, PieceProperties
    <3>3. QED
      BY <1>5, <3>2
  <2>2. CASE to < from
    <3>1. \A x : x \notin 1..(to - from)
      BY <1>4, <2>2
    <3>2. Piece(from, to - from) = << >>
      BY <3>1 DEF Piece
    <3>3. QED
      BY <1>5, <1>6, <3>2
  <2>3. QED
    BY <1>4, <2>1, <2>2
<1>8. to = from + n
  BY <1>4, <1>6, <1>7
<1>9. flight[k][1] = from + 1
  <2>1. n \in Nat /\ 1 \in 1..n
    BY <1>1, <1>6
  <2>2. Piece(from, n)[1] = from + 1
    BY <1>4, <2>1, PieceProperties
  <2>3. QED
    BY <1>5, <1>7, <2>2
<1>10. flight[k] \in Seq(Nat) /\ n \in Nat
  <2>1. n \in Nat
    BY <1>1, <1>6
  <2>2. QED
    BY <1>4, <1>5, <1>7, <2>1, PieceProperties
<1> HIDE DEF n
<1>11. QED
  BY <1>2, <1>4, <1>5, <1>7, <1>8, <1>9, <1>10 DEF from, to, n

(* The writer of the gRPC client sends what it has read at once.              *)
LEMMA Lengthened ==
  ASSUME FInv, IInv, NEW n \in Nat, n > 0, n <= ChunkSize,
         flight' = Append(flight, Piece(reader.pos, n)), reader'.pos = reader.pos + n
  PROVE  /\ Front' = Front /\ InFlight(Front, reader.pos)'
         /\ \A k \in 1..Len(flight') : Len(flight'[k]) \in 1..ChunkSize
<1> DEFINE data == Piece(reader.pos, n)
           last == Len(flight) + 1
           Later(k) == IF k = 0 THEN Front' ELSE flight'[k][Len(flight'[k])]
<1>1. /\ reader.pos \in Nat /\ Len(data) = n /\ data[n] = reader.pos + n
      /\ data[1] = reader.pos + 1 /\ ChunkSize \in Nat
  <2>1. reader.pos \in Nat /\ ChunkSize \in Nat
    BY ChunkSizeAssumption DEF FInv, Buffers, Readers
  <2>2. n \in 1..n /\ 1 \in 1..n
    OBVIOUS
  <2>3. QED
    BY <2>1, <2>2, PieceProperties
<1>2. flight \in Seq(Seq(1..size)) /\ Len(flight) \in Nat
  BY DEF FInv, Buffers
<1>3. /\ Len(flight') = last /\ last \in Nat /\ last # 0 /\ last - 1 = Len(flight)
      /\ flight'[last] = data
      /\ \A k \in 1..Len(flight) : flight'[k] = flight[k]
      /\ flight' # << >> /\ Head(flight') = flight'[1]
  BY <1>2, AppendProperties
<1>4. Front' = Front /\ Front \in Nat
  <2>1. CASE flight = << >>
    <3>1. last = 1 /\ Front = reader.pos
      BY <2>1 DEF Front
    <3>2. Head(flight') = data
      BY <1>3, <3>1
    <3>3. QED
      BY <1>1, <1>3, <3>1, <3>2 DEF Front
  <2>2. CASE flight # << >>
    <3>1. 1 \in 1..Len(flight) /\ Head(flight) = flight[1]
      BY <1>2, <2>2, EmptySeq
    <3>2. Head(flight') = Head(flight)
      BY <1>3, <3>1
    <3>3. QED
      BY <1>3, <2>2, <3>2, FrontType DEF Front
  <2>3. QED
    BY <2>1, <2>2
<1>5. \A k \in 0..Len(flight) : Later(k) = End(Front, k)
  <2> TAKE k \in 0..Len(flight)
  <2>1. CASE k = 0
    BY <1>4, <2>1 DEF End
  <2>2. CASE k # 0
    <3>1. k \in 1..Len(flight)
      BY <1>2, <2>2
    <3>2. QED
      BY <1>3, <2>2, <3>1 DEF End
  <2>3. QED
    BY <2>1, <2>2
<1>6. Later(last) = reader.pos + n /\ End(Front, Len(flight)) = reader.pos
  <2>1. Later(last) = reader.pos + n
    BY <1>1, <1>3
  <2>2. QED
    BY <2>1 DEF FInv, InHand, InFlight
<1> HIDE DEF Later
<1>7. ASSUME NEW k \in 1..last
      PROVE  /\ flight'[k] = Piece(Later(k - 1), Later(k) - Later(k - 1))
             /\ Len(flight'[k]) \in 1..ChunkSize
  <2>1. CASE k = last
    <3>1. Later(k - 1) = reader.pos
      BY <1>2, <1>3, <1>5, <1>6, <2>1
    <3>2. Later(k) - Later(k - 1) = n
      BY <1>1, <1>6, <2>1, <3>1
    <3>3. flight'[k] = data /\ Len(data) \in 1..ChunkSize
      BY <1>1, <1>3, <2>1
    <3>4. QED
      BY <3>1, <3>2, <3>3
  <2>2. CASE k # last
    <3>1. k \in 1..Len(flight) /\ k - 1 \in 0..Len(flight) /\ k \in 0..Len(flight)
      BY <1>2, <2>2
    <3>2. /\ flight[k] = Piece(End(Front, k - 1), End(Front, k) - End(Front, k - 1))
          /\ Len(flight[k]) \in 1..ChunkSize
      BY <3>1 DEF FInv, InHand, InFlight
    <3>3. flight'[k] = flight[k]
      BY <1>3, <3>1
    <3>4. Later(k - 1) = End(Front, k - 1) /\ Later(k) = End(Front, k)
      BY <1>5, <3>1
    <3>5. QED
      BY <3>2, <3>3, <3>4
  <2>3. QED
    BY <2>1, <2>2
<1>8. InFlight(Front, reader.pos)'
  <2>1. Later(Len(flight')) = reader'.pos
    BY <1>3, <1>6
  <2>2. \A k \in 1..Len(flight') :
          flight'[k] = Piece(Later(k - 1), Later(k) - Later(k - 1))
    BY <1>3, <1>7
  <2>3. QED
    BY <2>1, <2>2 DEF InFlight, End, Later
<1>9. QED
  BY <1>3, <1>4, <1>7, <1>8

LEMMA ReadsPipelined ==
  ASSUME FInv, IInv, IInv', ReadsChunk, code = "grpc",
         NEW n \in Reads(code, reader, avail), n > 0,
         reader' = After(code, reader, n),
         flight' = Append(flight, Piece(reader.pos, n)),
         UNCHANGED <<pc, reversalVars, lost, m>>
  PROVE  FInv'
<1> DEFINE data == Piece(reader.pos, n)
<1>1. /\ pc \in {"loop", "verify"} /\ pc' = pc /\ pc \in Transfer
      /\ HasRoom /\ pc # "wait"
  BY DEF ReadsChunk, Transfer
<1>2. /\ n \in Nat /\ n <= ChunkSize /\ reader.pos + n <= size /\ reader.pos \in Nat
      /\ reader.count \in Nat /\ size \in Nat
      /\ reader'.pos = reader.pos + n /\ reader'.count = reader.count + 1
      /\ reader' \in Readers(size)
  <2>1. n \in Nat /\ n <= ChunkSize /\ reader.pos + n <= size
    BY Found
  <2>2. /\ reader'.pos = reader.pos + n /\ reader' \in Readers(size)
        /\ reader'.count = IF n > 0 THEN reader.count + 1 ELSE reader.count
    BY ReaderRead
  <2>3. reader.pos \in Nat /\ reader.count \in Nat /\ size \in Nat
    BY DEF FInv, Buffers, Readers, IInv, Types
  <2>4. QED
    BY <2>1, <2>2, <2>3
<1>3. /\ code' = code /\ size' = size /\ avail' = avail /\ faults' = faults
      /\ UNCHANGED <<chunk, expected, left, right, lost, verified, m>>
  BY DEF ReadsChunk, config, reversalVars
<1>4. Rounded' /\ EndKnown'
  BY <1>1, ReadingKept DEF Transfer
<1>5. data \in Seq(1..size)
  BY <1>2, PieceProperties
<1>6. /\ flight \in Seq(Seq(1..size)) /\ Len(flight) \in Nat /\ lost \in Nat
      /\ MaxInflight \in Nat
  BY RunsAssumption DEF FInv, Buffers
<1>7. flight' \in Seq(Seq(1..size)) /\ Len(flight') = Len(flight) + 1
  <2> HIDE DEF data
  <2>1. QED
    BY <1>5, <1>6, AppendProperties DEF data
<1>8. Len(flight') + lost <= MaxInflight
  BY <1>1, <1>6, <1>7 DEF HasRoom
<1>9. Buffers' /\ Figures'
  BY <1>2, <1>3, <1>7, <1>8 DEF FInv, Buffers, Figures
<1>10. /\ Front' = Front /\ InFlight(Front, reader.pos)'
       /\ \A k \in 1..Len(flight') : Len(flight'[k]) \in 1..ChunkSize
  BY <1>2, Lengthened
<1>11. InHand'
  BY <1>1, <1>3, <1>10 DEF FInv, InHand, RP!LoopInv, R!Done, HasChunk
<1>12. Pipelined
  BY <1>1 DEF FInv, Progress
<1>13. m.rtts \in Nat /\ Pending' = Pending
  BY <1>1, <1>3 DEF IInv, Types, Counters, Pending
<1>14. m.rtts + Len(flight') + lost <= reader'.count
  <2>1. m.rtts + Len(flight) + lost <= reader.count
    BY <1>12 DEF Pipelined
  <2>2. QED
    BY <1>2, <1>6, <1>7, <1>13, <2>1
<1>15. ASSUME m.errors = 0 PROVE m.rtts + Len(flight') = reader'.count
  <2>1. m.rtts + Len(flight) = reader.count
    BY <1>12, <1>15 DEF Pipelined
  <2>2. reader'.count = reader.count + 1 /\ Len(flight') = Len(flight) + 1
    BY <1>2, <1>7
  <2>3. Len(flight) \in Nat /\ m.rtts \in Nat
    BY <1>6, <1>13
  <2>4. QED
    BY ONLY <2>1, <2>2, <2>3
<1>16. Pipelined'
  BY <1>3, <1>10, <1>12, <1>13, <1>14, <1>15 DEF Pipelined
<1>17. QED
  BY <1>1, <1>3, <1>4, <1>9, <1>11, <1>16, SavedLater DEF FInv, Progress

LEMMA ReadsFigures ==
  ASSUME FInv, IInv, IInv', ReadsChunk
  PROVE  FInv'
<1>1. PICK n \in Reads(code, reader, avail) :
        LET data == Piece(reader.pos, n) IN
          /\ reader' = After(code, reader, n)
          /\ \/ /\ n = 0 /\ Eof(code, reader')
                /\ UNCHANGED <<pc, reversalVars, flight, m>>
             \/ /\ n > 0 /\ code = "grpc"
                /\ flight' = Append(flight, data)
                /\ UNCHANGED <<pc, reversalVars, m>>
             \/ /\ n > 0 /\ code # "grpc"
                /\ pc' = "reverse" /\ R!Copy(data)
                /\ m' = IF code = "capnp" THEN RecordChunkSent(m, n, n) ELSE m
                /\ UNCHANGED flight
  BY DEF ReadsChunk
<1>2. lost' = lost
  BY DEF ReadsChunk
<1>3. CASE n = 0 /\ UNCHANGED <<pc, reversalVars, flight, m>>
  BY <1>1, <1>2, <1>3, ReadsNothing
<1>4. CASE /\ n > 0 /\ code = "grpc" /\ flight' = Append(flight, Piece(reader.pos, n))
           /\ UNCHANGED <<pc, reversalVars, m>>
  BY <1>1, <1>2, <1>4, ReadsPipelined
<1>5. CASE /\ n > 0 /\ code # "grpc" /\ pc' = "reverse" /\ R!Copy(Piece(reader.pos, n))
           /\ m' = IF code = "capnp" THEN RecordChunkSent(m, n, n) ELSE m
           /\ UNCHANGED flight
  BY <1>1, <1>2, <1>5, ReadsAlone
<1>6. QED
  BY <1>1, <1>3, <1>4, <1>5

-----------------------------------------------------------------------------
(* The reader of the gRPC client takes a chunk out of the map.                *)
LEMMA Shortened ==
  ASSUME FInv, IInv, flight # << >>, flight' = Tail(flight), reader' = reader
  PROVE  /\ Front' = Front + Len(Head(flight)) /\ InFlight(Front, reader.pos)'
         /\ \A k \in 1..Len(flight') : Len(flight'[k]) \in 1..ChunkSize
<1> DEFINE n == Len(Head(flight))
           Later(k) == IF k = 0 THEN Front' ELSE flight'[k][Len(flight'[k])]
<1>1. /\ flight \in Seq(Seq(1..size)) /\ Len(flight) \in Nat /\ 1 \in 1..Len(flight)
      /\ Head(flight) = flight[1] /\ reader.pos \in Nat
  BY EmptySeq DEF FInv, Buffers, Readers
<1>2. /\ Len(flight') = Len(flight) - 1
      /\ \A k \in 1..(Len(flight) - 1) : flight'[k] = flight[k + 1]
  BY <1>1
<1>3. End(Front, 0) = Front /\ 1 - 1 = 0 /\ Front \in Nat
  BY FrontType DEF End
<1>4. End(Front, 1) = Front + n /\ n \in Nat
  BY <1>1, <1>3, FlightChunk
<1>5. End(Front, Len(flight)) = reader.pos
  BY DEF FInv, InHand, InFlight
<1>6. Front' = End(Front, 1)
  <2>1. CASE Len(flight) = 1
    <3>1. Len(flight') = 0 /\ flight' \in Seq(Seq(1..size))
      <4>1. Len(flight') = 0
        BY <1>2, <2>1
      <4>2. flight' \in Seq(Seq(1..size))
        BY <1>1, HeadTailProperties
      <4>3. QED
        BY <4>1, <4>2
    <3>2. flight' = << >>
      BY <3>1, EmptySeq
    <3>3. QED
      BY <1>5, <2>1, <3>2 DEF Front
  <2>2. CASE Len(flight) # 1
    <3>1. 2 \in 1..Len(flight) /\ 1 \in 1..(Len(flight) - 1) /\ 1 + 1 = 2 /\ 2 - 1 = 1
      <4>1. Len(flight) \in Nat /\ Len(flight) >= 1
        BY <1>1
      <4>2. QED
        BY <2>2, <4>1, AtLeastTwo, Zenon
    <3>2. flight[2][1] = End(Front, 1) + 1
      BY <3>1, FlightChunk
    <3>3. flight' # << >> /\ Head(flight') = flight'[1] /\ flight'[1] = flight[2]
      <4>1. flight'[1] = flight[2]
        BY <1>2, <3>1
      <4>2. 1 \in 1..Len(flight') /\ 1 \notin 1..0 /\ Len(<< >>) = 0
        BY <1>2, <3>1
      <4>3. flight' # << >>
        BY <4>2, Zenon
      <4>4. QED
        BY <4>1, <4>3
    <3>4. Front' = flight[2][1] - 1
      BY <3>3 DEF Front
    <3>5. End(Front, 1) \in Nat
      BY <1>3, <1>4
    <3>6. QED
      BY ONLY <3>2, <3>4, <3>5
  <2>3. QED
    BY <2>1, <2>2
<1>7. ASSUME NEW k \in 0..(Len(flight) - 1)
      PROVE  Later(k) = End(Front, k + 1)
  <2>1. CASE k = 0
    BY <1>6, <2>1
  <2>2. CASE k # 0
    <3>1. k \in 1..(Len(flight) - 1) /\ k + 1 # 0
      BY <1>1, <2>2
    <3>2. QED
      BY <1>2, <2>2, <3>1 DEF End
  <2>3. QED
    BY <2>1, <2>2
<1> HIDE DEF Later
<1>8. ASSUME NEW k \in 1..Len(flight')
      PROVE  /\ flight'[k] = Piece(Later(k - 1), Later(k) - Later(k - 1))
             /\ Len(flight'[k]) \in 1..ChunkSize
  <2>1. /\ k \in 1..(Len(flight) - 1) /\ k + 1 \in 1..Len(flight)
        /\ k - 1 \in 0..(Len(flight) - 1) /\ k \in 0..(Len(flight) - 1)
        /\ k - 1 + 1 = k /\ k + 1 - 1 = k
    BY <1>1, <1>2
  <2>2. /\ flight[k + 1] = Piece(End(Front, k), End(Front, k + 1) - End(Front, k))
        /\ Len(flight[k + 1]) \in 1..ChunkSize
    BY <2>1 DEF FInv, InHand, InFlight
  <2>3. Later(k - 1) = End(Front, k) /\ Later(k) = End(Front, k + 1)
    BY <1>7, <2>1
  <2>4. QED
    BY <1>2, <2>1, <2>2, <2>3
<1>9. InFlight(Front, reader.pos)'
  <2>1. Later(Len(flight')) = reader'.pos
    <3>1. Len(flight) - 1 \in 0..(Len(flight) - 1) /\ Len(flight) - 1 + 1 = Len(flight)
      BY <1>1
    <3>2. QED
      BY <1>2, <1>5, <1>7, <3>1
  <2>2. QED
    BY <1>8, <2>1 DEF InFlight, End, Later
<1>10. QED
  BY <1>4, <1>6, <1>8, <1>9

LEMMA MatchesFigures ==
  ASSUME FInv, IInv, IInv', Matches
  PROVE  FInv'
<1> DEFINE n == Len(Head(flight))
<1>1. /\ pc = "loop" /\ pc' = "verify" /\ pc \in Transfer /\ pc' \in Transfer
      /\ HasChunk' /\ ~Begins /\ ~Begins' /\ ~Unopened /\ ~Unopened'
      /\ Pending = << >> /\ Pending' = chunk' /\ flight # << >>
  BY DEF Matches, Transfer, HasChunk, Begins, Unopened, Pending
<1>2. /\ code' = code /\ size' = size /\ avail' = avail /\ reader' = reader
      /\ lost' = lost /\ verified' = verified /\ faults' = faults
      /\ flight' = Tail(flight) /\ R!Copy(Head(flight))
      /\ chunk' = Head(flight) /\ expected' = Head(flight)
  BY DEF Matches, config, R!Copy
<1>3. code = "grpc"
  BY <1>1 DEF FInv, InHand
<1>4. flight \in Seq(Seq(1..size)) /\ Len(flight) \in Nat /\ Len(flight) > 0
  BY <1>1, EmptySeq DEF FInv, Buffers
<1>5. /\ Head(flight) \in Seq(1..size) /\ Head(flight) \in Seq(Nat)
      /\ n \in 1..ChunkSize /\ n \in Nat /\ n > 0
      /\ Head(flight) = Piece(Front, n)
  <2>1. 1 \in 1..Len(flight) /\ Head(flight) = flight[1] /\ 1 - 1 = 0
    BY <1>1, <1>4
  <2>2. End(Front, 0) = Front
    BY DEF End
  <2>3. QED
    BY <2>1, <2>2, FlightChunk
<1>6. /\ Front' = Front + n /\ InFlight(Front, reader.pos)'
      /\ \A k \in 1..Len(flight') : Len(flight'[k]) \in 1..ChunkSize
  BY <1>1, <1>2, Shortened
<1>7. /\ flight' \in Seq(Seq(1..size)) /\ Len(flight') = Len(flight) - 1
  BY <1>2, <1>4
<1>8. ChunkSize \in Nat /\ MaxInflight \in Nat /\ lost \in Nat
  BY ChunkSizeAssumption, RunsAssumption DEF FInv, Buffers
<1>9. Buffers'
  <2>1. Len(chunk') <= ChunkSize
    BY <1>2, <1>5, <1>8
  <2>2. Len(flight') + lost' <= MaxInflight
    <3>1. Len(flight) + lost <= MaxInflight
      BY DEF FInv, Buffers
    <3>2. QED
      BY <1>2, <1>4, <1>7, <1>8, <3>1
  <2>3. QED
    BY <1>2, <1>5, <1>7, <2>1, <2>2 DEF FInv, Buffers
<1>10. Rounded'
  BY <1>2 DEF FInv, Rounded
<1>11. EndKnown'
  BY <1>1, <1>2 DEF FInv, EndKnown, FlagKnown
<1>12. InHand'
  <2>1. RP!LoopInv'
    BY <1>2, <1>5, LoopCopied
  <2>2. chunk' # << >> /\ chunk' = Piece(Front' - Len(chunk'), Len(chunk'))
    <3>1. Front' - n = Front
      BY <1>5, <1>6, FrontType
    <3>2. Head(flight) # << >>
      BY <1>5
    <3>3. QED
      BY <1>2, <1>5, <3>1, <3>2
  <2>3. QED
    BY <1>1, <1>2, <1>3, <1>6, <2>1, <2>2 DEF InHand
<1>13. Pipelined
  BY <1>1, <1>3 DEF FInv, Progress
<1> HIDE DEF n
<1>14. /\ m.rtts \in Nat /\ m.bytes \in Nat /\ m.wire \in Nat /\ Front' \in Nat
       /\ Front' <= size /\ m \in Counters
  <2>1. Front' <= size
    <3>1. CASE flight' = << >>
      <4>1. reader'.pos \in 0..size /\ size \in Nat
        BY <1>2 DEF FInv, Buffers, Readers, IInv, Types
      <4>2. QED
        BY <3>1, <4>1 DEF Front
    <3>2. CASE flight' # << >>
      <4>1. 1 \in 1..Len(flight') /\ Head(flight') = flight'[1]
        BY <1>4, <1>7, <3>2
      <4>2. flight'[1] \in Seq(1..size) /\ Len(flight'[1]) \in 1..ChunkSize
        BY <1>6, <1>7, <4>1, ElementOfSeq
      <4>3. 1 \in 1..Len(flight'[1])
        BY <1>8, <4>2
      <4>4. flight'[1][1] \in 1..size /\ size \in Nat
        BY <4>2, <4>3, ElementOfSeq DEF IInv, Types
      <4>5. QED
        BY <3>2, <4>1, <4>4 DEF Front
    <3>3. QED
      BY <3>1, <3>2
  <2>2. QED
    <3>1. Front' \in Nat
      <4>1. Front \in Nat /\ n \in Nat /\ Front' = Front + n
        BY <1>5, <1>6, FrontType
      <4>2. QED
        BY ONLY <4>1
    <3>2. m \in Counters
      BY DEF IInv, Types
    <3>3. m.rtts \in Nat /\ m.bytes \in Nat /\ m.wire \in Nat
      BY <3>2 DEF Counters
    <3>4. QED
      BY <2>1, <3>1, <3>2, <3>3
<1>15. /\ m.rtts + Len(flight) + lost <= reader.count /\ m.bytes <= Front
       /\ m.rtts <= m.bytes /\ m.bytes <= ChunkSize * m.rtts
       /\ m.wire = m.bytes + Header * m.rtts
  BY <1>13 DEF Pipelined
<1>16. /\ m.bytes + n + Header * (m.rtts + 1) < Modulus
       /\ m.bytes + n < Modulus
  <2>1. reader.pos \in Nat /\ reader.count \in Nat /\ size \in Nat /\ reader.pos <= size
        /\ size \in Sizes
    BY DEF FInv, Buffers, Readers, IInv, Types
  <2>2. reader.count = TotalChunks(reader.pos)
    BY <1>3, <2>1, CeilingUnique DEF FInv, Rounded
  <2>3. reader.count <= TotalChunks(size) /\ TotalChunks(size) \in Nat
    BY <2>1, <2>2, CeilingMonotonic, Covered
  <2>4. m.rtts + 1 \in Nat /\ m.rtts + 1 <= TotalChunks(size)
    <3>1. /\ Len(flight) \in Nat /\ Len(flight) > 0 /\ lost \in Nat /\ m.rtts \in Nat
          /\ m.rtts + Len(flight) + lost <= reader.count
      BY <1>4, <1>8, <1>14, <1>15
    <3> DEFINE total == TotalChunks(size)
    <3>2. reader.count \in Nat /\ reader.count <= total /\ total \in Nat
      BY <2>1, <2>3
    <3> HIDE DEF total
    <3>3. m.rtts + 1 \in Nat /\ m.rtts + 1 <= total
      BY ONLY <3>1, <3>2
    <3>4. QED
      BY <3>3 DEF total
  <2>5. m.bytes + n \in Nat /\ m.bytes + n <= size
    <3>1. /\ m.bytes \in Nat /\ n \in Nat /\ m.bytes <= Front /\ Front \in Nat
          /\ Front' = Front + n /\ Front' <= size /\ size \in Nat
      BY <1>5, <1>6, <1>14, <1>15, <2>1, FrontType
    <3>2. QED
      BY ONLY <3>1
  <2>6. QED
    BY <2>1, <2>4, <2>5, Fits
<1>17. /\ m'.bytes = m.bytes + n /\ m'.wire = m.wire + n + Header
       /\ m'.rtts = m.rtts + 1 /\ m'.errors = m.errors /\ m'.fail = m.fail
       /\ m'.timer = m.timer
  <2>1. Header * (m.rtts + 1) = Header * m.rtts + Header /\ Header * m.rtts \in Nat
        /\ Header \in Nat
    BY <1>14, OneMore
  <2> DEFINE h == Header * m.rtts
             h1 == Header * (m.rtts + 1)
  <2>2. m.wire + (n + Header) < Modulus /\ m.wire + (n + Header) \in Nat
    <3>1. h1 = h + Header /\ h \in Nat /\ m.wire = m.bytes + h /\ m.bytes + n + h1 < Modulus
      BY <1>15, <1>16, <2>1
    <3> HIDE DEF h, h1
    <3>2. n \in Nat /\ m.bytes \in Nat /\ Header \in Nat /\ Modulus \in Nat
      BY <1>5, <1>14, <2>1, MetricsAssumption
    <3>3. QED
      BY ONLY <3>1, <3>2
  <2>3. (m.bytes + n) % Modulus = m.bytes + n /\ m.bytes + n \in Nat
    BY <1>5, <1>14, <1>16, Remains
  <2>4. (m.wire + (n + Header)) % Modulus = m.wire + (n + Header)
    BY <2>2, Remains
  <2>5. m' = RecordChunkSent(RecordChunkRtt(m), n, n + Header)
    BY DEF Matches, n
  <2>6. m' = [m EXCEPT !.rtts = m.rtts + 1, !.bytes = m.bytes + n,
                       !.wire = m.wire + (n + Header)]
    BY <1>14, <2>3, <2>4, <2>5 DEF RecordChunkSent, RecordChunkRtt, Counters
  <2>7. m.wire + (n + Header) = m.wire + n + Header
    BY <1>5, <1>14, <2>1
  <2>8. QED
    BY <1>14, <2>6, <2>7 DEF Counters
<1>18. Figures'
  <2>1. m'.wire = m.bytes + n + Header * (m.rtts + 1)
    <3>1. Header * (m.rtts + 1) = Header * m.rtts + Header /\ Header * m.rtts \in Nat
          /\ Header \in Nat
      BY <1>14, OneMore
    <3>2. m.bytes \in Nat /\ n \in Nat
      BY <1>5, <1>14
    <3>3. m.wire = m.bytes + Header * m.rtts /\ m'.wire = m.wire + n + Header
      BY <1>15, <1>17
    <3>4. QED
      BY ONLY <3>1, <3>2, <3>3
  <2>2. QED
    BY <1>2, <1>16, <1>17, <2>1 DEF FInv, Figures
<1>19. Pipelined'
  <2>1. /\ ChunkSize * (m.rtts + 1) = ChunkSize * m.rtts + ChunkSize
        /\ Header * (m.rtts + 1) = Header * m.rtts + Header
        /\ Header * m.rtts \in Nat /\ ChunkSize * m.rtts \in Nat /\ Header \in Nat
    BY <1>14, OneMore
  <2>10. /\ m.rtts \in Nat /\ m.bytes \in Nat /\ n \in Nat /\ n > 0 /\ n <= ChunkSize
         /\ Front \in Nat /\ ChunkSize \in Nat
    BY <1>5, <1>8, <1>14, FrontType
  <2>11. /\ m'.bytes = m.bytes + n /\ m'.rtts = m.rtts + 1 /\ Front' = Front + n
         /\ m.rtts <= m.bytes /\ m.bytes <= Front /\ m.bytes <= ChunkSize * m.rtts
    BY <1>6, <1>15, <1>17
  <2>2. m'.rtts <= m'.bytes /\ m'.bytes <= Front' /\ m'.bytes <= ChunkSize * m'.rtts
    <3>1. ChunkSize * m'.rtts = ChunkSize * m.rtts + ChunkSize /\ ChunkSize * m.rtts \in Nat
      BY <2>1, <2>11
    <3>2. QED
      BY ONLY <2>10, <2>11, <3>1
  <2>3. m'.rtts + Len(flight') + lost' <= reader'.count
    BY <1>2, <1>4, <1>7, <1>8, <1>14, <1>15, <1>17
  <2>4. m'.wire = m'.bytes + Header * m'.rtts
    <3>1. Header * m'.rtts = Header * m.rtts + Header /\ Header * m.rtts \in Nat
          /\ Header \in Nat
      BY <2>1, <2>11
    <3>2. m'.wire = m.wire + n + Header /\ m.wire = m.bytes + Header * m.rtts
      BY <1>15, <1>17
    <3>3. QED
      BY ONLY <2>10, <2>11, <3>1, <3>2
  <2>5. Len(verified) \in Nat /\ Len(<< >>) = 0 /\ Len(chunk') = n
    BY <1>2 DEF FInv, Figures, n
  <2>6. /\ Len(verified) + Len(<< >>) <= m.bytes
        /\ "wrong answer" \notin faults => Len(verified) + Len(<< >>) = m.bytes
    BY <1>1, <1>13 DEF Pipelined
  <2>7. /\ Len(verified') + Len(Pending') <= m'.bytes
        /\ "wrong answer" \notin faults' => Len(verified') + Len(Pending') = m'.bytes
    <3>1. Len(Pending') = n /\ Len(verified') = Len(verified) /\ faults' = faults
      BY <1>1, <1>2, <2>5
    <3>2. /\ Len(verified) + 0 <= m.bytes => Len(verified) + n <= m.bytes + n
          /\ Len(verified) + 0 = m.bytes => Len(verified) + n = m.bytes + n
      BY <2>5, <2>10, BothGrow, Zenon
    <3>3. QED
      BY <2>5, <2>6, <2>11, <3>1, <3>2, Zenon
  <2>8. ASSUME m.errors = 0
        PROVE  /\ m'.bytes = Front' /\ lost' = 0 /\ "wrong answer" \notin faults'
               /\ verified' = Piece(0, Len(verified'))
               /\ m'.rtts + Len(flight') = reader'.count
    <3>1. /\ m.bytes = Front /\ lost = 0 /\ "wrong answer" \notin faults
          /\ verified = Piece(0, Len(verified)) /\ m.rtts + Len(flight) = reader.count
      BY <1>13, <2>8 DEF Pipelined
    <3>2. m'.rtts + Len(flight') = reader'.count
      <4>1. reader'.count = reader.count /\ Len(flight') = Len(flight) - 1 /\ Len(flight) \in Nat
        BY <1>2, <1>4, <1>7
      <4>2. m.rtts + Len(flight) = reader.count
        BY <3>1
      <4>3. QED
        BY ONLY <2>10, <2>11, <4>1, <4>2
    <3>3. QED
      BY <1>2, <1>6, <1>17, <3>1, <3>2
  <2>9. QED
    BY <1>2, <1>13, <1>17, <2>2, <2>3, <2>4, <2>7, <2>8 DEF Pipelined
<1>20. QED
  BY <1>1, <1>2, <1>3, <1>9, <1>10, <1>11, <1>12, <1>18, <1>19, SavedLater
  DEF FInv, Progress
-----------------------------------------------------------------------------
(* The response to the last request comes before its entry.                   *)
LEMMA LoggedError ==
  ASSUME m \in Counters, m' = LogError(m)
  PROVE  /\ m'.bytes = m.bytes /\ m'.wire = m.wire /\ m'.rtts = m.rtts /\ m'.ok = m.ok
         /\ m'.fail = m.fail /\ m'.timer = m.timer /\ m'.errors > 0 /\ m'.errors # 0
<1>1. /\ m'.bytes = m.bytes /\ m'.wire = m.wire /\ m'.rtts = m.rtts /\ m'.ok = m.ok
      /\ m'.fail = m.fail /\ m'.timer = m.timer /\ m'.errors = m.errors + 1
      /\ m.errors \in Nat
  BY DEF LogError, Counters
<1>2. m'.errors > 0 /\ m'.errors # 0
  BY <1>1
<1>3. QED
  BY <1>1, <1>2

LEMMA OrphanedFigures ==
  ASSUME FInv, IInv, IInv', Orphaned
  PROVE  FInv'
<1>1. /\ pc = "loop" /\ pc' = pc /\ pc \in Transfer /\ ~HasChunk /\ ~HasChunk'
      /\ ~Begins' /\ Pending' = Pending /\ code = "grpc" /\ Len(flight) = 1
  BY DEF Orphaned, Transfer, HasChunk, Begins, Pending
<1>2. /\ code' = code /\ size' = size /\ avail' = avail /\ reader' = reader
      /\ UNCHANGED <<chunk, expected, left, right, verified>>
      /\ flight' = << >> /\ lost' = lost + 1 /\ faults' = faults \cup {"orphan"}
      /\ m' = LogError(m)
  BY DEF Orphaned, Hit, config, reversalVars
<1>3. /\ Len(<< >>) = 0 /\ << >> \in Seq(Seq(1..size))
  OBVIOUS
<1>4. lost \in Nat /\ MaxInflight \in Nat /\ Len(flight) + lost <= MaxInflight
  BY RunsAssumption DEF FInv, Buffers
<1>5. Buffers'
  <2>1. lost + 1 \in Nat /\ 0 + (lost + 1) <= MaxInflight
    BY <1>1, <1>4
  <2>2. QED
    BY <1>2, <1>3, <2>1 DEF FInv, Buffers
<1>6. Rounded' /\ EndKnown'
  BY <1>1, <1>2 DEF FInv, Rounded, EndKnown, FlagKnown, Unopened, Begins
<1>7. Front' = reader.pos
  BY <1>2 DEF Front
<1>8. InHand'
  <2>1. InFlight(Front, reader.pos)'
    BY <1>2, <1>3, <1>7 DEF InFlight, End
  <2>2. RP!LoopInv'
    BY <1>2 DEF FInv, InHand, RP!LoopInv
  <2>3. QED
    BY <1>1, <1>2, <1>3, <2>1, <2>2 DEF FInv, InHand
<1>9. /\ m'.bytes = m.bytes /\ m'.wire = m.wire /\ m'.rtts = m.rtts /\ m'.fail = m.fail
      /\ m'.timer = m.timer /\ m'.errors > 0 /\ m'.errors # 0
      /\ m.rtts \in Nat /\ m.bytes \in Nat
  <2>1. m \in Counters
    BY DEF IInv, Types
  <2>2. QED
    BY <1>2, <2>1, LoggedError DEF Counters
<1>10. Figures'
  BY <1>2, <1>9 DEF FInv, Figures
<1>11. Front <= reader.pos /\ Front \in Nat /\ reader.pos \in Nat
  <2>1. 1 \in 1..Len(flight) /\ 1 - 1 = 0
    BY <1>1
  <2>2. /\ End(Front, 0) = Front /\ Len(flight[1]) \in Nat
        /\ End(Front, 1) = End(Front, 0) + Len(flight[1])
    BY <2>1, FlightChunk DEF End
  <2>3. End(Front, 1) = reader.pos /\ reader.pos \in Nat
    BY <1>1 DEF FInv, InHand, InFlight, Buffers, Readers
  <2>4. Front \in Nat
    BY FrontType
  <2>5. QED
    BY ONLY <2>2, <2>3, <2>4
<1>12. Pipelined
  BY <1>1 DEF FInv, Progress
<1>13. m'.rtts + 0 + lost' <= reader'.count
  <2>1. m.rtts + Len(flight) + lost <= reader.count
    BY <1>12 DEF Pipelined
  <2>2. QED
    BY <1>1, <1>2, <1>4, <1>9, <2>1
<1>14. m'.bytes <= Front'
  <2>1. m.bytes <= Front
    BY <1>12 DEF Pipelined
  <2>2. QED
    BY <1>7, <1>9, <1>11, <2>1
<1>15. Pipelined'
  <2>1. Len(flight') = 0 /\ m'.errors # 0
    BY <1>2, <1>3, <1>9
  <2>2. QED
    BY <1>1, <1>2, <1>9, <1>12, <1>13, <1>14, <2>1 DEF Pipelined
<1>16. QED
  BY <1>1, <1>2, <1>5, <1>6, <1>8, <1>10, <1>15, SavedLater DEF FInv, Progress

-----------------------------------------------------------------------------
(* Verification.                                                              *)
LEMMA Expected ==
  ASSUME InHand, R!Done
  PROVE  expected = Reversed(chunk)
  BY RP!LoopEnd DEF InHand, R!Done, RP!LoopReverses, RP!Done, RP!Reversed, Reversed

LEMMA Joined ==
  ASSUME NEW T, NEW s \in Seq(T), NEW t \in Seq(T)
  PROVE  s \o t \in Seq(T) /\ Len(s \o t) = Len(s) + Len(t)
  OBVIOUS

(* A chunk that is verified in its turn continues the verified part.          *)
LEMMA Continued ==
  ASSUME NEW v \in Seq(1..size), NEW c \in Seq(1..size), NEW to \in Nat,
         v = Piece(0, Len(v)), c = Piece(to - Len(c), Len(c)), Len(v) + Len(c) = to
  PROVE  v \o c = Piece(0, Len(v \o c))
<1> DEFINE a == Len(v)
           b == Len(c)
<1>1. a \in Nat /\ b \in Nat
  OBVIOUS
<1>2. a + b = to /\ v = Piece(0, a) /\ c = Piece(to - b, b) /\ Len(v \o c) = a + b
  BY Joined
<1> HIDE DEF a, b
<1>3. to - b = a
  BY ONLY <1>1, <1>2
<1>4. Piece(0, a) \o Piece(a, b) = Piece(0, a + b)
  BY <1>1, PiecesJoin
<1>5. QED
  BY <1>2, <1>3, <1>4

LEMMA VerifiesFigures ==
  ASSUME FInv, IInv, IInv', Verifies
  PROVE  FInv'
<1>1. /\ pc = "verify" /\ pc' = "loop" /\ pc \in Transfer /\ pc' \in Transfer
      /\ HasChunk /\ ~HasChunk' /\ ~Begins' /\ ~Unopened' /\ ~Unopened
      /\ Pending = chunk /\ Pending' = << >> /\ R!Done
  BY DEF Verifies, Transfer, HasChunk, Begins, Unopened, Pending
<1>2. /\ Still /\ code' = code /\ size' = size /\ flight' = flight /\ reader' = reader
      /\ lost' = lost
  BY DEF Verifies, Still, config, reversalVars, flightVars
<1>3. PICK answer \in Answers :
        /\ Blame(answer)
        /\ m' = LogErrorIf(answer # expected, m)
        /\ IF answer = expected THEN Verify ELSE UNCHANGED verified
  BY DEF Verifies
<1>4. code = "grpc" /\ expected = Reversed(chunk)
  BY <1>1, Expected DEF FInv, InHand
<1>5. Pipelined
  BY <1>1, <1>4 DEF FInv, Progress
<1>6. "cut" \in faults => "cut" \in faults'
  BY <1>3 DEF Blame
<1>7. Buffers' /\ Rounded' /\ EndKnown' /\ InHand'
  BY <1>1, <1>2, <1>6, FrameKept DEF FInv
<1>8. Front' = Front
  BY <1>2 DEF Front
<1>9. /\ verified \in Seq(1..size) /\ chunk \in Seq(1..size) /\ Front \in Nat
      /\ Len(verified) \in Nat /\ Len(chunk) \in Nat /\ m \in Counters /\ m.bytes \in Nat
      /\ chunk = Piece(Front - Len(chunk), Len(chunk))
  <2>1. verified \in Seq(1..size) /\ chunk \in Seq(1..size) /\ Front \in Nat
    BY FrontType DEF FInv, Figures, Buffers
  <2>2. m \in Counters /\ chunk = Piece(Front - Len(chunk), Len(chunk))
    BY <1>1 DEF FInv, InHand, IInv, Types
  <2>3. Len(verified) \in Nat /\ Len(chunk) \in Nat
    BY <2>1
  <2>4. m.bytes \in Nat
    BY <2>2 DEF Counters
  <2>5. QED
    BY <2>1, <2>2, <2>3, <2>4
<1>10. /\ Len(verified) + Len(chunk) <= m.bytes
       /\ "wrong answer" \notin faults => Len(verified) + Len(chunk) = m.bytes
  BY <1>1, <1>5 DEF Pipelined
<1>11. Len(<< >>) = 0
  OBVIOUS
<1>12. CASE answer = expected
  <2>1. m' = m /\ faults' = faults /\ verified' = verified \o chunk
    BY <1>3, <1>4, <1>12 DEF LogErrorIf, Blame, Verify
  <2>2. verified' \in Seq(1..size) /\ Len(verified') = Len(verified) + Len(chunk)
    BY <1>9, <2>1, Joined
  <2>3. Figures'
    BY <1>2, <2>1, <2>2 DEF FInv, Figures
  <2>4. ASSUME m.errors = 0 PROVE verified' = Piece(0, Len(verified'))
    <3>1. /\ m.bytes = Front /\ "wrong answer" \notin faults
          /\ verified = Piece(0, Len(verified))
      BY <1>5, <2>4 DEF Pipelined
    <3>2. Len(verified) + Len(chunk) = Front
      BY <1>10, <3>1
    <3>3. QED
      BY <1>9, <2>1, <3>1, <3>2, Continued
  <2>5. Len(verified') + Len(Pending') = Len(verified) + Len(chunk)
    <3>1. Len(verified') = Len(verified) + Len(chunk) /\ Len(Pending') = 0
      BY <1>1, <1>11, <2>2
    <3>2. Len(verified) \in Nat /\ Len(chunk) \in Nat
      BY <1>9
    <3>3. QED
      BY ONLY <3>1, <3>2
  <2>6. Pipelined'
    BY <1>2, <1>5, <1>8, <1>10, <2>1, <2>4, <2>5 DEF Pipelined
  <2>7. QED
    BY <1>1, <1>2, <1>4, <1>7, <2>3, <2>6, SavedLater DEF FInv, Progress
<1>13. CASE answer # expected
  <2>1. m' = LogError(m) /\ faults' = faults \cup {"wrong answer"} /\ verified' = verified
    BY <1>3, <1>4, <1>13 DEF LogErrorIf, Blame
  <2>2. /\ m'.bytes = m.bytes /\ m'.wire = m.wire /\ m'.rtts = m.rtts /\ m'.fail = m.fail
        /\ m'.timer = m.timer /\ m'.errors > 0 /\ m'.errors # 0
    BY <1>9, <2>1, LoggedError
  <2>3. Figures'
    BY <1>2, <2>1, <2>2 DEF FInv, Figures
  <2>4. Len(verified') + Len(Pending') <= m'.bytes
    <3>1. Len(verified') = Len(verified) /\ Len(Pending') = 0 /\ m'.bytes = m.bytes
      BY <1>1, <1>11, <2>1, <2>2
    <3>2. /\ Len(verified) \in Nat /\ Len(chunk) \in Nat /\ m.bytes \in Nat
          /\ Len(verified) + Len(chunk) <= m.bytes
      BY <1>9, <1>10
    <3>3. QED
      BY ONLY <3>1, <3>2
  <2>5. Pipelined'
    BY <1>2, <1>5, <1>8, <2>1, <2>2, <2>4 DEF Pipelined
  <2>6. QED
    BY <1>1, <1>2, <1>4, <1>7, <2>3, <2>5, SavedLater DEF FInv, Progress
<1>14. QED
  BY <1>12, <1>13

-----------------------------------------------------------------------------
(* What the clients that send one chunk at a time know while it is away.      *)
LEMMA Away ==
  ASSUME FInv, IInv, pc = "wait"
  PROVE  /\ code \in {"tcp", "go", "capnp"} /\ OneByOne /\ R!Done
         /\ verified = Piece(0, Len(verified)) /\ m.errors = 0 /\ m.fail = 0
         /\ "wrong answer" \notin faults
         /\ Len(verified) \in Nat /\ Len(chunk) \in Nat /\ reader.pos \in Nat
         /\ Len(chunk) <= ChunkSize /\ ChunkSize \in Nat
         /\ Len(verified) + Len(chunk) = reader.pos /\ reader.pos <= size
         /\ m.rtts \in Nat /\ m.bytes \in Nat /\ m.rtts + 1 = reader.count
         /\ m.bytes = IF code = "capnp" THEN reader.pos ELSE Len(verified)
         /\ m.wire = IF code = "capnp" THEN reader.pos ELSE 0
         /\ m.bytes <= ChunkSize * m.rtts + (IF code = "capnp" THEN Len(chunk) ELSE 0)
         /\ ChunkSize * m.rtts \in Nat
         /\ code # "capnp" => m.ok = m.rtts
         /\ m.timer = IF code = "capnp" THEN "unset" ELSE "running"
<1>1. code \in {"tcp", "go", "capnp"}
  BY DEF IInv, Types, Places, Codes
<1>2. OneByOne /\ R!Done
  BY <1>1 DEF FInv, Progress, InHand, Transfer
<1>3. pc # "done" /\ HasChunk /\ ~Begins /\ Pending = chunk
  BY DEF HasChunk, Begins, Pending
<1>4. verified \in Seq(1..size) /\ chunk \in Seq(1..size)
  BY DEF FInv, Figures, Buffers
<1>5. Len(verified) \in Nat /\ Len(chunk) \in Nat
  BY <1>4
<1>6. reader.pos \in Nat /\ reader.pos <= size /\ Len(chunk) <= ChunkSize
  BY DEF FInv, Buffers, Readers, IInv, Types
<1>7. m.rtts \in Nat /\ m.bytes \in Nat /\ ChunkSize \in Nat /\ ChunkSize * m.rtts \in Nat
  <2>1. m.rtts \in Nat /\ m.bytes \in Nat
    BY DEF IInv, Types, Counters
  <2>2. QED
    BY <2>1, OneMore
<1>8. /\ verified = Piece(0, Len(verified)) /\ m.errors = 0 /\ m.fail = 0
      /\ "wrong answer" \notin faults /\ Len(verified) + Len(chunk) = reader.pos
      /\ m.rtts + 1 = reader.count
      /\ m.bytes = IF code = "capnp" THEN reader.pos ELSE Len(verified)
      /\ m.wire = IF code = "capnp" THEN reader.pos ELSE 0
      /\ m.bytes <= ChunkSize * m.rtts + (IF code = "capnp" THEN Len(chunk) ELSE 0)
      /\ code # "capnp" => m.ok = m.rtts
      /\ m.timer = IF code = "capnp" THEN "unset" ELSE "running"
  BY <1>1, <1>2, <1>3 DEF OneByOne
<1>9. QED
  BY <1>1, <1>2, <1>5, <1>6, <1>7, <1>8

(* ... and the answer adds its RTT.                                           *)
LEMMA Timed ==
  ASSUME FInv, IInv, pc = "wait", NEW good \in BOOLEAN, NEW r, r = Recorded(good)
  PROVE  /\ r \in Counters
         /\ r.rtts = m.rtts + 1 /\ r.wire = m.wire /\ r.timer = m.timer
         /\ r.bytes = IF code = "capnp" THEN m.bytes ELSE m.bytes + Len(chunk)
         /\ code = "tcp" => r.ok = m.ok + (IF good THEN 1 ELSE 0) /\ r.fail = m.fail
                            /\ r.errors = m.errors
         /\ code = "go" => /\ r.ok = m.ok + (IF good THEN 1 ELSE 0)
                           /\ r.fail = m.fail + (IF good THEN 0 ELSE 1)
                           /\ r.errors = m.errors
         /\ code = "capnp" => r.fail = m.fail
                              /\ r.errors = m.errors + (IF good THEN 0 ELSE 1)
<1>1. code \in {"tcp", "go", "capnp"} /\ Len(chunk) \in Nat
  BY Away
<1>2. m \in Counters
  BY DEF IInv, Types
<1>3. RecordChunkRtt(m) \in Counters
  BY <1>2 DEF RecordChunkRtt, Counters
<1>4. CASE code = "tcp"
  <2> DEFINE plus == IF good THEN 1 ELSE 0
  <2>1. plus \in Nat
    OBVIOUS
  <2>2. r = [m EXCEPT !.rtts = @ + 1, !.bytes = @ + Len(chunk), !.ok = @ + plus]
    BY <1>4 DEF Recorded, StopAndRecordChunkRtt
  <2> HIDE DEF plus
  <2>3. r \in Counters
    BY <1>1, <1>4, <1>2, Recorders DEF Recorded
  <2>4. /\ r.rtts = m.rtts + 1 /\ r.wire = m.wire /\ r.timer = m.timer
        /\ r.bytes = m.bytes + Len(chunk) /\ r.ok = m.ok + plus /\ r.fail = m.fail
        /\ r.errors = m.errors
    BY <1>2, <2>2 DEF Counters
  <2>5. QED
    BY <1>4, <2>3, <2>4 DEF plus
<1>5. CASE code = "go"
  <2> DEFINE p == RecordChunkProcessed(RecordChunkRtt(m), Len(chunk))
  <2>1. r = RecordChunkVerified(p, good) /\ p \in Counters
    BY <1>1, <1>3, <1>5, Recorders DEF Recorded
  <2>2. r \in Counters
    BY <2>1, Recorders
  <2>3. p = [m EXCEPT !.rtts = @ + 1, !.bytes = @ + Len(chunk)]
    BY <1>2 DEF RecordChunkProcessed, RecordChunkRtt, Counters
  <2>4. /\ p.rtts = m.rtts + 1 /\ p.wire = m.wire /\ p.timer = m.timer
        /\ p.bytes = m.bytes + Len(chunk) /\ p.ok = m.ok /\ p.fail = m.fail
        /\ p.errors = m.errors /\ p.ok \in Nat /\ p.fail \in Nat
    BY <1>2, <2>3 DEF Counters
  <2> HIDE DEF p
  <2>5. CASE good
    <3>1. r = [p EXCEPT !.ok = @ + 1]
      BY <2>1, <2>5 DEF RecordChunkVerified
    <3>2. /\ r.rtts = p.rtts /\ r.wire = p.wire /\ r.timer = p.timer /\ r.bytes = p.bytes
          /\ r.ok = p.ok + 1 /\ r.fail = p.fail /\ r.errors = p.errors
      BY <2>1, <3>1 DEF Counters
    <3>3. m.fail + 0 = m.fail
      BY <2>4
    <3>4. QED
      BY <1>5, <2>2, <2>4, <2>5, <3>2, <3>3
  <2>6. CASE ~good
    <3>1. r = [p EXCEPT !.fail = @ + 1]
      BY <2>1, <2>6 DEF RecordChunkVerified
    <3>2. /\ r.rtts = p.rtts /\ r.wire = p.wire /\ r.timer = p.timer /\ r.bytes = p.bytes
          /\ r.ok = p.ok /\ r.fail = p.fail + 1 /\ r.errors = p.errors
      BY <2>1, <3>1 DEF Counters
    <3>3. m.ok + 0 = m.ok
      BY <2>4
    <3>4. QED
      BY <1>5, <2>2, <2>4, <2>6, <3>2, <3>3
  <2>7. QED
    BY <2>5, <2>6
<1>6. CASE code = "capnp"
  <2> DEFINE p == RecordChunkRtt(m)
  <2>1. r = LogErrorIf(~good, p) /\ p = [m EXCEPT !.rtts = @ + 1]
    BY <1>6 DEF Recorded, RecordChunkRtt
  <2>2. r \in Counters
    BY <1>3, <2>1, Recorders
  <2>3. /\ p.rtts = m.rtts + 1 /\ p.wire = m.wire /\ p.timer = m.timer
        /\ p.bytes = m.bytes /\ p.fail = m.fail /\ p.errors = m.errors /\ p.errors \in Nat
    BY <1>2, <2>1 DEF Counters
  <2> HIDE DEF p
  <2>4. CASE good
    BY <1>6, <2>1, <2>2, <2>3, <2>4 DEF LogErrorIf
  <2>5. CASE ~good
    <3>1. r = [p EXCEPT !.errors = @ + 1]
      BY <2>1, <2>5 DEF LogErrorIf, LogError
    <3>2. QED
      BY <1>3, <1>6, <2>2, <2>3, <2>5, <3>1 DEF Counters, p
  <2>6. QED
    BY <2>4, <2>5
<1>7. QED
  BY <1>1, <1>4, <1>5, <1>6

LEMMA Stopped ==
  ASSUME NEW r \in Counters, NEW s, s = TimeTaken(r) \/ (s = StopTimer(r) /\ ~Common)
  PROVE  /\ s \in Counters
         /\ s.bytes = r.bytes /\ s.wire = r.wire /\ s.rtts = r.rtts /\ s.ok = r.ok
         /\ s.fail = r.fail /\ s.errors = r.errors
         /\ Common \/ r.timer = "running" => s.timer = "stopped"
<1>1. s = [r EXCEPT !.timer = "stopped"] \/ (s = r /\ ~Common /\ r.timer # "running")
  BY DEF TimeTaken, SetTotalTime, StopTimer
<1>2. QED
  BY <1>1 DEF Counters

(* The loop is over, and main saves the figures.                              *)
LEMMA SavesFigures ==
  ASSUME FInv, IInv, Still, pc \in Transfer, pc' = "summary",
         "cut" \in faults => "cut" \in faults', verified' = verified,
         m'.bytes < Modulus, m'.wire < Modulus, m'.fail <= 1,
         AllRead', Balanced', Truthful', Perfect'
  PROVE  FInv'
<1>1. /\ pc' \notin Transfer /\ ~HasChunk' /\ ~Begins' /\ ~Unopened'
      /\ pc' # "wait" /\ pc' # "verify" /\ size' = size
  BY DEF Transfer, HasChunk, Begins, Unopened, Still, config
<1>2. Buffers' /\ Rounded' /\ EndKnown' /\ InHand'
  BY <1>1, FrameKept DEF FInv
<1>3. Figures'
  BY <1>1 DEF FInv, Figures
<1>4. Progress'
  BY <1>1 DEF Progress
<1>5. Saved'
  BY SavedFrom
<1>6. QED
  BY <1>2, <1>3, <1>4, <1>5 DEF FInv

LEMMA FileFits ==
  ASSUME FInv, IInv
  PROVE  size \in Nat /\ size < Modulus /\ reader.pos \in Nat /\ reader.pos <= size
<1>1. size \in Nat /\ size \in Sizes /\ reader.pos \in 0..size
  BY DEF FInv, Buffers, Readers, IInv, Types
<1>2. 0 <= TotalChunks(size) /\ size <= size /\ 0 \in Nat
  BY <1>1, Covered
<1>3. size < Modulus
  BY <1>1, <1>2, Fits
<1>4. QED
  BY <1>1, <1>3

LEMMA RightAnswer ==
  ASSUME FInv, IInv, IInv', Still, pc = "wait", pc' = "loop", faults' = faults, Verify,
         m' = Recorded(TRUE)
  PROVE  FInv'
<1>1. /\ pc \in Transfer /\ pc' \in Transfer /\ ~HasChunk' /\ ~Begins' /\ ~Begins
      /\ ~Unopened /\ ~Unopened' /\ Pending' = << >> /\ HasChunk /\ pc' # "done"
  BY DEF Transfer, HasChunk, Begins, Unopened, Pending
<1>2. code' = code /\ size' = size /\ reader' = reader
  BY DEF Still, config
<1>3. Buffers' /\ Rounded' /\ EndKnown' /\ InHand'
  BY <1>1, FrameKept DEF FInv
<1>4. /\ verified \in Seq(1..size) /\ chunk \in Seq(1..size) /\ flight = << >>
      /\ chunk = Piece(reader.pos - Len(chunk), Len(chunk))
  BY <1>1, Away DEF FInv, Figures, Buffers, InHand, Front
<1>5. /\ verified' \in Seq(1..size) /\ Len(verified') = reader.pos
      /\ verified' = Piece(0, Len(verified'))
  <2>1. verified' = verified \o chunk
    BY DEF Verify
  <2>2. Len(verified') = Len(verified) + Len(chunk) /\ verified' \in Seq(1..size)
    BY <1>4, <2>1, Joined
  <2>3. QED
    BY <1>4, <2>1, <2>2, Away, Continued
<1>6. /\ m'.rtts = m.rtts + 1 /\ m'.wire = m.wire /\ m'.timer = m.timer
      /\ m'.bytes = IF code = "capnp" THEN m.bytes ELSE m.bytes + Len(chunk)
      /\ m'.fail = m.fail + 0 /\ m'.errors = m.errors + 0
      /\ code # "capnp" => m'.ok = m.ok + 1
  <2>1. m.fail + 0 = m.fail /\ m.errors + 0 = m.errors
    BY DEF IInv, Types, Counters
  <2>2. code \in {"tcp", "go", "capnp"}
    BY Away
  <2>3. QED
    BY <2>1, <2>2, Timed
<1>7. /\ m'.fail = 0 /\ m'.errors = 0 /\ (code # "capnp" => m'.ok = m'.rtts)
      /\ m'.bytes = reader.pos /\ m'.rtts + 0 = reader.count
  <2>1. m'.fail = 0 /\ m'.errors = 0
    <3>1. m.fail = 0 /\ m.errors = 0
      BY Away
    <3>2. m'.fail = m.fail + 0 /\ m'.errors = m.errors + 0
      BY <1>6
    <3>3. QED
      BY ONLY <3>1, <3>2
  <2>2. code # "capnp" => m'.ok = m'.rtts
    BY <1>6, Away
  <2>3. m'.bytes = reader.pos
    BY <1>6, Away
  <2>4. m'.rtts + 0 = reader.count
    <3>1. m.rtts \in Nat /\ m.rtts + 1 = reader.count /\ m'.rtts = m.rtts + 1
      BY <1>6, Away
    <3>2. QED
      BY ONLY <3>1
  <2>5. QED
    BY <2>1, <2>2, <2>3, <2>4
<1>8. m'.bytes <= ChunkSize * m'.rtts
  <2>1. ChunkSize * m'.rtts = ChunkSize * m.rtts + ChunkSize
    BY <1>6, Away, OneMore
  <2>2. /\ reader.pos \in Nat /\ Len(chunk) \in Nat /\ Len(verified) \in Nat
        /\ Len(chunk) <= ChunkSize /\ ChunkSize \in Nat /\ ChunkSize * m.rtts \in Nat
        /\ Len(verified) + Len(chunk) = reader.pos
    BY Away
  <2>3. \/ m.bytes = reader.pos /\ m.bytes <= ChunkSize * m.rtts + Len(chunk)
        \/ m.bytes = Len(verified) /\ m.bytes <= ChunkSize * m.rtts + 0
    BY Away
  <2>4. QED
    BY ONLY <1>7, <2>1, <2>2, <2>3
<1>9. Figures'
  <2>1. m.wire < Modulus /\ reader.pos < Modulus
    <3>1. size \in Nat /\ size < Modulus /\ reader.pos \in Nat /\ reader.pos <= size
      BY FileFits
    <3>2. QED
      BY <3>1, MetricsAssumption DEF FInv, Figures
  <2>2. m'.fail <= 1 /\ m'.bytes < Modulus /\ m'.wire < Modulus
    <3>1. m'.fail = 0 /\ m'.bytes = reader.pos /\ m'.wire = m.wire
      BY <1>6, <1>7
    <3>2. QED
      BY ONLY <2>1, <3>1
  <2>3. QED
    BY <1>2, <1>5, <2>2 DEF Figures
<1>10. OneByOne'
  <2>1. Len(<< >>) = 0
    OBVIOUS
  <2>2. /\ reader.pos + 0 = reader.pos
        /\ ChunkSize * m'.rtts + 0 = ChunkSize * m'.rtts
    <3>1. reader.pos \in Nat /\ m'.rtts \in Nat
      BY Away DEF IInv, Types, Counters
    <3>2. ChunkSize * m'.rtts \in Nat
      BY <3>1, OneMore
    <3> DEFINE product == ChunkSize * m'.rtts
    <3>3. product \in Nat
      BY <3>2
    <3> HIDE DEF product
    <3>4. reader.pos + 0 = reader.pos /\ product + 0 = product
      BY ONLY <3>1, <3>3
    <3>5. QED
      BY <3>4 DEF product
  <2>3. Len(verified') + Len(Pending') = reader'.pos
    BY <1>1, <1>2, <1>5, <2>1, <2>2
  <2>4. m'.bytes <= ChunkSize * m'.rtts
                      + (IF code' = "capnp" THEN Len(Pending') ELSE 0)
    BY <1>1, <1>8, <2>1, <2>2
  <2>5. /\ m'.wire = IF code' = "capnp" THEN reader'.pos ELSE 0
        /\ m'.timer = IF code' = "capnp" THEN "unset" ELSE "running"
    BY <1>2, <1>6, Away
  <2>6. "wrong answer" \notin faults'
    BY Away
  <2>7. QED
    BY <1>1, <1>2, <1>5, <1>7, <2>3, <2>4, <2>5, <2>6 DEF OneByOne
<1>11. code # "grpc"
  BY Away
<1>12. QED
  BY <1>1, <1>2, <1>3, <1>9, <1>10, <1>11, SavedLater DEF FInv, Progress

LEMMA OneFailure == 0 + 1 = 1 /\ 1 # 0
  OBVIOUS

LEMMA WrongAnswer ==
  ASSUME FInv, IInv, IInv', Still, pc = "wait", faults' = faults \cup {"wrong answer"},
         verified' = verified, m' = TimeTaken(Recorded(FALSE)),
         IF code = "capnp" THEN pc' = "done" /\ dest' = dest ELSE Saves("results")
  PROVE  FInv'
<1>1. /\ code' = code /\ size' = size /\ reader' = reader /\ pc \in Transfer
      /\ Pending = chunk
  BY DEF Still, config, Transfer, Pending
<1>2. code \in {"tcp", "go", "capnp"}
  BY Away
<1> DEFINE r == Recorded(FALSE)
<1>3. /\ r \in Counters
      /\ r.rtts = m.rtts + 1 /\ r.wire = m.wire /\ r.timer = m.timer
      /\ r.bytes = IF code = "capnp" THEN m.bytes ELSE m.bytes + Len(chunk)
      /\ code = "tcp" => r.ok = m.ok + 0 /\ r.fail = m.fail
      /\ code = "go" => r.ok = m.ok + 0 /\ r.fail = m.fail + 1
      /\ code = "capnp" => r.fail = m.fail /\ r.errors = m.errors + 1
  BY <1>2, Timed
<1>4. m' = TimeTaken(r)
  OBVIOUS
<1> HIDE DEF r
<1>5. /\ m'.bytes = r.bytes /\ m'.wire = r.wire /\ m'.rtts = r.rtts /\ m'.ok = r.ok
      /\ m'.fail = r.fail /\ m'.errors = r.errors /\ m'.timer = "stopped"
  <2>1. Common \/ r.timer = "running"
    BY <1>2, <1>3, Away DEF Common
  <2>2. QED
    BY <1>3, <1>4, <2>1, Stopped
<1>6. /\ m.ok \in Nat /\ m.wire < Modulus /\ m.ok + 0 = m.ok /\ Modulus \in Nat
  <2>1. m.ok \in Nat
    BY DEF IInv, Types, Counters
  <2>2. m.ok + 0 = m.ok
    BY ONLY <2>1
  <2>3. m.wire < Modulus /\ Modulus \in Nat
    BY MetricsAssumption DEF FInv, Figures
  <2>4. QED
    BY <2>1, <2>2, <2>3
<1>7. m'.rtts = m.rtts + 1 /\ m'.wire = m.wire
      /\ m'.bytes = (IF code = "capnp" THEN m.bytes ELSE m.bytes + Len(chunk))
  BY <1>3, <1>5
<1>8. m'.bytes = reader.pos
  BY <1>7, Away
<1>9. ChunkSize * m'.rtts = ChunkSize * m.rtts + ChunkSize
  BY <1>7, Away, OneMore
<1> DEFINE product == ChunkSize * m'.rtts
<1>10. product \in Nat /\ product + 0 = product
  <2>1. m.rtts \in Nat
    BY Away
  <2>2. m'.rtts \in Nat
    BY ONLY <1>7, <2>1
  <2>3. product \in Nat
    BY <2>2, OneMore
  <2> HIDE DEF product
  <2>4. product + 0 = product
    BY ONLY <2>3
  <2>5. QED
    BY <2>3, <2>4
<1>11. m'.bytes <= product
  <2>2. /\ reader.pos \in Nat /\ Len(chunk) \in Nat /\ Len(verified) \in Nat
        /\ Len(chunk) <= ChunkSize /\ ChunkSize \in Nat /\ ChunkSize * m.rtts \in Nat
        /\ Len(verified) + Len(chunk) = reader.pos
    BY Away
  <2>3. \/ m.bytes = reader.pos /\ m.bytes <= ChunkSize * m.rtts + Len(chunk)
        \/ m.bytes = Len(verified) /\ m.bytes <= ChunkSize * m.rtts + 0
    BY Away
  <2>4. QED
    BY ONLY <1>8, <1>9, <2>2, <2>3
<1> HIDE DEF product
<1>12. m'.bytes < Modulus /\ m'.wire < Modulus
  <2>1. size \in Nat /\ size < Modulus /\ reader.pos \in Nat /\ reader.pos <= size
    BY FileFits
  <2>2. QED
    BY ONLY <1>6, <1>7, <1>8, <2>1
<1>13. m.fail = 0 /\ m.errors = 0
  BY Away
<1>14. m'.fail = IF code = "go" THEN 1 ELSE 0
  BY <1>2, <1>3, <1>5, <1>13, OneFailure
<1>15. m'.fail <= 1
  BY ONLY <1>14
<1>16. CASE code = "capnp"
  <2>1. /\ pc' = "done" /\ pc' \in Transfer /\ ~HasChunk' /\ ~Begins' /\ ~Begins
        /\ ~Unopened /\ ~Unopened' /\ Pending' = << >>
    BY <1>16 DEF Transfer, HasChunk, Begins, Unopened, Pending
  <2>2. Buffers' /\ Rounded' /\ EndKnown' /\ InHand'
    BY <1>1, <2>1, FrameKept DEF FInv
  <2>3. Figures'
    BY <1>1, <1>12, <1>15 DEF FInv, Figures
  <2>4. m'.errors > 0 /\ m'.fail = 0
    <3>1. m'.errors = m.errors + 1
      BY <1>3, <1>5, <1>16
    <3>2. m'.errors > 0
      BY ONLY <1>13, <3>1
    <3>3. m'.fail = 0
      BY <1>14, <1>16
    <3>4. QED
      BY <3>2, <3>3
  <2>5. Len(verified) <= reader.pos /\ m'.rtts + 0 = reader.count
    <3>1. /\ reader.pos \in Nat /\ Len(chunk) \in Nat /\ Len(verified) \in Nat
          /\ Len(verified) + Len(chunk) = reader.pos
          /\ m.rtts \in Nat /\ m.rtts + 1 = reader.count
      BY Away
    <3>2. QED
      BY ONLY <1>7, <3>1
  <2>6. m'.bytes <= ChunkSize * m'.rtts + Len(<< >>)
    <3>1. Len(<< >>) = 0
      OBVIOUS
    <3>2. QED
      BY <1>11, <1>10, <3>1 DEF product
  <2>7. verified = Piece(0, Len(verified)) /\ m.wire = reader.pos
    BY <1>16, Away
  <2>8. OneByOne'
    BY <1>1, <1>5, <1>7, <1>8, <1>16, <2>1, <2>4, <2>5, <2>6, <2>7 DEF OneByOne
  <2>9. QED
    BY <1>1, <1>16, <2>1, <2>2, <2>3, <2>8, SavedLater DEF FInv, Progress
<1>17. CASE code # "capnp"
  <2>1. pc' = "summary" /\ dest' = "results" /\ ~Common'
    BY <1>1, <1>2, <1>17 DEF Saves, Common
  <2>2. /\ m'.ok = m.rtts /\ (code = "go" => m'.fail = 1)
    <3>1. m'.ok = m.ok + 0
      BY <1>2, <1>3, <1>5, <1>17
    <3>2. m.ok = m.rtts
      BY <1>17, Away
    <3>3. QED
      BY <1>6, <1>14, <3>1, <3>2
  <2>3. m.rtts \in Nat /\ m'.rtts # m.rtts /\ m'.rtts - 1 = m.rtts
    <3>1. m.rtts \in Nat
      BY Away
    <3>2. QED
      BY ONLY <1>7, <3>1
  <2>4. m'.bytes - Len(verified') \in 0..size'
    <3>1. /\ reader.pos \in Nat /\ Len(chunk) \in Nat /\ Len(verified) \in Nat
          /\ Len(verified) + Len(chunk) = reader.pos /\ reader.pos <= size /\ size \in Nat
      BY Away, FileFits
    <3>2. QED
      BY ONLY <1>1, <1>8, <3>1, verified' = verified
  <2>5. Balanced'
    <3>3. m'.bytes <= product + 0
      BY <1>11, <1>10
    <3>4. code' = "go" => m'.ok + m'.fail = m'.rtts
      BY <1>1, <1>7, <2>2
    <3>5. code' = "tcp" => m'.ok \in {m'.rtts, m'.rtts - 1}
      BY <2>2, <2>3
    <3>6. QED
      BY <1>1, <1>17, <2>1, <2>4, <3>3, <3>4, <3>5 DEF Balanced, product
  <2>6. ~Flawless'
    <3>1. CASE code = "tcp"
      BY <1>1, <2>2, <2>3, <3>1 DEF Flawless
    <3>2. CASE code = "go"
      <4>1. m'.fail # 0
        BY <2>2, <3>2, OneFailure
      <4>2. QED
        BY <4>1 DEF Flawless
    <3>3. QED
      BY <1>2, <1>17, <3>1, <3>2
  <2>7. Truthful' /\ Perfect' /\ AllRead'
    BY <2>6 DEF Truthful, Perfect, AllRead
  <2>8. QED
    BY <1>1, <1>12, <1>15, <2>1, <2>5, <2>7, SavesFigures
<1>18. QED
  BY <1>16, <1>17

LEMMA AnsweredFigures ==
  ASSUME FInv, IInv, IInv', Answered
  PROVE  FInv'
<1>1. Still /\ pc = "wait" /\ expected = Reversed(chunk)
  BY Away, Expected DEF Answered, Still, config, FInv
<1>2. PICK answer \in Answers :
        /\ Blame(answer)
        /\ IF answer = expected
           THEN /\ Verify
                /\ m' = Recorded(TRUE)
                /\ pc' = "loop" /\ UNCHANGED dest
           ELSE /\ m' = TimeTaken(Recorded(FALSE))
                /\ IF code = "capnp" THEN pc' = "done" /\ UNCHANGED dest
                                     ELSE Saves("results")
                /\ UNCHANGED verified
  BY DEF Answered
<1>3. CASE answer = expected
  BY <1>1, <1>2, <1>3, RightAnswer DEF Blame
<1>4. CASE answer # expected
  BY <1>1, <1>2, <1>4, WrongAnswer DEF Blame
<1>5. QED
  BY <1>3, <1>4
-----------------------------------------------------------------------------
(* What the wire carried beyond the bytes, when nothing wraps.                *)
LEMMA NoWrap ==
  ASSUME NEW x \in Counters, NEW k \in Nat, x.wire = x.bytes + k, x.wire < Modulus,
         x.bytes = 0 => k = 0
  PROVE  Overhead(x) = k
<1>1. x.bytes \in Nat /\ Modulus \in Nat
  BY MetricsAssumption DEF Counters
<1>2. x.wire - x.bytes = k /\ k < Modulus
  BY <1>1
<1>3. k % Modulus = k
  BY <1>2, Remains
<1>4. QED
  BY <1>2, <1>3 DEF Overhead

(* A run that fails before its first chunk saves zeros.                       *)
LEMMA ZerosBalanced ==
  ASSUME FInv, IInv, Begins, Still, verified' = verified, m' \in Counters,
         m'.bytes = m.bytes, m'.wire = m.wire, m'.rtts = m.rtts, m'.ok = m.ok,
         m'.fail = m.fail
  PROVE  Balanced'
<1>1. /\ Len(verified) = 0 /\ m.rtts = 0 /\ m.bytes = 0 /\ m.wire = 0 /\ m.fail = 0
      /\ pc \in Transfer
  BY Beginning
<1>2. code' = code /\ size' = size /\ size \in Nat
  BY DEF Still, config, IInv, Types
<1>3. ChunkSize * 0 = 0 /\ Header * 0 = 0 /\ ChunkSize \in Nat
  BY ChunkSizeAssumption, MetricsAssumption, Z3
<1>4. Overhead(m)' = 0
  BY <1>1 DEF Overhead
<1>5. code # "grpc" /\ code # "capnp" => m.ok = 0
  <2>1. ASSUME code # "grpc" PROVE OneByOne
    BY <1>1, <2>1 DEF FInv, Progress
  <2>2. QED
    BY <1>1, <2>1 DEF OneByOne
<1>6. /\ 0 <= 0 + ChunkSize /\ 0 <= 0 + 0 /\ 0 - 0 \in 0..size /\ 0 - 0 \in 0..ChunkSize
      /\ 0 - 0 \in 0..0 /\ 0 + 0 = 0
  BY <1>2, <1>3
<1>7. QED
  BY <1>1, <1>2, <1>3, <1>4, <1>5, <1>6 DEF Balanced

(* A run that ends before it saves anything.                                  *)
LEMMA LeavesFigures ==
  ASSUME FInv, IInv, Still, pc \in Transfer, pc' = "off", faults' # {},
         "cut" \in faults => "cut" \in faults', UNCHANGED <<verified, m, files, dest>>
  PROVE  FInv'
<1>1. /\ pc' \notin Transfer /\ ~HasChunk' /\ ~Begins' /\ ~Unopened'
      /\ pc' # "wait" /\ pc' # "verify" /\ size' = size
  BY DEF Transfer, HasChunk, Begins, Unopened, Still, config
<1>2. Buffers' /\ Rounded' /\ EndKnown' /\ InHand'
  BY <1>1, FrameKept DEF FInv
<1>3. Figures' /\ Progress'
  BY <1>1 DEF FInv, Figures, Progress
<1>4. QED
  BY <1>2, <1>3, SavedNever DEF FInv

LEMMA OpenFailsFigures ==
  ASSUME FInv, IInv, IInv', OpenFails
  PROVE  FInv'
<1>1. /\ Still /\ verified' = verified /\ files' = files /\ faults' = faults \cup {"open"}
      /\ pc \in Transfer /\ Begins /\ code' = code
  BY DEF OpenFails, Still, transferVars, Hit, Transfer, Begins, config
<1>2. CASE Common
  <2>1. pc' = "summary" /\ m' = LogError(m) /\ m \in Counters /\ m' \in Counters
    BY <1>2 DEF OpenFails, Saves, IInv, Types
  <2>2. /\ m'.bytes = m.bytes /\ m'.wire = m.wire /\ m'.rtts = m.rtts /\ m'.ok = m.ok
        /\ m'.fail = m.fail /\ m'.errors # 0
    BY <2>1, LoggedError
  <2>3. Balanced'
    BY <1>1, <2>1, <2>2, ZerosBalanced
  <2>4. Truthful' /\ Perfect' /\ AllRead'
    BY <1>1, <2>2 DEF Truthful, Perfect, AllRead, Flawless
  <2>5. QED
    BY <1>1, <2>1, <2>2, <2>3, <2>4, SavesFigures DEF FInv, Figures
<1>3. CASE ~Common
  BY <1>1, <1>3, LeavesFigures DEF OpenFails
<1>4. QED
  BY <1>2, <1>3

LEMMA ConnectFailsFigures ==
  ASSUME FInv, IInv, IInv', ConnectFails
  PROVE  FInv'
<1>1. /\ Still /\ verified' = verified /\ files' = files /\ code' = code
      /\ faults' = faults \cup {"connect"} /\ pc \in Transfer /\ Begins
      /\ m \in Counters /\ m' \in Counters
  BY DEF ConnectFails, Still, transferVars, Hit, Transfer, Begins, config, IInv, Types
<1>2. ASSUME pc' = "summary",
             m'.bytes = m.bytes, m'.wire = m.wire, m'.rtts = m.rtts, m'.ok = m.ok,
             m'.fail = m.fail, ~Flawless'
      PROVE  FInv'
  <2>1. Balanced'
    BY <1>1, <1>2, ZerosBalanced
  <2>2. Truthful' /\ Perfect' /\ AllRead'
    BY <1>1, <1>2 DEF Truthful, Perfect, AllRead
  <2>3. QED
    BY <1>1, <1>2, <2>1, <2>2, SavesFigures DEF FInv, Figures
<1>3. CASE pc' = "summary" /\ m' = LogError(m)
  <2>1. /\ m'.bytes = m.bytes /\ m'.wire = m.wire /\ m'.rtts = m.rtts /\ m'.ok = m.ok
        /\ m'.fail = m.fail /\ m'.errors # 0
    BY <1>1, <1>3, LoggedError
  <2>2. QED
    BY <1>2, <1>3, <2>1 DEF Flawless
<1>4. CASE pc' = "summary" /\ m' = LogError(SetTotalTime(m))
  <2>1. /\ m'.bytes = m.bytes /\ m'.wire = m.wire /\ m'.rtts = m.rtts /\ m'.ok = m.ok
        /\ m'.fail = m.fail /\ m'.errors = m.errors + 1 /\ m.errors \in Nat
    BY <1>1, <1>4 DEF SetTotalTime, LogError, Counters
  <2>2. m'.errors # 0
    BY <2>1
  <2>3. QED
    BY <1>2, <1>4, <2>1, <2>2 DEF Flawless
<1>5. CASE pc' = "summary" /\ code = "tcp" /\ m' = m
  <2>1. m'.timer = "unset" /\ code' = "tcp"
    BY <1>1, <1>5, Beginning
  <2>2. ~Flawless'
    BY <2>1 DEF Flawless, HasFigures
  <2>3. QED
    BY <1>2, <1>5, <2>2
<1>6. CASE pc' = "off" /\ dest' = dest /\ m' = m
  BY <1>1, <1>6, LeavesFigures
<1>7. QED
  BY <1>3, <1>4, <1>5, <1>6 DEF ConnectFails, Saves

(* The metrics of a client between two chunks.                                *)
LEMMA Between ==
  ASSUME FInv, IInv, pc = "loop", code # "grpc"
  PROVE  /\ verified = Piece(0, Len(verified)) /\ m.errors = 0 /\ m.fail = 0
         /\ "wrong answer" \notin faults /\ flight = << >> /\ lost = 0
         /\ Len(verified) = reader.pos /\ m.rtts = reader.count /\ m.bytes = reader.pos
         /\ m.wire = IF code = "capnp" THEN reader.pos ELSE 0
         /\ m.bytes <= ChunkSize * m.rtts
         /\ code # "capnp" => m.ok = m.rtts
         /\ m.timer = IF code = "capnp" THEN "unset" ELSE "running"
<1>1. /\ pc # "done" /\ ~HasChunk /\ ~Begins /\ Pending = << >> /\ pc \in Transfer
  BY DEF HasChunk, Begins, Pending, Transfer
<1>2. OneByOne /\ flight = << >> /\ lost = 0
  BY <1>1 DEF FInv, Progress, InHand
<1>3. /\ verified = Piece(0, Len(verified)) /\ m.errors = 0 /\ m.fail = 0
      /\ "wrong answer" \notin faults /\ Len(verified) + Len(<< >>) = reader.pos
      /\ m.rtts + 0 = reader.count
      /\ m.bytes = IF code = "capnp" THEN reader.pos ELSE Len(verified)
      /\ m.wire = IF code = "capnp" THEN reader.pos ELSE 0
      /\ m.bytes <= ChunkSize * m.rtts + (IF code = "capnp" THEN Len(<< >>) ELSE 0)
      /\ code # "capnp" => m.ok = m.rtts
      /\ m.timer = IF code = "capnp" THEN "unset" ELSE "running"
  BY <1>1, <1>2 DEF OneByOne
<1>4. Len(<< >>) = 0
  OBVIOUS
<1>5. m.rtts \in Nat /\ ChunkSize * m.rtts \in Nat /\ Len(verified) \in Nat
  <2>1. m.rtts \in Nat
    BY DEF IInv, Types, Counters
  <2>2. verified \in Seq(1..size)
    BY DEF FInv, Figures
  <2>3. Len(verified) \in Nat
    BY <2>2
  <2>4. QED
    BY <2>1, <2>3, OneMore
<1> DEFINE product == ChunkSize * m.rtts
<1>6. product \in Nat /\ m.bytes <= product + (IF code = "capnp" THEN 0 ELSE 0)
  BY <1>3, <1>4, <1>5
<1> HIDE DEF product
<1>7. m.bytes <= product
  BY ONLY <1>6
<1>8. Len(verified) + 0 = Len(verified) /\ m.rtts + 0 = m.rtts
  BY ONLY <1>5
<1>9. Len(verified) = reader.pos /\ m.rtts = reader.count
  BY <1>3, <1>4, <1>8
<1>10. QED
  BY <1>2, <1>3, <1>7, <1>9 DEF product

(* Those of the C++ TCP and the Go client when they have verified as many     *)
(* bytes as they have counted.                                                *)
LEMMA VerifiedBalanced ==
  ASSUME IInv, ~Common, m' \in Counters, code' = code, verified' \in Seq(1..size'),
         m'.bytes = Len(verified'), m'.bytes <= ChunkSize * m'.rtts,
         m'.ok = m'.rtts, m'.fail = 0, size' \in Nat
  PROVE  Balanced' /\ (m'.timer = "stopped" /\ verified' = Piece(0, Len(verified'))
                         => Truthful')
<1>1. Len(verified') \in Nat /\ m'.rtts \in Nat
  BY DEF Counters
<1>2. ChunkSize * m'.rtts \in Nat
  BY <1>1, OneMore
<1> DEFINE product == ChunkSize * m'.rtts
<1>3. product \in Nat /\ m'.bytes <= product
  BY <1>2
<1> HIDE DEF product
<1>4. m'.bytes <= product + 0
  BY ONLY <1>3
<1>5. m'.bytes - Len(verified') = 0 /\ m'.rtts + 0 = m'.rtts
  BY ONLY <1>1, m'.bytes = Len(verified')
<1>6. 0 \in 0..0 /\ 0 \in 0..size'
  OBVIOUS
<1>7. ~Common' /\ code' # "capnp"
  BY DEF Common
<1>8. Balanced'
  BY <1>4, <1>5, <1>6, <1>7 DEF Balanced, product
<1>9. m'.timer = "stopped" /\ verified' = Piece(0, Len(verified')) => Truthful'
  BY DEF Truthful, Flawless, WholeVerified
<1>10. QED
  BY <1>8, <1>9

LEMMA StillWithin ==
  ASSUME FInv, IInv, Still, verified' = verified
  PROVE  /\ code' = code /\ size' = size /\ reader' = reader /\ flight' = flight
         /\ size' \in Nat /\ verified' \in Seq(1..size')
         /\ m \in Counters /\ m.bytes < Modulus /\ m.wire < Modulus /\ m.fail <= 1
  BY DEF Still, config, flightVars, FInv, Figures, IInv, Types

LEMMA ReadFailsFigures ==
  ASSUME FInv, IInv, IInv', ReadFails
  PROVE  FInv'
<1>1. /\ Still /\ verified' = verified /\ faults' = faults \cup {"read"}
      /\ pc = "loop" /\ pc \in Transfer /\ code = "go" /\ m' = StopTimer(m)
      /\ pc' = "summary" /\ dest' = "results" /\ ~Common
  BY DEF ReadFails, Still, transferVars, Hit, Transfer, Saves, Common
<1>2. /\ code' = code /\ size' = size /\ verified' \in Seq(1..size') /\ size' \in Nat
      /\ m \in Counters /\ m.bytes < Modulus /\ m.wire < Modulus /\ m.fail <= 1
  BY <1>1, StillWithin
<1>3. /\ m.timer = "running" /\ m.bytes = Len(verified) /\ m.bytes <= ChunkSize * m.rtts
      /\ m.ok = m.rtts /\ m.fail = 0 /\ verified = Piece(0, Len(verified))
  BY <1>1, Between
<1>4. /\ m' \in Counters /\ m'.bytes = m.bytes /\ m'.wire = m.wire /\ m'.rtts = m.rtts
      /\ m'.ok = m.ok /\ m'.fail = m.fail /\ m'.timer = "stopped"
  BY <1>1, <1>2, <1>3, Stopped
<1>5. Balanced' /\ Truthful'
  BY <1>1, <1>2, <1>3, <1>4, VerifiedBalanced
<1>6. Perfect' /\ AllRead'
  BY <1>1 DEF Perfect, AllRead
<1>7. QED
  BY <1>1, <1>2, <1>3, <1>4, <1>5, <1>6, SavesFigures

LEMMA CallFailsFigures ==
  ASSUME FInv, IInv, IInv', CallFails
  PROVE  FInv'
<1>1. /\ Still /\ verified' = verified /\ faults' = faults \cup {"call"}
      /\ pc = "wait" /\ pc \in Transfer /\ pc' = "summary"
      /\ m' = (IF Common THEN LogError(m) ELSE StopTimer(m))
      /\ dest' = (IF Common THEN "kj" ELSE "results")
  BY DEF CallFails, Still, transferVars, Hit, Transfer, Saves
<1>2. /\ code' = code /\ size' = size /\ verified' \in Seq(1..size') /\ size' \in Nat
      /\ m \in Counters /\ m.bytes < Modulus /\ m.wire < Modulus /\ m.fail <= 1
  BY <1>1, StillWithin
<1>3. Perfect' /\ AllRead' /\ ("cut" \in faults => "cut" \in faults')
  BY <1>1 DEF Perfect, AllRead
<1>4. CASE code = "capnp"
  <2>1. Common /\ Common' /\ dest' = "kj" /\ m' = LogError(m)
    BY <1>1, <1>2, <1>4 DEF Common
  <2>2. /\ m'.bytes = m.bytes /\ m'.wire = m.wire /\ m'.rtts = m.rtts
        /\ m'.fail = m.fail /\ m' \in Counters
    BY <1>2, <2>1, LoggedError DEF IInv, Types
  <2>3. Truthful'
    BY <2>1 DEF Truthful
  <2>4. /\ m'.bytes = reader.pos /\ m'.wire = m'.bytes + 0 /\ m'.wire < Modulus
        /\ reader.pos \in Nat
    <3>1. reader.pos \in Nat /\ m.bytes = reader.pos /\ m.wire = reader.pos
      BY <1>1, <1>4, Away
    <3>2. reader.pos + 0 = reader.pos
      BY ONLY <3>1
    <3>3. QED
      BY <1>2, <2>2, <3>1, <3>2
  <2>5. Overhead(m') = 0
    BY <2>2, <2>4, NoWrap
  <2>6. m'.bytes - Len(verified) \in 0..ChunkSize
    <3>1. /\ reader.pos \in Nat /\ Len(chunk) \in Nat /\ Len(verified) \in Nat
          /\ Len(verified) + Len(chunk) = reader.pos /\ Len(chunk) <= ChunkSize
          /\ ChunkSize \in Nat
      BY <1>1, Away
    <3>2. QED
      BY ONLY <2>4, <3>1
  <2>7. m'.bytes <= ChunkSize * m'.rtts + ChunkSize
    <3>1. /\ m.bytes <= ChunkSize * m.rtts + Len(chunk) /\ ChunkSize * m.rtts \in Nat
          /\ Len(chunk) \in Nat /\ Len(chunk) <= ChunkSize /\ ChunkSize \in Nat
          /\ m.bytes \in Nat
      BY <1>1, <1>4, Away
    <3> DEFINE product == ChunkSize * m.rtts
    <3>2. m.bytes <= product + Len(chunk) /\ product \in Nat
      BY <3>1
    <3> HIDE DEF product
    <3>3. m.bytes <= product + ChunkSize
      BY ONLY <3>1, <3>2
    <3>4. QED
      BY <2>2, <3>3 DEF product
  <2>8. "wrong answer" \notin faults'
    BY <1>1, Away
  <2>9. Balanced'
    BY <1>1, <1>2, <1>4, <2>1, <2>5, <2>6, <2>7, <2>8 DEF Balanced
  <2>10. QED
    BY <1>1, <1>2, <1>3, <2>2, <2>3, <2>9, SavesFigures
<1>5. CASE code # "capnp"
  <2>1. code \in {"tcp", "go"} /\ ~Common /\ dest' = "results" /\ m' = StopTimer(m)
    BY <1>1, <1>5, Away DEF Common
  <2>2. /\ m.timer = "running" /\ m.bytes = Len(verified)
        /\ m.ok = m.rtts /\ m.fail = 0 /\ verified = Piece(0, Len(verified))
    BY <1>1, <1>5, Away
  <2>3. m.bytes <= ChunkSize * m.rtts
    <3>1. m.bytes <= ChunkSize * m.rtts + 0 /\ ChunkSize * m.rtts \in Nat
      BY <1>1, <1>5, Away
    <3> DEFINE product == ChunkSize * m.rtts
    <3>2. m.bytes <= product + 0 /\ product \in Nat
      BY <3>1
    <3> HIDE DEF product
    <3>3. m.bytes <= product
      BY ONLY <3>2
    <3>4. QED
      BY <3>3 DEF product
  <2>4. /\ m' \in Counters /\ m'.bytes = m.bytes /\ m'.wire = m.wire /\ m'.rtts = m.rtts
        /\ m'.ok = m.ok /\ m'.fail = m.fail /\ m'.timer = "stopped"
    BY <1>2, <2>1, <2>2, Stopped
  <2>5. Balanced' /\ Truthful'
    BY <1>1, <1>2, <2>1, <2>2, <2>3, <2>4, VerifiedBalanced
  <2>6. QED
    BY <1>1, <1>2, <1>3, <2>4, <2>5, SavesFigures
<1>6. QED
  BY <1>4, <1>5

LEMMA Logged ==
  ASSUME NEW x \in Counters, NEW b \in BOOLEAN, NEW y, y = LogErrorIf(b, x)
  PROVE  /\ y \in Counters /\ y.bytes = x.bytes /\ y.wire = x.wire /\ y.rtts = x.rtts
         /\ y.ok = x.ok /\ y.fail = x.fail /\ y.timer = x.timer
         /\ y.errors = 0 => x.errors = 0 /\ ~b
         /\ x.errors = 0 /\ ~b => y.errors = 0
<1>1. CASE b
  <2>1. y = [x EXCEPT !.errors = @ + 1]
    BY <1>1 DEF LogErrorIf, LogError
  <2>2. x.errors \in Nat /\ y \in Counters
    BY <2>1 DEF Counters
  <2>3. /\ y.bytes = x.bytes /\ y.wire = x.wire /\ y.rtts = x.rtts /\ y.ok = x.ok
        /\ y.fail = x.fail /\ y.timer = x.timer /\ y.errors = x.errors + 1
    BY <2>1 DEF Counters
  <2>4. y.errors # 0
    BY ONLY <2>2, <2>3
  <2>5. QED
    BY <1>1, <2>2, <2>3, <2>4
<1>2. CASE ~b
  BY <1>2 DEF LogErrorIf
<1>3. QED
  BY <1>1, <1>2

(* The bytes of the gRPC client are all answered for, one header an RTT, and  *)
(* only a wrong answer leaves some of them unverified.                        *)
LEMMA PipelinedBalanced ==
  ASSUME FInv, IInv, code = "grpc", pc = "loop", Still, verified' = verified,
         m' \in Counters, m'.bytes = m.bytes, m'.wire = m.wire, m'.rtts = m.rtts,
         "wrong answer" \in faults => "wrong answer" \in faults'
  PROVE  Balanced'
<1>1. Pipelined /\ Pending = << >>
  BY DEF FInv, Progress, Transfer, Pending
<1>2. code' = "grpc" /\ size' = size /\ size \in Nat /\ m \in Counters /\ m.wire < Modulus
      /\ verified \in Seq(1..size)
  BY StillWithin
<1>3. Front \in Nat /\ Front <= size
  BY FrontType
<1>4. m.bytes \in Nat /\ m.rtts \in Nat /\ Len(verified) \in Nat /\ Len(<< >>) = 0
  <2>1. m.bytes \in Nat /\ m.rtts \in Nat
    BY <1>2 DEF Counters
  <2>2. Len(verified) \in Nat
    BY <1>2, LenProperties
  <2>3. Len(<< >>) = 0
    OBVIOUS
  <2>4. QED
    BY <2>1, <2>2, <2>3
<1>5. ChunkSize * m.rtts \in Nat /\ Header * m.rtts \in Nat /\ Header * 0 = 0
  <2>1. ChunkSize * m.rtts \in Nat /\ Header * m.rtts \in Nat
    BY <1>4, OneMore
  <2>2. Header * 0 = 0
    BY TimesZero
  <2>3. QED
    BY <2>1, <2>2
<1>6. /\ m.rtts <= m.bytes /\ m.bytes <= Front /\ m.bytes <= ChunkSize * m.rtts
      /\ m.wire = m.bytes + Header * m.rtts
      /\ Len(verified) + Len(<< >>) <= m.bytes
      /\ "wrong answer" \notin faults => Len(verified) + Len(<< >>) = m.bytes
  BY <1>1 DEF Pipelined
<1>7. Overhead(m') = Header * m.rtts
  <2>1. m.bytes = 0 => m.rtts = 0
    <3>1. m.rtts <= m.bytes
      BY <1>6
    <3>2. QED
      BY ONLY <1>4, <3>1
  <2>2. m'.bytes = 0 => Header * m.rtts = 0
    BY <1>5, <2>1
  <2>3. m'.wire = m'.bytes + Header * m.rtts /\ m'.wire < Modulus
    BY <1>2, <1>6
  <2>4. QED
    BY <1>5, <2>2, <2>3, NoWrap
<1>8. m.bytes - Len(verified) \in 0..size
  <2>1. Len(verified) + 0 <= m.bytes /\ m.bytes <= Front
    BY <1>4, <1>6
  <2>2. QED
    BY ONLY <1>2, <1>3, <1>4, <2>1
<1>9. ASSUME "wrong answer" \notin faults
      PROVE  m.bytes - Len(verified) = 0
  <2>1. Len(verified) + 0 = m.bytes
    BY <1>4, <1>6, <1>9
  <2>2. QED
    BY ONLY <1>4, <2>1
<1> DEFINE product == ChunkSize * m.rtts
<1>10. product \in Nat /\ m.bytes <= product
  BY <1>5, <1>6
<1> HIDE DEF product
<1>11. m.bytes <= product + 0 /\ 0 \in 0..0
  BY ONLY <1>4, <1>10
<1>12. QED
  BY <1>2, <1>7, <1>8, <1>9, <1>11 DEF Balanced, Common, product

(* The call breaks with chunks in flight or without; or the writer hangs.     *)
LEMMA StreamBreaksFigures ==
  ASSUME FInv, IInv, IInv', StreamBreaks
  PROVE  FInv'
<1>1. /\ Still /\ verified' = verified /\ faults' = faults \cup {"call"}
      /\ pc = "loop" /\ pc \in Transfer /\ code = "grpc" /\ ~HasChunk /\ Pending = << >>
      /\ ~Begins /\ ~Unopened
  BY DEF StreamBreaks, Still, transferVars, Hit, Transfer, HasChunk, Pending, Begins, Unopened
<1>2. /\ code' = code /\ size' = size /\ flight' = flight /\ reader' = reader
      /\ m \in Counters /\ m.bytes < Modulus /\ m.wire < Modulus /\ m.fail <= 1
  BY <1>1, StillWithin
<1>3. CASE pc' = "hung" /\ UNCHANGED <<m, dest>>
  <2>1. /\ pc' \in Transfer /\ ~HasChunk' /\ ~Begins' /\ ~Unopened' /\ pc' # "wait"
        /\ pc' # "verify" /\ Pending' = << >>
    BY <1>3 DEF Transfer, HasChunk, Begins, Unopened, Pending
  <2>2. Buffers' /\ Rounded' /\ EndKnown' /\ InHand'
    BY <1>1, <2>1, FrameKept DEF FInv
  <2>3. Figures'
    BY <1>1, <1>2, <1>3 DEF FInv, Figures
  <2>4. Front' = Front /\ lost' = lost
    BY <1>1, <1>2 DEF Front, Still, flightVars
  <2>5. Pipelined
    BY <1>1 DEF FInv, Progress
  <2>6. Pipelined'
    BY <1>1, <1>2, <1>3, <2>1, <2>4, <2>5 DEF Pipelined
  <2>7. QED
    BY <1>1, <1>2, <2>1, <2>2, <2>3, <2>6, SavedLater DEF FInv, Progress
<1>4. CASE /\ m' = LogError(LogErrorIf(Len(flight) + lost > 0, SetTotalTime(m)))
           /\ Saves("results")
  <2> DEFINE more == Len(flight) + lost > 0
             x == SetTotalTime(m)
             y == LogErrorIf(more, x)
  <2>1. /\ x \in Counters /\ x.bytes = m.bytes /\ x.wire = m.wire /\ x.rtts = m.rtts
        /\ x.fail = m.fail
    BY <1>2 DEF SetTotalTime, Counters
  <2>2. more \in BOOLEAN
    OBVIOUS
  <2>3. m' = LogErrorIf(TRUE, y)
    BY <1>4 DEF LogErrorIf
  <2> HIDE DEF x, more
  <2>4. /\ y \in Counters /\ y.bytes = m.bytes /\ y.wire = m.wire /\ y.rtts = m.rtts
        /\ y.fail = m.fail
    BY <2>1, <2>2, Logged
  <2> HIDE DEF y
  <2>5. /\ m' \in Counters /\ m'.bytes = m.bytes /\ m'.wire = m.wire /\ m'.rtts = m.rtts
        /\ m'.fail = m.fail /\ m'.errors # 0
    BY <2>3, <2>4, Logged
  <2>6. Balanced'
    BY <1>1, <2>5, PipelinedBalanced
  <2>7. Truthful' /\ Perfect' /\ AllRead'
    BY <1>1, <2>5 DEF Truthful, Perfect, AllRead, Flawless
  <2>8. QED
    BY <1>1, <1>2, <1>4, <2>5, <2>6, <2>7, SavesFigures DEF Saves
<1>5. QED
  BY <1>3, <1>4 DEF StreamBreaks

-----------------------------------------------------------------------------
(* The end of the file. Whichever test tells it, all the bytes have been read *)
(* when the file has not been cut.                                            *)
LEMMA AtEnd ==
  ASSUME FInv, IInv, pc \in Transfer, ~Unopened, "cut" \notin faults,
         reader.eof \/ (code = "tcp" /\ pc = "loop" /\ m.ok >= reader.total)
  PROVE  reader.pos = size
<1>1. /\ reader.pos \in Nat /\ reader.pos <= size /\ reader.count \in Nat /\ size \in Nat
      /\ avail = size /\ reader.size = size
  BY DEF FInv, Buffers, Readers, EndKnown, IInv, Types
<1>2. CASE reader.eof
  BY <1>1, <1>2 DEF FInv, EndKnown
<1>3. CASE code = "tcp" /\ pc = "loop" /\ m.ok >= reader.total
  <2>1. reader.count >= TotalChunks(size)
    BY <1>1, <1>3, Between DEF FInv, EndKnown
  <2>2. reader.count * ChunkSize >= size
    BY <1>1, <2>1, CountMeansEnd
  <2>3. ChunkSize * reader.count = reader.count * ChunkSize
    BY <1>1, ChunkSizeAssumption, Z3
  <2>4. reader.pos = ChunkSize * reader.count \/ avail <= reader.pos
    BY <1>3 DEF FInv, Rounded
  <2>5. CASE reader.pos = ChunkSize * reader.count
    <3>1. reader.pos >= size
      BY <2>2, <2>3, <2>5
    <3>2. QED
      BY <1>1, <3>1
  <2>6. CASE avail <= reader.pos
    BY <1>1, <2>6
  <2>7. QED
    BY <2>4, <2>5, <2>6
<1>4. QED
  BY <1>2, <1>3

(* The chunks read are those of the bytes read, but for short reads.          *)
LEMMA ChunksRead ==
  ASSUME FInv, IInv
  PROVE  /\ reader.count \in Nat /\ TotalChunks(reader.pos) \in Nat
         /\ reader.count = TotalChunks(reader.pos)
            \/ (code = "go" /\ reader.count > TotalChunks(reader.pos))
<1>1. reader.pos \in Nat /\ reader.count \in Nat
  BY DEF FInv, Buffers, Readers, IInv, Types
<1>2. reader.pos <= ChunkSize * reader.count
  BY DEF FInv, Rounded
<1>3. ChunkSize * reader.count = reader.count * ChunkSize /\ reader.count * ChunkSize \in Nat
  BY <1>1, ChunkSizeAssumption, Z3
<1>4. reader.count >= TotalChunks(reader.pos) /\ TotalChunks(reader.pos) \in Nat
  <2>1. reader.count * ChunkSize >= reader.pos
    BY <1>2, <1>3
  <2>2. QED
    BY <1>1, <2>1, CountMeansEnd, Covered
<1>5. CASE code # "go"
  BY <1>1, <1>5, CeilingUnique, Covered DEF FInv, Rounded
<1>6. CASE code = "go"
  BY <1>1, <1>4, <1>6
<1>7. QED
  BY <1>1, <1>4, <1>5, <1>6

LEMMA LoopEndsPipelined ==
  ASSUME FInv, IInv, IInv', LoopEnds, code = "grpc"
  PROVE  FInv'
<1>1. /\ Still /\ verified' = verified /\ faults' = faults /\ pc = "loop" /\ pc \in Transfer
      /\ pc' = "summary" /\ dest' = "results" /\ flight = << >> /\ reader.eof
      /\ Pending = << >> /\ ~Unopened
  BY DEF LoopEnds, Still, transferVars, Transfer, Saves, EndSeen, Pending, Unopened
<1>2. /\ code' = code /\ size' = size /\ flight' = flight /\ reader' = reader
      /\ m \in Counters /\ m.bytes < Modulus /\ m.wire < Modulus /\ m.fail <= 1
      /\ verified' \in Seq(1..size')
  BY <1>1, StillWithin
<1> DEFINE left_over == lost > 0
           short == NotAllVerified
           x == TimeTaken(m)
           y == LogErrorIf(left_over, x)
<1>3. left_over \in BOOLEAN /\ short \in BOOLEAN
  BY DEF NotAllVerified
<1>4. m' = LogErrorIf(short, y)
  BY DEF LoopEnds
<1>5. /\ x \in Counters /\ x.bytes = m.bytes /\ x.wire = m.wire /\ x.rtts = m.rtts
      /\ x.fail = m.fail /\ x.errors = m.errors /\ x.timer = "stopped"
  BY <1>2, Stopped DEF Common
<1> HIDE DEF left_over, short, x
<1>6. /\ y \in Counters /\ y.bytes = m.bytes /\ y.wire = m.wire /\ y.rtts = m.rtts
      /\ y.fail = m.fail /\ y.timer = "stopped"
      /\ y.errors = 0 => m.errors = 0 /\ ~left_over
      /\ m.errors = 0 /\ ~left_over => y.errors = 0
  BY <1>3, <1>5, Logged
<1> HIDE DEF y
<1>7. /\ m' \in Counters /\ m'.bytes = m.bytes /\ m'.wire = m.wire /\ m'.rtts = m.rtts
      /\ m'.fail = m.fail /\ m'.timer = "stopped"
      /\ m'.errors = 0 => m.errors = 0 /\ ~left_over /\ ~short
      /\ m.errors = 0 /\ ~left_over /\ ~short => m'.errors = 0
  BY <1>3, <1>4, <1>6, Logged
<1>8. Pipelined /\ Front = reader.pos
  BY <1>1 DEF FInv, Progress, Front
<1>9. ASSUME m.errors = 0
      PROVE  /\ ~left_over /\ verified = Piece(0, Len(verified)) /\ m.bytes = reader.pos
             /\ Len(verified) = reader.pos /\ m.rtts = reader.count
  <2>1. /\ m.bytes = Front /\ lost = 0 /\ "wrong answer" \notin faults
        /\ verified = Piece(0, Len(verified)) /\ m.rtts + Len(flight) = reader.count
        /\ "wrong answer" \notin faults => Len(verified) + Len(Pending) = m.bytes
    BY <1>8, <1>9 DEF Pipelined
  <2>2. Len(<< >>) = 0
    OBVIOUS
  <2>3. m.rtts \in Nat /\ Len(verified) \in Nat
    BY <1>1, <1>2, LenProperties DEF Counters
  <2>4. Len(verified) + 0 = m.bytes /\ m.rtts + 0 = reader.count
    BY <1>1, <2>1, <2>2
  <2>5. Len(verified) = m.bytes /\ m.rtts = reader.count
    BY ONLY <2>3, <2>4
  <2>6. ~(0 > 0)
    OBVIOUS
  <2>7. QED
    BY <1>8, <2>1, <2>5, <2>6 DEF left_over
<1>10. Balanced'
  BY <1>1, <1>7, PipelinedBalanced
<1>11. Truthful'
  <2>1. ASSUME m'.errors = 0 PROVE WholeVerified'
    BY <1>1, <1>2, <1>7, <1>9, <2>1 DEF WholeVerified, short, NotAllVerified
  <2>2. QED
    BY <2>1 DEF Truthful, Flawless
<1>12. ASSUME faults \subseteq {"cut"} PROVE m.errors = 0
  <2>1. m.errors > 0 => faults \cap {"wrong answer", "orphan"} # {}
    BY <1>8 DEF Pipelined
  <2>2. ~(m.errors > 0)
    BY <1>12, <2>1
  <2>3. m.errors \in Nat
    BY <1>2 DEF Counters
  <2>4. QED
    BY ONLY <2>2, <2>3
<1>13. AllRead'
  BY <1>1, <1>2, <1>9, <1>12 DEF AllRead
<1>14. ASSUME faults = {} PROVE Flawless' /\ AllTimed'
  <2>1. m.errors = 0 /\ reader.pos = size
    BY <1>1, <1>12, <1>14, AtEnd
  <2>2. /\ ~left_over /\ m.bytes = size /\ Len(verified) = size /\ m.rtts = reader.count
    BY <1>9, <2>1
  <2>3. m'.errors = 0
    BY <1>7, <2>1, <2>2 DEF short, NotAllVerified
  <2>4. m.rtts = TotalChunks(size)
    BY <2>1, <2>2, ChunksRead
  <2>5. m.fail = 0
    BY <1>8 DEF Pipelined
  <2>6. Flawless' /\ AllTimed'
    BY <1>2, <1>7, <2>2, <2>3, <2>4, <2>5 DEF Flawless, HasFigures, AllTimed
  <2>7. QED
    BY <2>6
<1>15. Perfect'
  BY <1>1, <1>14 DEF Perfect
<1>16. QED
  BY <1>1, <1>2, <1>7, <1>10, <1>11, <1>13, <1>15, SavesFigures

LEMMA LoopEndsAlone ==
  ASSUME FInv, IInv, IInv', LoopEnds, code \in {"tcp", "go"}
  PROVE  FInv'
<1>1. /\ Still /\ verified' = verified /\ faults' = faults /\ pc = "loop" /\ pc \in Transfer
      /\ pc' = "summary" /\ dest' = "results" /\ m' = TimeTaken(m) /\ ~Common
      /\ EndSeen /\ ~Unopened
  BY DEF LoopEnds, Still, transferVars, Transfer, Saves, Common, Unopened
<1>2. /\ code' = code /\ size' = size /\ flight' = flight /\ reader' = reader
      /\ verified' \in Seq(1..size') /\ size' \in Nat
      /\ m \in Counters /\ m.bytes < Modulus /\ m.wire < Modulus /\ m.fail <= 1
  BY <1>1, StillWithin
<1>3. /\ m.timer = "running" /\ m.bytes = Len(verified) /\ m.bytes <= ChunkSize * m.rtts
      /\ m.ok = m.rtts /\ m.fail = 0 /\ verified = Piece(0, Len(verified))
      /\ m.errors = 0 /\ m.bytes = reader.pos /\ m.rtts = reader.count /\ flight = << >>
  BY <1>1, Between
<1>4. /\ m' \in Counters /\ m'.bytes = m.bytes /\ m'.wire = m.wire /\ m'.rtts = m.rtts
      /\ m'.ok = m.ok /\ m'.fail = m.fail /\ m'.errors = m.errors /\ m'.timer = "stopped"
  BY <1>1, <1>2, <1>3, Stopped
<1>5. Balanced' /\ Truthful'
  BY <1>1, <1>2, <1>3, <1>4, VerifiedBalanced
<1>6. AllRead'
  BY <1>1, <1>2, <1>3 DEF AllRead
<1>7. ASSUME faults = {} PROVE Flawless' /\ AllTimed'
  <2>1. reader.pos = size
    BY <1>1, <1>7, AtEnd DEF EndSeen
  <2>2. AllTimed'
    BY <1>2, <1>3, <1>4, <2>1, ChunksRead DEF AllTimed
  <2>3. Flawless'
    BY <1>2, <1>3, <1>4, <2>1 DEF Flawless, HasFigures
  <2>4. QED
    BY <2>2, <2>3
<1>8. Perfect'
  BY <1>1, <1>7 DEF Perfect
<1>9. QED
  BY <1>1, <1>2, <1>3, <1>4, <1>5, <1>6, <1>8, SavesFigures

LEMMA LoopEndsStreaming ==
  ASSUME FInv, IInv, IInv', LoopEnds, code = "capnp"
  PROVE  FInv'
<1>1. /\ Still /\ verified' = verified /\ faults' = faults /\ pc = "loop" /\ pc \in Transfer
      /\ pc' = "done" /\ m' = TimeTaken(m) /\ Common /\ reader.eof /\ ~Unopened
  BY DEF LoopEnds, Still, transferVars, Transfer, Common, Unopened, EndSeen
<1>2. /\ pc' \in Transfer /\ ~HasChunk' /\ ~Begins' /\ ~Unopened' /\ Pending' = << >>
      /\ pc' # "wait" /\ pc' # "verify"
  BY <1>1 DEF Transfer, HasChunk, Begins, Unopened, Pending
<1>3. /\ code' = code /\ size' = size /\ reader' = reader
      /\ m \in Counters /\ m.bytes < Modulus /\ m.wire < Modulus /\ m.fail <= 1
      /\ verified' \in Seq(1..size')
  BY <1>1, StillWithin
<1>4. /\ verified = Piece(0, Len(verified)) /\ m.errors = 0 /\ m.fail = 0
      /\ Len(verified) = reader.pos /\ m.rtts = reader.count /\ m.bytes = reader.pos
      /\ m.wire = reader.pos /\ m.bytes <= ChunkSize * m.rtts
  BY <1>1, Between
<1>5. /\ m'.bytes = m.bytes /\ m'.wire = m.wire /\ m'.rtts = m.rtts /\ m'.errors = m.errors
      /\ m'.fail = m.fail /\ m'.timer = "stopped"
  BY <1>1, <1>3, Stopped
<1>6. Buffers' /\ Rounded' /\ EndKnown' /\ InHand'
  BY <1>1, <1>2, FrameKept DEF FInv
<1>7. Figures'
  BY <1>3, <1>5 DEF Figures
<1>8. m'.rtts + 0 = m'.rtts /\ m'.bytes <= ChunkSize * m'.rtts + Len(<< >>)
  <2>1. m.rtts \in Nat
    BY <1>3 DEF Counters
  <2> DEFINE product == ChunkSize * m.rtts
  <2>2. product \in Nat /\ m.bytes <= product
    BY <1>4, <2>1, OneMore
  <2> HIDE DEF product
  <2>3. m.rtts + 0 = m.rtts /\ m.bytes <= product + 0
    BY ONLY <2>1, <2>2
  <2>4. Len(<< >>) = 0
    OBVIOUS
  <2>5. QED
    BY <1>5, <2>3, <2>4 DEF product
<1>9. OneByOne'
  BY <1>1, <1>2, <1>3, <1>4, <1>5, <1>8 DEF OneByOne
<1>10. QED
  BY <1>2, <1>3, <1>6, <1>7, <1>9, SavedLater DEF FInv, Progress

LEMMA LoopEndsFigures ==
  ASSUME FInv, IInv, IInv', LoopEnds
  PROVE  FInv'
  BY LoopEndsPipelined, LoopEndsAlone, LoopEndsStreaming DEF IInv, Types, Codes

(* doneStreaming of the Cap'n Proto client.                                   *)
LEMMA Streamed ==
  ASSUME FInv, IInv, pc = "done", Still, verified' = verified, m' \in Counters,
         m'.bytes = m.bytes, m'.wire = m.wire, m'.rtts = m.rtts,
         "wrong answer" \in faults => "wrong answer" \in faults'
  PROVE  /\ code = "capnp" /\ OneByOne /\ flight = << >> /\ Balanced'
<1>1. code = "capnp" /\ Common
  BY DEF IInv, Places, Common
<1>2. OneByOne /\ flight = << >>
  BY <1>1 DEF FInv, Progress, InHand, Transfer
<1>3. ~HasChunk /\ Pending = << >> /\ Len(<< >>) = 0
  BY DEF HasChunk, Pending
<1>4. /\ code' = code /\ size' = size /\ size \in Nat /\ m \in Counters
      /\ m.wire < Modulus /\ verified \in Seq(1..size)
  BY StillWithin
<1>5. /\ m.bytes = reader.pos /\ m.wire = reader.pos
      /\ m.bytes <= ChunkSize * m.rtts + Len(<< >>)
      /\ \/ Len(verified) = reader.pos
         \/ "wrong answer" \in faults /\ Len(verified) <= reader.pos
  BY <1>1, <1>2, <1>3 DEF OneByOne
<1>6. reader.pos \in Nat /\ reader.pos <= size
  BY FileFits
<1>7. Len(verified) \in Nat
  BY <1>4, LenProperties
<1>8. Overhead(m') = 0
  <2>1. reader.pos + 0 = reader.pos
    BY ONLY <1>6
  <2>2. m'.wire = m'.bytes + 0
    BY <1>5, <2>1
  <2>3. QED
    BY <1>4, <2>2, NoWrap
<1>9. m.bytes - Len(verified) \in 0..size
  <2>1. m.bytes = reader.pos /\ (Len(verified) = reader.pos \/ Len(verified) <= reader.pos)
    BY <1>5
  <2>2. size \in Nat
    BY <1>4
  <2>3. QED
    BY ONLY <1>6, <1>7, <2>1, <2>2
<1>10. ASSUME "wrong answer" \notin faults' PROVE m.bytes - Len(verified) \in 0..0
  <2>1. Len(verified) = reader.pos
    BY <1>5, <1>10
  <2>2. QED
    BY ONLY <1>5, <1>6, <2>1
<1>11. m.rtts \in Nat /\ ChunkSize * m.rtts \in Nat /\ ChunkSize \in Nat /\ m.bytes \in Nat
  <2>1. m.rtts \in Nat /\ m.bytes \in Nat
    BY <1>4 DEF Counters
  <2>2. QED
    BY <2>1, OneMore
<1> DEFINE product == ChunkSize * m.rtts
<1>12. product \in Nat /\ m.bytes <= product + 0
  BY <1>3, <1>5, <1>11
<1> HIDE DEF product
<1>13. m.bytes <= product + 0 /\ m.bytes <= product + ChunkSize
  BY ONLY <1>11, <1>12
<1>14. 0 \in 0..ChunkSize /\ \A k \in 0..0 : k \in 0..ChunkSize
  BY ONLY <1>11
<1>15. Balanced'
  BY <1>1, <1>4, <1>8, <1>9, <1>10, <1>13, <1>14 DEF Balanced, Common, product
<1>16. QED
  BY <1>1, <1>2, <1>15

LEMMA DoneAnsweredFigures ==
  ASSUME FInv, IInv, IInv', DoneAnswered
  PROVE  FInv'
<1>1. /\ Still /\ verified' = verified /\ faults' = faults /\ pc = "done" /\ pc \in Transfer
      /\ pc' = "summary" /\ dest' = "results" /\ m' = LogErrorIf(NotAllVerified, m)
      /\ ~Unopened
  BY DEF DoneAnswered, Still, transferVars, Transfer, Saves, Unopened
<1>2. /\ code' = code /\ size' = size /\ flight' = flight /\ reader' = reader
      /\ m \in Counters /\ m.bytes < Modulus /\ m.wire < Modulus /\ m.fail <= 1
      /\ verified' \in Seq(1..size')
  BY <1>1, StillWithin
<1>3. /\ m' \in Counters /\ m'.bytes = m.bytes /\ m'.wire = m.wire /\ m'.rtts = m.rtts
      /\ m'.fail = m.fail /\ m'.timer = m.timer
      /\ m'.errors = 0 => m.errors = 0 /\ ~NotAllVerified
      /\ m.errors = 0 /\ ~NotAllVerified => m'.errors = 0
  BY <1>1, <1>2, Logged DEF NotAllVerified
<1>4. code = "capnp" /\ OneByOne /\ flight = << >> /\ Balanced'
  BY <1>1, <1>3, Streamed
<1>5. /\ verified = Piece(0, Len(verified)) /\ m.timer = "stopped" /\ m.fail = 0
      /\ m.bytes = reader.pos /\ m.rtts + 0 = reader.count
      /\ \/ Len(verified) = reader.pos /\ reader.eof /\ m.errors = 0
         \/ "wrong answer" \in faults
  BY <1>1, <1>4 DEF OneByOne, HasChunk
<1>6. Truthful'
  BY <1>1, <1>2, <1>3, <1>5 DEF Truthful, Flawless, WholeVerified, NotAllVerified
<1>7. AllRead'
  BY <1>1, <1>2, <1>4, <1>5 DEF AllRead
<1>8. ASSUME faults = {} PROVE Flawless' /\ AllTimed'
  <2>1. Len(verified) = reader.pos /\ reader.eof /\ m.errors = 0
    BY <1>5, <1>8
  <2>2. reader.pos = size
    BY <1>1, <1>8, <2>1, AtEnd
  <2>3. m.rtts = reader.count
    <3>1. m.rtts \in Nat
      BY <1>2 DEF Counters
    <3>2. m.rtts + 0 = reader.count
      BY <1>5
    <3>3. QED
      BY ONLY <3>1, <3>2
  <2>4. AllTimed'
    BY <1>2, <1>3, <1>4, <2>2, <2>3, ChunksRead DEF AllTimed
  <2>5. m'.errors = 0
    BY <1>3, <2>1, <2>2 DEF NotAllVerified
  <2>6. Flawless'
    BY <1>2, <1>3, <1>4, <1>5, <2>2, <2>5 DEF Flawless, HasFigures
  <2>7. QED
    BY <2>4, <2>6
<1>9. Perfect'
  BY <1>1, <1>8 DEF Perfect
<1>10. QED
  BY <1>1, <1>2, <1>3, <1>4, <1>6, <1>7, <1>9, SavesFigures

LEMMA DoneFailsFigures ==
  ASSUME FInv, IInv, IInv', DoneFails
  PROVE  FInv'
<1>1. /\ Still /\ verified' = verified /\ faults' = faults \cup {"call"} /\ pc = "done"
      /\ pc \in Transfer /\ pc' = "summary" /\ dest' = "kj" /\ m' = LogError(m)
  BY DEF DoneFails, Still, transferVars, Transfer, Saves, Hit
<1>2. m \in Counters /\ m' \in Counters /\ m.bytes < Modulus /\ m.wire < Modulus
      /\ m.fail <= 1
  BY <1>1, StillWithin DEF IInv, Types
<1>3. m'.bytes = m.bytes /\ m'.wire = m.wire /\ m'.rtts = m.rtts /\ m'.fail = m.fail
  BY <1>1, <1>2, LoggedError
<1>4. Balanced'
  BY <1>1, <1>2, <1>3, Streamed
<1>5. Truthful' /\ Perfect' /\ AllRead'
  BY <1>1 DEF Truthful, Perfect, AllRead
<1>6. QED
  BY <1>1, <1>2, <1>3, <1>4, <1>5, SavesFigures
-----------------------------------------------------------------------------
LEMMA StartFigures == Init => FInv
<1> SUFFICES ASSUME Init PROVE FInv
  OBVIOUS
<1>1. IInv
  BY Start
<1>2. /\ pc \in {"open", "connect"} /\ pc \in Transfer /\ ~HasChunk /\ Pending = << >>
      /\ pc # "done" /\ pc # "wait" /\ pc # "verify" /\ Begins
  BY DEF Init, Transfer, HasChunk, Pending, Begins, Unopened
<1>3. /\ code \in Codes /\ size \in Sizes /\ size \in Nat /\ avail = size
      /\ reader = NoReader /\ chunk = << >> /\ expected = << >> /\ left = 1 /\ right = 0
      /\ flight = << >> /\ lost = 0 /\ m = New /\ dest = "results" /\ verified = << >>
      /\ faults = {} /\ files[dest].summary = "old"
  BY RunsAssumption DEF Init, Dests
<1>4. /\ reader.size = 0 /\ reader.total = 0 /\ reader.pos = 0 /\ reader.count = 0
      /\ reader.eof = FALSE
  BY <1>3 DEF NoReader
<1>5. /\ Len(<< >>) = 0 /\ 0 + 0 = 0
  OBVIOUS
<1>6. << >> \in Seq(1..size) /\ << >> \in Seq(Seq(1..size))
  OBVIOUS
<1>7. Buffers
  <2>1. 0 <= ChunkSize /\ 0 <= MaxInflight
    BY ChunkSizeAssumption, RunsAssumption
  <2>2. reader \in Readers(size)
    BY <1>3 DEF NoReader, Readers
  <2>3. avail \in 0..size
    BY <1>3
  <2>4. QED
    BY <1>3, <1>5, <1>6, <2>1, <2>2, <2>3 DEF Buffers
<1>8. m.bytes = 0 /\ m.wire = 0 /\ m.rtts = 0 /\ m.ok = 0 /\ m.fail = 0 /\ m.errors = 0
      /\ m.timer = "unset"
  BY <1>3 DEF New
<1>9. Figures
  <2>1. 0 < Modulus /\ 0 <= 1
    BY MetricsAssumption
  <2>2. QED
    BY <1>3, <1>6, <1>8, <2>1 DEF Figures
<1>10. Rounded
  <2>1. 0 < 0 + ChunkSize /\ 0 <= 0
    BY ChunkSizeAssumption
  <2>2. QED
    BY <1>4, <2>1, TimesZero DEF Rounded
<1>11. EndKnown
  <2>1. TotalChunks(0) = 0
    <3>1. TotalChunks(0) \in Nat /\ TotalChunks(0) <= 0
      BY Covered
    <3>2. QED
      BY ONLY <3>1
  <2>3. pc \in Transfer /\ ~Unopened => FALSE
    BY <1>2, <1>3 DEF Init, Unopened, Codes
  <2>4. ~(0 > 0)
    OBVIOUS
  <2>5. QED
    BY <1>3, <1>4, <2>1, <2>3, <2>4 DEF EndKnown, FlagKnown
<1>12. InHand
  <2>1. RP!LoopInv
    BY <1>3, <1>5 DEF RP!LoopInv
  <2>2. InFlight(Front, reader.pos)
    BY <1>3, <1>4, <1>5 DEF InFlight, End, Front
  <2>3. QED
    BY <1>2, <1>3, <1>5, <2>1, <2>2 DEF InHand
<1>13. Piece(0, 0) = << >>
  BY DEF Piece
<1>14. Progress
  <2>1. CASE code = "grpc"
    <3>1. 0 <= 0 /\ ~(0 > 0) /\ 0 + 0 + 0 <= 0
      OBVIOUS
    <3>2. Front = 0
      BY <1>3, <1>4 DEF Front
    <3>3. Pipelined
      BY <1>2, <1>3, <1>4, <1>5, <1>8, <1>13, <3>1, <3>2, TimesZero DEF Pipelined
    <3>4. QED
      BY <2>1, <3>3 DEF Progress
  <2>2. CASE code # "grpc"
    <3>1. 0 <= 0
      OBVIOUS
    <3>2. OneByOne
      BY <1>2, <1>3, <1>4, <1>5, <1>8, <1>13, <3>1, TimesZero DEF OneByOne, Codes
    <3>3. QED
      BY <2>2, <3>2 DEF Progress
  <2>3. QED
    BY <2>1, <2>2
<1>15. Saved
  BY <1>2, <1>3 DEF Saved, Saving
<1>16. QED
  BY <1>7, <1>9, <1>10, <1>11, <1>12, <1>14, <1>15 DEF FInv

LEMMA StepFigures == FInv /\ IInv /\ [Next]_vars => FInv'
<1> SUFFICES ASSUME FInv, IInv, [Next]_vars PROVE FInv'
  OBVIOUS
<1>1. IInv'
  BY Step
<1>2. CASE Opens \/ OpenFails \/ Connects \/ ConnectFails
  BY <1>1, <1>2, OpensFigures, OpenFailsFigures, ConnectsFigures, ConnectFailsFigures
<1>3. CASE ReadsChunk \/ ReadFails \/ Reverses \/ Sends \/ CallFails \/ Answered
  BY <1>1, <1>3, ReadsFigures, ReadFailsFigures, ReversesFigures, SendsFigures,
     CallFailsFigures, AnsweredFigures
<1>4. CASE Matches \/ Verifies \/ Orphaned \/ StreamBreaks
  BY <1>1, <1>4, MatchesFigures, VerifiesFigures, OrphanedFigures, StreamBreaksFigures
<1>5. CASE LoopEnds \/ DoneAnswered \/ DoneFails
  BY <1>1, <1>5, LoopEndsFigures, DoneAnsweredFigures, DoneFailsFigures
<1>6. CASE OpensSummary \/ WritesSummary \/ OpensDetail \/ WritesDetail \/ FlushesSummary
  BY <1>6, SavingSteps
<1>7. CASE FileCut \/ Killed
  BY <1>1, <1>7, FileCutFigures, KilledFigures
<1>8. CASE UNCHANGED vars
  <2>1. /\ code' = code /\ size' = size /\ pc' = pc /\ avail' = avail /\ reader' = reader
        /\ chunk' = chunk /\ expected' = expected /\ left' = left /\ right' = right
        /\ flight' = flight /\ lost' = lost /\ verified' = verified
        /\ m' = m /\ dest' = dest /\ files' = files /\ faults' = faults
    BY <1>8 DEF vars, config, transferVars, reversalVars, flightVars
  <2>2. Still
    BY <2>1 DEF Still, config, reversalVars, flightVars
  <2>3. Buffers' /\ Rounded' /\ EndKnown' /\ InHand'
    BY <2>1, <2>2, FrameKept DEF FInv, HasChunk, Begins, Unopened
  <2>4. Figures' /\ Progress'
    BY <2>1 DEF FInv, Figures, Progress, Pipelined, OneByOne, Front, Pending, HasChunk,
       Begins
  <2>5. Saved'
    BY <2>1 DEF FInv, Saved, AllRead, Balanced, Truthful, Perfect, Flawless, WholeVerified,
       AllTimed, Common
  <2>6. QED
    BY <2>3, <2>4, <2>5 DEF FInv
<1>9. QED
  BY <1>2, <1>3, <1>4, <1>5, <1>6, <1>7, <1>8 DEF Next, ClientStep, Ended

LEMMA FiguresInvariant == Spec => [](FInv /\ IInv)
<1>1. Init => FInv /\ IInv
  BY Start, StartFigures
<1>2. FInv /\ IInv /\ [Next]_vars => (FInv /\ IInv)'
  BY Step, StepFigures
<1>3. QED
  BY <1>1, <1>2, PTL DEF Spec

-----------------------------------------------------------------------------
(* No buffer outgrows a chunk, no map its limit, no counter its width.        *)
THEOREM TypeCorrectness == Spec => []TypeOK
<1>1. FInv /\ IInv => TypeOK
  <2> SUFFICES ASSUME FInv, IInv PROVE TypeOK
    OBVIOUS
  <2>1. /\ Len(expected) = Len(chunk) /\ left \in Nat /\ right \in Int
        /\ left >= 1 /\ left <= right + 1
    BY DEF FInv, InHand, RP!LoopInv
  <2>2. right \in Nat
    BY ONLY <2>1
  <2>3. m \in Counters /\ m.bytes < Modulus /\ m.wire < Modulus /\ m.fail <= 1
    BY DEF FInv, Figures, IInv, Types
  <2>4. /\ m.bytes \in 0..(Modulus - 1) /\ m.wire \in 0..(Modulus - 1) /\ m.fail \in 0..1
    <3>1. m.bytes \in Nat /\ m.wire \in Nat /\ m.fail \in Nat /\ Modulus \in Nat
      BY <2>3, MetricsAssumption DEF Counters
    <3>2. QED
      BY ONLY <2>3, <3>1
  <2>5. m \in Metric
    BY <2>3, <2>4 DEF Counters, Metric
  <2>6. QED
    BY <2>1, <2>2, <2>5 DEF TypeOK, FInv, Buffers, Figures, IInv, Types, Transfer, Saving,
       ResultFile
<1>2. QED
  BY <1>1, FiguresInvariant, PTL

(* Each test for the end of the file means what the clients take it to mean,  *)
(* for every size of the file and of a chunk; the flag of the C++ TCP reader  *)
(* does unless the file has whole chunks only: tcp_client.cpp:106,            *)
(* chunk_reader.cpp:52, fileutils.go:133, file_utils.cpp:99.                  *)
THEOREM TestsAreSound == Spec => []EndTestsSound
<1>1. FInv /\ IInv => EndTestsSound
  <2> SUFFICES ASSUME FInv, IInv, pc = "loop", "cut" \notin faults
               PROVE  LET atEnd == reader.pos = size IN
                        CASE code = "tcp" ->
                               /\ m.ok >= reader.total <=> atEnd
                               /\ reader.eof <=>
                                    atEnd /\ (size % ChunkSize # 0 \/ size = 0)
                          [] code = "go" -> /\ reader.eof => atEnd
                                            /\ atEnd /\ size > 0 => reader.eof
                          [] OTHER -> /\ Eof(code, reader) <=> atEnd
                                      /\ reader.eof => atEnd
    BY DEF EndTestsSound
  <2>1. /\ pc \in Transfer /\ ~Unopened /\ ~Begins
        /\ size \in Nat /\ reader.pos \in Nat /\ reader.pos <= size
        /\ reader.count \in Nat /\ reader.size = size
    BY DEF Transfer, Unopened, Begins, FInv, EndKnown, Buffers, Readers, IInv, Types
  <2>2. reader.eof => reader.pos = size
    BY <2>1, AtEnd
  <2>3. CASE code = "tcp"
    <3>1. m.ok >= reader.total => reader.pos = size
      BY <2>1, <2>3, AtEnd
    <3>2. ASSUME reader.pos = size PROVE m.ok >= reader.total
      <4>1. m.ok = reader.count /\ reader.total = TotalChunks(size)
        BY <2>1, <2>3, Between DEF FInv, EndKnown
      <4>2. reader.count = TotalChunks(size) /\ reader.count \in Nat
        BY <2>3, <3>2, ChunksRead
      <4>3. QED
        BY <4>1, <4>2
    <3> DEFINE short == reader.size = 0 \/ reader.pos < ChunkSize * reader.count
    <3>3. reader.eof <=> short
      BY <2>1, <2>3 DEF FInv, EndKnown, FlagKnown
    <3>4. reader.pos <= ChunkSize * reader.count /\ ChunkSize * reader.count \in Nat
      BY <2>1, OneMore DEF FInv, Rounded
    <3>5. ASSUME reader.pos = size, size % ChunkSize # 0 PROVE short
      <4>1. (ChunkSize * reader.count) % ChunkSize = 0
        BY <2>1, Multiple
      <4>2. reader.pos # ChunkSize * reader.count
        BY <3>5, <4>1
      <4> DEFINE product == ChunkSize * reader.count
      <4> HIDE DEF product
      <4>3. reader.pos < product
        BY <2>1, <3>4, <4>2 DEF product
      <4>4. QED
        BY <4>3 DEF product
    <3>6. ASSUME reader.pos = size, size % ChunkSize = 0, short PROVE size = 0
      <4>1. CASE reader.pos < ChunkSize * reader.count
        <5>1. PICK k \in Nat : size = ChunkSize * k
          <6>1. size = ChunkSize * (size \div ChunkSize) + (size % ChunkSize)
                /\ size \div ChunkSize \in Nat
            BY <2>1, Division
          <6>2. ChunkSize * (size \div ChunkSize) \in Nat
            BY <6>1, OneMore
          <6>3. QED
            BY <3>6, <6>1, <6>2
        <5>2. ChunkSize * reader.count < size + ChunkSize
          BY <2>3, <3>6 DEF FInv, Rounded
        <5>3. ChunkSize * (k + 1) = ChunkSize * k + ChunkSize
          BY <5>1, OneMore
        <5>4. /\ ChunkSize * reader.count < ChunkSize * (k + 1)
              /\ ChunkSize * k < ChunkSize * reader.count
          BY <3>6, <4>1, <5>1, <5>2, <5>3
        <5>5. QED
          BY <2>1, <5>1, <5>4, StrictlyBetween
      <4>2. QED
        BY <2>1, <3>6, <4>1
    <3>7. size = 0 => short
      BY <2>1
    <3> HIDE DEF short
    <3>8. reader.eof <=> reader.pos = size /\ (size % ChunkSize # 0 \/ size = 0)
      <4>1. size = 0 => reader.pos = size
        BY <2>1
      <4>2. QED
        BY <2>2, <3>3, <3>5, <3>6, <3>7, <4>1
    <3>9. QED
      BY <2>3, <3>1, <3>2, <3>8
  <2>4. CASE code = "go"
    <3>1. ASSUME reader.pos = size, size > 0 PROVE reader.eof
      BY <2>1, <2>4, <3>1 DEF FInv, EndKnown
    <3>2. QED
      BY <2>2, <2>4, <3>1
  <2>5. CASE code \in {"grpc", "capnp"}
    <3>1. Eof(code, reader) <=> reader.eof \/ reader.pos >= size
      BY <2>1, <2>5 DEF Eof
    <3>2. reader.pos >= size <=> reader.pos = size
      BY <2>1
    <3>3. QED
      BY <2>2, <2>5, <3>1, <3>2
  <2>6. QED
    BY <2>3, <2>4, <2>5 DEF IInv, Types, Codes
<1>2. QED
  BY <1>1, FiguresInvariant, PTL

(* No byte of the file is skipped or read twice on its way to the verified    *)
(* ones, whoever reads and even if the file is cut, and no chunk is smaller   *)
(* than it has to be, but in Go: chunk_reader.cpp:37, fileutils.go:106,       *)
(* file_utils.cpp:73.                                                         *)
THEOREM NothingIsSkipped == Spec => []NothingSkipped
<1>1. FInv /\ IInv => NothingSkipped
  <2> SUFFICES ASSUME FInv, IInv, pc \notin {"off", "hung"}, faults \subseteq {"cut"}
               PROVE  /\ LET seen == Len(verified) + Len(Pending)
                         IN  /\ verified \o Pending = Piece(0, seen)
                             /\ InFlight(seen, reader.pos)
                      /\ reader.count = TotalChunks(reader.pos) \/ code = "go"
    BY DEF NothingSkipped
  <2>1. reader.count = TotalChunks(reader.pos) \/ code = "go"
    BY ChunksRead
  <2>2. /\ verified \in Seq(1..size) /\ chunk \in Seq(1..size) /\ << >> \in Seq(1..size)
        /\ Len(<< >>) = 0
    <3>1. << >> \in Seq(1..size) /\ Len(<< >>) = 0
      OBVIOUS
    <3>2. QED
      BY <3>1 DEF FInv, Figures, Buffers
  <2>3. Pending = IF HasChunk THEN chunk ELSE << >>
    BY DEF Pending, HasChunk
  <2>4. Len(verified) \in Nat /\ Len(Pending) \in Nat
    BY <2>2, <2>3, LenProperties
  <2>5. /\ verified = Piece(0, Len(verified))
        /\ Len(verified) + Len(Pending) = Front
    <3>1. CASE pc \in Saving
      <4>1. flight = << >> /\ verified = Piece(0, reader.pos) /\ reader.pos \in Nat
        BY <3>1 DEF FInv, Saved, AllRead, Buffers, Readers, IInv, Types
      <4>2. Len(verified) = reader.pos /\ Front = reader.pos
        BY <4>1, PieceProperties DEF Front
      <4>3. Len(Pending) = 0
        BY <2>2, <3>1 DEF Pending, Saving
      <4>4. Len(verified) + Len(Pending) = Front
        BY ONLY <4>1, <4>2, <4>3
      <4>5. QED
        BY <4>1, <4>2, <4>4
    <3>2. CASE pc \in Transfer /\ code = "grpc"
      <4>1. Pipelined
        BY <3>2 DEF FInv, Progress
      <4>2. m.errors \in Nat /\ ~(m.errors > 0)
        BY <4>1 DEF Pipelined, IInv, Types, Counters
      <4>3. m.errors = 0
        BY ONLY <4>2
      <4>4. QED
        BY <4>1, <4>3 DEF Pipelined
    <3>3. CASE pc \in Transfer /\ code # "grpc"
      <4>1. OneByOne /\ Front = reader.pos
        BY <3>3 DEF FInv, Progress, InHand, Front
      <4>2. CASE pc # "done"
        BY <4>1, <4>2 DEF OneByOne
      <4>3. CASE pc = "done"
        <5>1. Len(Pending) = 0
          BY <2>2, <4>3 DEF Pending
        <5>2. Len(verified) = reader.pos
          BY <4>1, <4>3 DEF OneByOne
        <5>3. Len(verified) + Len(Pending) = Front
          BY ONLY <2>4, <4>1, <5>1, <5>2
        <5>4. QED
          BY <4>1, <5>3 DEF OneByOne
      <4>4. QED
        BY <4>2, <4>3
    <3>4. QED
      BY <3>1, <3>2, <3>3 DEF IInv, Types
  <2>6. verified \o Pending = Piece(0, Len(verified) + Len(Pending))
    <3>1. CASE HasChunk
      <4>1. chunk = Piece(Front - Len(chunk), Len(chunk)) /\ Pending = chunk /\ Front \in Nat
        BY <2>3, <3>1, FrontType DEF FInv, InHand
      <4>2. verified \o chunk = Piece(0, Len(verified \o chunk))
        BY <2>2, <2>5, <4>1, Continued
      <4>3. QED
        BY <2>2, <4>1, <4>2, Joined
    <3>2. CASE ~HasChunk
      <4>1. Pending = << >> /\ verified \o << >> = verified
        BY <2>2, <2>3, <3>2
      <4>2. Len(verified) + 0 = Len(verified)
        BY <2>4
      <4>3. QED
        BY <2>2, <2>5, <4>1, <4>2
    <3>3. QED
      BY <3>1, <3>2
  <2>7. InFlight(Front, reader.pos)
    BY DEF FInv, InHand
  <2>8. QED
    BY <2>1, <2>5, <2>6, <2>7
<1>2. QED
  BY <1>1, FiguresInvariant, PTL

(* A summary without a flaw is that of a run that verified the whole file,    *)
(* and an undisturbed run leaves one: main.go:71 and its kin.                 *)
THEOREM SummaryTellsTheTruth == Spec => []SummaryTruthful
<1>1. FInv /\ IInv => SummaryTruthful
  <2> SUFFICES ASSUME FInv, IInv PROVE SummaryTruthful
    OBVIOUS
  <2>1. ASSUME files["results"].summary = "new", Flawless PROVE WholeVerified
    <3>1. dest = "results"
      BY <2>1 DEF IInv, Stage, OthersOld, Dests
    <3>2. QED
      BY <2>1, <3>1 DEF FInv, Saved, Truthful
  <2>2. ASSUME pc = "off", faults = {}
        PROVE  files["results"].summary = "new" /\ Flawless /\ AllTimed
    BY <2>2 DEF FInv, Saved, Perfect
  <2>3. QED
    BY <2>1, <2>2 DEF SummaryTruthful
<1>2. QED
  BY <1>1, FiguresInvariant, PTL

(* The figures of a summary fit each other, however the run ended:            *)
(* metrics_aggregator.cpp:55.                                                 *)
THEOREM FiguresBalance == Spec => []CountsBalanced
<1>1. FInv /\ IInv => CountsBalanced
  BY DEF FInv, Saved, CountsBalanced
<1>2. QED
  BY <1>1, FiguresInvariant, PTL
=============================================================================
