---------------------------- MODULE BenchmarkRuns ----------------------------
(* A run of one of the four clients from the generated file to the saved      *)
(* results: the reader, the reversal, the metrics and the files of results    *)
(* composed. Transport and server are cut down to what main sees of them: an  *)
(* answer, a wrong one, or a failed call.                                     *)
EXTENDS Chunks, ChunkReaders, Metrics

CONSTANTS
  Sizes,        \* configured sizes of the test file
  MaxInflight   \* MAX_INFLIGHT_REQUESTS of the gRPC client

ASSUME RunsAssumption ==
  /\ Sizes \subseteq Nat
  /\ MaxInflight \in Nat \ {0}

(* What is sent for the file can be counted in a size_t.                      *)
ASSUME WidthAssumption ==
  \A bytes \in Sizes : bytes + Header * TotalChunks(bytes) < Modulus

VARIABLES
  code,     \* the client that runs, one of Codes
  size,     \* the configured size, which the file has when main has checked it
  pc,
  avail,    \* the bytes that are left of the file
  reader,   \* the ChunkReader
  chunk, expected, left, right,  \* a chunk and its reversal in the making
  flight,   \* gRPC: chunks sent and not answered, in order
  lost,     \* gRPC: entries of the map whose answer came before them
  m,        \* the MetricsAggregator
  dest,     \* Cap'n Proto: the pair of files that main chose
  files,    \* the pairs of files of results, in the directory of every run
  verified, \* the bytes verified, in order
  faults    \* what the environment did to the run

reversalVars == <<chunk, expected, left, right>>
flightVars == <<flight, lost>>
transferVars == <<reader, reversalVars, flightVars, verified>>
config == <<code, size>>
vars == <<config, pc, avail, transferVars, m, dest, files, faults>>

R == INSTANCE Reversal WITH Element <- Nat, orig <- chunk, data <- expected,
                            i <- left, j <- right

Dests == {"results", "kj", "std"}
Common == code \in {"grpc", "capnp"}
(* n bytes of the file.                                                       *)
Piece(from, n) == [i \in 1..n |-> from + i]
NoReader == [size |-> 0, total |-> 0, pos |-> 0, count |-> 0, eof |-> FALSE]

Init ==
  /\ code \in Codes /\ size \in Sizes
  /\ pc = IF code \in {"grpc", "tcp"} THEN "open" ELSE "connect"
  /\ avail = size
  /\ reader = NoReader
  /\ chunk = << >> /\ expected = << >> /\ left = 1 /\ right = 0
  /\ flight = << >> /\ lost = 0
  /\ m = New /\ dest = "results"
  /\ files = [d \in Dests |-> [summary |-> "old", detail |-> "old"]]
  /\ verified = << >>
  /\ faults = {}

Hit(fault) == faults' = faults \cup {fault}
NoFault == UNCHANGED faults

(* main goes on to save the metrics.                                          *)
Saves(pair) == pc' = "summary" /\ dest' = pair

-----------------------------------------------------------------------------
(* Up to the first chunk. The gRPC and the C++ TCP client open the file       *)
(* before they connect.                                                       *)

StartsTimer(when) == m' = IF code = when THEN StartTimer(m) ELSE m

Opens ==
  /\ pc = "open"
  /\ reader' = Opened(code, avail)
  /\ pc' = IF code \in {"grpc", "tcp"} THEN "connect" ELSE "loop"
  /\ StartsTimer("go")
  /\ UNCHANGED <<config, avail, reversalVars, flightVars, verified, dest, files,
                 faults>>

(* The file is not there any more.                                            *)
OpenFails ==
  /\ pc = "open"
  /\ Hit("open")
  /\ IF Common
     THEN /\ Saves(IF code = "grpc" THEN "results" ELSE "std")
          /\ m' = LogError(m)
     ELSE pc' = "off" /\ UNCHANGED <<dest, m>>
  /\ UNCHANGED <<config, avail, transferVars, files>>

Connects ==
  /\ pc = "connect"
  /\ pc' = IF code \in {"grpc", "tcp"} THEN "loop" ELSE "open"
  /\ StartsTimer("tcp")
  /\ UNCHANGED <<config, avail, transferVars, dest, files, faults>>

(* The gRPC client has no stream, or a call that fails and is still timed.    *)
(* The C++ TCP client saves its metrics when the connection cannot be made,   *)
(* not when a handler throws; the Go client never does.                       *)
ConnectFails ==
  /\ pc = "connect"
  /\ Hit("connect")
  /\ \/ /\ Common /\ Saves(IF code = "capnp" THEN "kj" ELSE "results")
        /\ m' = LogError(m)
     \/ code = "grpc" /\ Saves("results") /\ m' = LogError(SetTotalTime(m))
     \/ code = "tcp" /\ Saves("results") /\ UNCHANGED m
     \/ code \in {"tcp", "go"} /\ pc' = "off" /\ UNCHANGED <<dest, m>>
  /\ UNCHANGED <<config, avail, transferVars, files>>

-----------------------------------------------------------------------------
(* The transfer.                                                              *)

(* Mutant: the C++ TCP client looks at its count only.                        *)
EndSeen_CountOnly ==
  IF code = "tcp" THEN m.ok >= reader.total ELSE reader.eof

(* Nothing more is read.                                                      *)
EndSeen == reader.eof \/ (code = "tcp" /\ m.ok >= reader.total)

HasRoom == Len(flight) + lost < MaxInflight

(* The gRPC writer sends at once, whatever the reader does; the others        *)
(* reverse the chunk first. Cap'n Proto counts it before it is sent. An empty *)
(* chunk is always the end: none is seen without eof().                       *)
ReadsChunk ==
  /\ pc = "loop" \/ (pc = "verify" /\ code = "grpc")
  /\ ~EndSeen
  /\ code = "grpc" => HasRoom
  /\ \E n \in Reads(code, reader, avail) :
       LET data == Piece(reader.pos, n) IN
         /\ reader' = After(code, reader, n)
         /\ \/ /\ n = 0 /\ Eof(code, reader')
               /\ UNCHANGED <<pc, reversalVars, flight, m>>
            \/ /\ n > 0 /\ code = "grpc"
               /\ flight' = Append(flight, data)
               /\ UNCHANGED <<pc, reversalVars, m>>
            \/ /\ n > 0 /\ code # "grpc"
               /\ pc' = "reverse" /\ R!Copy(data)
               /\ m' = IF code = "capnp" THEN RecordChunkSent(m, n, n) ELSE m
               /\ UNCHANGED flight
  /\ UNCHANGED <<config, avail, lost, verified, dest, files, faults>>

(* Only the Go reader tells an error from the end of the file.                *)
ReadFails ==
  /\ pc = "loop" /\ code = "go" /\ ~EndSeen
  /\ Hit("read")
  /\ m' = StopTimer(m)
  /\ Saves("results")
  /\ UNCHANGED <<config, avail, transferVars, files>>

Reverses ==
  /\ pc \in {"reverse", "verify"}
  /\ R!Swap
  /\ UNCHANGED <<config, pc, avail, reader, flightVars, verified, m, dest, files,
                 faults>>

Sends ==
  /\ pc = "reverse" /\ R!Done
  /\ pc' = "wait"
  /\ UNCHANGED <<config, avail, transferVars, m, dest, files, faults>>

(* The call that sends the chunk or the one that awaits the answer fails.     *)
CallFails ==
  /\ pc = "wait"
  /\ Hit("call")
  /\ m' = IF Common THEN LogError(m) ELSE StopTimer(m)
  /\ Saves(IF Common THEN "kj" ELSE "results")
  /\ UNCHANGED <<config, avail, transferVars, files>>

(* What the metrics record of an answer.                                      *)
Recorded(good) ==
  CASE code = "tcp" -> StopAndRecordChunkRtt(m, Len(chunk), good)
    [] code = "go" ->
         RecordChunkVerified(RecordChunkProcessed(RecordChunkRtt(m), Len(chunk)), good)
    [] code = "capnp" -> LogErrorIf(~good, RecordChunkRtt(m))

TimeTaken(metrics) == IF Common THEN SetTotalTime(metrics) ELSE StopTimer(metrics)

Verify == verified' = verified \o chunk

(* The right answer, and one of the wrong size.                               *)
Answers == {Reversed(chunk), << >>}
Blame(answer) ==
  faults' = IF answer = Reversed(chunk) THEN faults ELSE faults \cup {"wrong answer"}

(* The first wrong answer ends the loop; the Cap'n Proto client still says    *)
(* that it is done.                                                           *)
Answered ==
  /\ pc = "wait"
  /\ \E answer \in Answers :
       /\ Blame(answer)
       /\ IF answer = expected
          THEN /\ Verify
               /\ m' = Recorded(TRUE)
               /\ pc' = "loop" /\ UNCHANGED dest
          ELSE /\ m' = TimeTaken(Recorded(FALSE))
               /\ IF code = "capnp" THEN pc' = "done" /\ UNCHANGED dest
                                    ELSE Saves("results")
               /\ UNCHANGED verified
  /\ UNCHANGED <<config, avail, reader, reversalVars, flightVars, files>>

(* gRPC: the reader takes the entry of a response out of the map.             *)
Matches ==
  /\ pc = "loop" /\ flight # << >>
  /\ R!Copy(Head(flight))
  /\ flight' = Tail(flight)
  /\ m' = LET n == Len(Head(flight))
          IN  RecordChunkSent(RecordChunkRtt(m), n, n + Header)
  /\ pc' = "verify"
  /\ UNCHANGED <<config, avail, reader, lost, verified, dest, files, faults>>

(* ... and verifies it, which ends nothing.                                   *)
Verifies ==
  /\ pc = "verify" /\ R!Done
  /\ pc' = "loop"
  /\ \E answer \in Answers :
       /\ Blame(answer)
       /\ m' = LogErrorIf(answer # expected, m)
       /\ IF answer = expected THEN Verify ELSE UNCHANGED verified
  /\ UNCHANGED <<config, avail, reader, reversalVars, flightVars, dest, files>>

(* The response to the last request sent comes before its entry; the entry    *)
(* stays.                                                                     *)
Orphaned ==
  /\ pc = "loop" /\ code = "grpc" /\ Len(flight) = 1
  /\ Hit("orphan")
  /\ flight' = << >> /\ lost' = lost + 1
  /\ m' = LogError(m)
  /\ UNCHANGED <<config, pc, avail, reader, reversalVars, verified, dest, files>>

(* The call breaks, at its deadline at the latest. A writer that waits for    *)
(* room waits for ever, and main with it.                                     *)
StreamBreaks ==
  /\ pc = "loop" /\ code = "grpc"
  /\ Hit("call")
  /\ IF ~HasRoom /\ ~reader.eof
     THEN pc' = "hung" /\ UNCHANGED <<m, dest>>
     ELSE /\ m' = LogError(LogErrorIf(Len(flight) + lost > 0, SetTotalTime(m)))
          /\ Saves("results")
  /\ UNCHANGED <<config, avail, transferVars, files>>

NotAllVerified == Len(verified) # size

LoopEnds ==
  /\ pc = "loop" /\ EndSeen /\ flight = << >>
  /\ m' = IF code = "grpc"
          THEN LogErrorIf(NotAllVerified, LogErrorIf(lost > 0, TimeTaken(m)))
          ELSE TimeTaken(m)
  /\ IF code = "capnp" THEN pc' = "done" /\ UNCHANGED dest ELSE Saves("results")
  /\ UNCHANGED <<config, avail, transferVars, files, faults>>

(* Cap'n Proto: doneStreaming.                                                *)
DoneAnswered ==
  /\ pc = "done"
  /\ m' = LogErrorIf(NotAllVerified, m)
  /\ Saves("results")
  /\ UNCHANGED <<config, avail, transferVars, files, faults>>

DoneFails ==
  /\ pc = "done"
  /\ Hit("call")
  /\ m' = LogError(m)
  /\ Saves("kj")
  /\ UNCHANGED <<config, avail, transferVars, files>>

-----------------------------------------------------------------------------
(* The files of results. Failing writes and flushes are reported by nobody.   *)

Writes(which, contents) == files' = [files EXCEPT ![dest][which] = contents]

SavingUnchanged == UNCHANGED <<config, avail, transferVars, m, dest>>

OpensSummary ==
  /\ pc = "summary"
  /\ \/ Writes("summary", "torn") /\ pc' = "summaryOpen" /\ NoFault
     \/ /\ Hit("save")
        /\ pc' = IF GoesOnUnsaved(code) THEN "detail" ELSE "off"
        /\ UNCHANGED files
  /\ SavingUnchanged

(* The Go client keeps the summary in its buffer until it returns.            *)
WritesSummary ==
  /\ pc = "summaryOpen"
  /\ pc' = "detail"
  /\ \/ code # "go" /\ Writes("summary", "new") /\ NoFault
     \/ code # "go" /\ Hit("write") /\ UNCHANGED files
     \/ code = "go" /\ UNCHANGED <<files, faults>>
  /\ SavingUnchanged

OpensDetail ==
  /\ pc = "detail"
  /\ LET after == IF code = "go" THEN "flush" ELSE "off" IN
       \/ HasDetail(code, m) /\ Writes("detail", "torn") /\ pc' = "detailOpen" /\ NoFault
       \/ HasDetail(code, m) /\ Hit("save") /\ pc' = after /\ UNCHANGED files
       \/ ~HasDetail(code, m) /\ pc' = after /\ UNCHANGED <<files, faults>>
  /\ SavingUnchanged

WritesDetail ==
  /\ pc = "detailOpen"
  /\ pc' = IF code = "go" THEN "flush" ELSE "off"
  /\ \/ Writes("detail", "new") /\ NoFault
     \/ Hit("write") /\ UNCHANGED files
  /\ SavingUnchanged

FlushesSummary ==
  /\ pc = "flush"
  /\ pc' = "off"
  /\ \/ Writes("summary", "new") /\ NoFault
     \/ Hit("write") /\ UNCHANGED files
  /\ SavingUnchanged

-----------------------------------------------------------------------------
(* Another client cuts the file short, once in a run; from here on it is what *)
(* a read error makes of it, too.                                             *)
FileCut ==
  /\ pc \in {"open", "connect", "loop", "reverse", "wait", "verify"}
  /\ "cut" \notin faults
  /\ avail' \in 0..(avail - 1)
  /\ Hit("cut")
  /\ UNCHANGED <<config, pc, transferVars, m, dest, files>>

Killed ==
  /\ pc # "off"
  /\ Hit("killed")
  /\ pc' = "off"
  /\ UNCHANGED <<config, avail, transferVars, m, dest, files>>

ClientStep ==
  \/ Opens \/ OpenFails \/ Connects \/ ConnectFails
  \/ ReadsChunk \/ ReadFails \/ Reverses \/ Sends \/ CallFails \/ Answered
  \/ Matches \/ Verifies \/ Orphaned \/ StreamBreaks
  \/ LoopEnds \/ DoneAnswered \/ DoneFails
  \/ OpensSummary \/ WritesSummary \/ OpensDetail \/ WritesDetail \/ FlushesSummary

Ended == pc \in {"off", "hung"} /\ UNCHANGED vars

Next == ClientStep \/ FileCut \/ Killed \/ Ended

Spec == Init /\ [][Next]_vars

(* A client that has started runs on, and each of its calls is answered or    *)
(* fails in the end; the gRPC call has a deadline.                            *)
LiveSpec == Spec /\ WF_vars(ClientStep)

-----------------------------------------------------------------------------
(* Properties.                                                                *)

Metric == [timer : {"unset", "running", "stopped"}, bytes : 0..(Modulus - 1),
           wire : 0..(Modulus - 1), rtts : Nat, ok : Nat, fail : 0..1, errors : Nat]

(* Every variable stays in its type; no buffer is longer than a chunk and no  *)
(* byte lies beyond the end of the file.                                      *)
TypeOK ==
  /\ code \in Codes /\ size \in Sizes
  /\ pc \in {"off", "open", "connect", "loop", "reverse", "wait", "verify", "done",
             "hung", "summary", "summaryOpen", "detail", "detailOpen", "flush"}
  /\ avail \in 0..size
  /\ reader \in Readers(size)
  /\ {chunk, expected} \subseteq Seq(1..size)
  /\ Len(chunk) <= ChunkSize /\ Len(expected) = Len(chunk)
  /\ left \in Nat /\ right \in Nat
  /\ flight \in Seq(Seq(1..size)) /\ Len(flight) + lost <= MaxInflight
  /\ lost \in Nat
  /\ m \in Metric /\ dest \in Dests
  /\ files \in [Dests -> [{"summary", "detail"} -> {"old", "torn", "new"}]]
  /\ verified \in Seq(1..size)

(* The chunks under way are the bytes of the file from one place to another,  *)
(* in order.                                                                  *)
End(from, k) == IF k = 0 THEN from ELSE flight[k][Len(flight[k])]
InFlight(from, to) ==
  /\ End(from, Len(flight)) = to
  /\ \A k \in 1..Len(flight) :
       flight[k] = Piece(End(from, k - 1), End(from, k) - End(from, k - 1))
Pending == IF pc \in {"reverse", "wait", "verify"} THEN chunk ELSE << >>

(* Each test for the end of an uncut file says what it is taken to say. The   *)
(* count of the C++ TCP client does at every size; its flag only after a      *)
(* chunk that is not full, so that a file of whole chunks ends by the count   *)
(* alone (tcp_client.cpp:106, chunk_reader.cpp:52). The flag of Go is set by  *)
(* the last byte, the first read of an empty file aside (fileutils.go:133);   *)
(* eof() of the common reader by its bytes, its flag never early              *)
(* (file_utils.cpp:99).                                                       *)
EndTestsSound ==
  pc = "loop" /\ "cut" \notin faults =>
    LET atEnd == reader.pos = size IN
      CASE code = "tcp" ->
             /\ m.ok >= reader.total <=> atEnd
             /\ reader.eof <=> atEnd /\ (size % ChunkSize # 0 \/ size = 0)
        [] code = "go" -> (reader.eof => atEnd) /\ (atEnd /\ size > 0 => reader.eof)
        [] OTHER -> (Eof(code, reader) <=> atEnd) /\ (reader.eof => atEnd)

(* No byte is skipped or read twice on the way from the file to the verified  *)
(* ones, through the chunk in hand and those in flight, by whichever reader,  *)
(* also when the file is cut meanwhile; and but for Go, whose reads may fall  *)
(* short, no chunk was cut smaller than it had to be: chunk_reader.cpp:37,    *)
(* fileutils.go:106, file_utils.cpp:73.                                       *)
NothingSkipped ==
  pc \notin {"off", "hung"} /\ faults \subseteq {"cut"} =>
    /\ LET seen == Len(verified) + Len(Pending)
       IN  verified \o Pending = Piece(0, seen) /\ InFlight(seen, reader.pos)
    /\ reader.count = TotalChunks(reader.pos) \/ code = "go"

(* Who reads the files of results learns whether the whole file was verified: *)
(* a summary with all the bytes and nothing wrong in it is that of a run that *)
(* verified them all, in order, and took the time; and a run that nothing     *)
(* disturbs leaves such a summary, with a chunk for every RTT. Neither needs  *)
(* the exit status, which is 0 after a file cut short: main.go:71.            *)
Flawless ==
  /\ HasFigures(code, m) /\ m.bytes = size
  /\ m.errors = 0 /\ m.fail = 0 /\ (code = "tcp" => m.ok = m.rtts)
WholeVerified == verified = Piece(0, size) /\ m.timer = "stopped"
AllTimed ==
  m.rtts = TotalChunks(size) \/ (code = "go" /\ m.rtts > TotalChunks(size))
SummaryTruthful ==
  /\ files["results"].summary = "new" /\ Flawless => WholeVerified
  /\ pc = "off" /\ faults = {} =>
       files["results"].summary = "new" /\ Flawless /\ AllTimed

(* After a run the two files of its pair are both its own and complete, and   *)
(* no other file has been touched. They are not only if the run was killed or *)
(* did not get to save, if a file could not be opened or written, or if the   *)
(* common aggregator had no RTT to save: then the RTTs of an earlier run stay *)
(* beside the new summary (metrics_aggregator.cpp:165).                       *)
PairFromOneRun ==
  pc = "off" =>
    LET f == files[dest]
        unsaved == faults \cap {"killed", "save", "write"} # {}
    IN  /\ f.summary = f.detail \/ unsaved
           \/ (Common /\ m.rtts = 0 /\ f.summary = "new" /\ f.detail = "old")
        /\ "torn" \in {f.summary, f.detail} => faults \cap {"killed", "write"} # {}
        /\ f.detail = "new" /\ ~Common => f.summary # "old"
        /\ \A d \in Dests \ {dest} : files[d].summary = "old" /\ files[d].detail = "old"

(* The figures of one summary fit each other, whatever cut the run short: the *)
(* bytes are those of the chunks with an RTT, but for one chunk that Cap'n    *)
(* Proto has counted and not got back; no difference of counters wraps        *)
(* (metrics_aggregator.cpp:55); at most the last chunk is not verified, in    *)
(* the clients that stop at a wrong answer.                                   *)
Balanced ==
  LET unanswered == IF code = "capnp" /\ dest = "kj" THEN ChunkSize ELSE 0 IN
    /\ m.bytes <= ChunkSize * m.rtts + unanswered
    /\ Common => Overhead(m) = IF code = "grpc" THEN Header * m.rtts ELSE 0
    /\ m.bytes - Len(verified) \in
         0..(IF "wrong answer" \in faults THEN size ELSE unanswered)
    /\ code = "tcp" => m.ok \in {m.rtts, m.rtts - 1}
    /\ code = "go" => m.ok + m.fail = m.rtts
CountsBalanced == files[dest].summary = "new" => Balanced

(* Every run ends, with its results saved or not, but for a gRPC client whose *)
(* writer waits for room that nobody makes.                                   *)
RunsEnd == <>(pc = "off" \/ (pc = "hung" /\ code = "grpc"))
=============================================================================
