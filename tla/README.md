# Formal model of the file-echo benchmarks (gRPC, Cap'n Proto, C++ TCP, Go TCP)

The repository holds four benchmarks that do the same job over four transports:
a client reads a 10 GB test file in chunks of 64 KB, a server reverses each
chunk and sends it back, the client verifies the answer and collects metrics.
This directory models what the clients, the servers and the connections between
them do, model-checks it on small instances with TLC, and proves with TLAPS, for every
instance, the safety properties that TLC checks: of the four transports, of the
framing, of the byte reversal, of whole runs with their readers and figures, and
of the test file that clients share.

## The system

| Part | Code (under `src/`) | State | Operations | Talks to |
|---|---|---|---|---|
| gRPC client | `src/grpc_app/grpc_client.cpp` | position of two threads, `inflight_requests_map`, `writer_stream_broken`, counters, error log | `ProcessFile`: writer thread (wait for room, read, `Write`, insert), reader (`Read`, find and erase, `notify_one`, verify, `join`, `Finish`) | its other thread through a mutex and a condition variable; the server through one bidirectional stream with a deadline |
| gRPC server | `src/grpc_app/grpc_server.cpp` | the request at hand | `ProcessFileChunks`: read, reverse, write, return | the client |
| Cap'n Proto client | `src/capnp_app/capnp_client.cpp` | chunk, counts, error log | connect, `startStreaming`, one `processChunk` at a time, `doneStreaming`, save metrics | the server, by calls it waits for |
| Cap'n Proto server | `src/capnp_app/capnp_server.cpp` | `TaskSet` of connections | accept, the three methods, disconnection | all clients, on one event loop |
| C++ TCP client | `GO++PROJECT/src/cpp_tcp_benchmark/client` | chunk, buffers, `m_chunks_sent`, `m_eof` | resolve, connect, write, read header, read body, stop | its session, by framed messages |
| C++ TCP server | `.../cpp_tcp_benchmark/server` | sessions | accept, read header, read body, write, shutdown on a signal | all clients, on one `io_context` |
| Go TCP client | `GO++PROJECT/src/go_tcp_benchmark/client` | chunk, deadlines | dial, read file, `WriteMessage`, `ReadMessage`, verify | its goroutine on the server |
| Go TCP server | `.../go_tcp_benchmark/server` | one goroutine per connection | the accept loop, `handleConnection` | its client |
| Framing | `tcp_messaging.hpp`, `pkg/messaging` | - | header of four bytes, reads of exactly n bytes | both TCP benchmarks |
| Chunk readers | `file_utils.cpp`, `chunk_reader.cpp`, `pkg/fileutils` | size and chunks of the file as opened, position, end-of-file flag | open, next chunk | their client |
| Test file generation | the same files | a file on disk | check the size, truncate, write | every client on the machine |
| Reversal | `reversal_utils.hpp`, `pkg/reversal` | - | reverse a vector | clients and servers |
| Metrics | `metrics_aggregator.cpp` (two), `pkg/metrics` | sums, round-trip times, errors, timer; two files of results | record, log, print, save | their client; the runs before and after, through the files |

What is hard in it:

* **gRPC client.** Two threads share the map and the error log. The writer tests
  the map's size, releases the lock, writes, and inserts under a second lock;
  the reader erases under the lock and notifies outside it; an answer can arrive
  before its request is in the map; exceptions on either side leave the protocol
  half way; the call has a deadline but the wait on the condition variable has
  none; `log_error` is not synchronised.
* **TCP.** No message boundaries; resets and orderly closes at any point; a
  session destructor that throws; deadlines that are absolute; readers that take
  a failure for the end of the file.
* **Cap'n Proto.** One event loop for all clients; `accept()` failing with
  clients connected; exceptions carried across calls; an error path that joins
  the path of success.
* **Results.** Every way out of a client saves, or does not; the summary and
  the RTTs are two files, each truncated when it is opened, one of them not
  always written, and neither checked; three readers tell the end of the file
  by a flag, by bytes and by a count of chunks, and the clients ask them in
  different places.

What makes each part correct: chunks are verified in order and each once; success
is claimed only for a verified file and failure is never silent; the map stays
within its bound, and nobody waits for ever; a stream stays in step;
the test file is whole when its generators are done; the saved figures are
those of one run and say whether it verified the file; a client
that fails has a cause of its own or its server's, and another client's
connection is none (in the C++ TCP server one connection that is reset can end the
process, with every session in it; a connection in good order never does);
handlers, sessions and goroutines end after their clients. `PROJECT.json` lists the hazards line by line with the properties
that cover them.

## Modules

| Module | Models |
|---|---|
| `Chunks` | the n-th chunk and its reversal |
| `EchoBenchmark` | the abstract contract of a benchmark client |
| `GrpcStream` | gRPC client and handler |
| `GrpcStreamProofs` | the inductive invariant of `GrpcStream` and the theorems |
| `Reversal` | the in-place loop that swaps from both ends |
| `ReversalProofs` | its loop invariant and the theorem |
| `ChunkReaders` | the three chunk readers as functions: opened, what a read may find, afterwards |
| `Metrics` | the three metrics aggregators as functions on a record |
| `BenchmarkRuns` | a run of any of the four clients from the checked file to the saved results; composes `ChunkReaders`, `Reversal`, `Metrics` |
| `BenchmarkRunsProofs` | theorems on the number of chunks; two inductive invariants, of the files of results and of the figures in them, and the theorems |
| `TcpFraming` | header, frame, exact reads, on sequences of bytes |
| `FramingProofs` | lemmas on headers, frames, pieces of a stream and chunks, which the next three proofs share; the theorem on the header |
| `TcpBenchmark` | C++ TCP clients and server |
| `TcpBenchmarkProofs` | its inductive invariant, client by client, and the theorems |
| `GoBenchmark` | Go TCP client and its goroutine |
| `GoBenchmarkProofs` | its inductive invariant and the theorems |
| `CapnpBenchmark` | Cap'n Proto clients and server |
| `CapnpBenchmarkProofs` | its inductive invariant, client by client, and the theorems |
| `TestFile` | the test file several clients check, generate and read, for the three code bases |
| `TestFileProofs` | its inductive invariant and the theorems |
| `MC...` | the instances TLC checks |

The contract, `EchoBenchmark`, is what the four transports share: chunks are sent
in file order, a chunk is verified at most once, after it was sent and in order,
and a run ends once, "complete" only if every chunk was verified. Each of the
four models implements it by a refinement mapping (`Echo` in each module): `sent`
and `verified` are mapped to themselves and `outcome` to what the program says at
its end. One case is mapped apart: the TCP clients take a read that fails for the
end of the file, and may then call a part of the file a success. After such a
read (`ReadFailed` of `TcpBenchmark`, `CutShort` of `GoBenchmark`) an end is mapped
to "incomplete" whatever the program says; `OkMeansReadVerified` says what its
verdict still means, and `TcpBenchmark_eof` shows the divergence. `TcpFraming` is used by both TCP models, `Chunks` by all.

### How a model corresponds to the code

**Data.** A chunk is two bytes, `<<n, 0>>`: enough to tell chunks apart and a
chunk from its reversal. Numbers of bytes verified become sequences of numbers of
chunks, which is finer: `total_bytes_verified == ACTUAL_FILE_SIZE_BYTES` is
`Len(verified) = NumChunks`, all chunks of the configured file being full
(10 GB is a multiple of 64 KB).

**`GrpcStream`.** `wpc` and `rpc` are the places of the two threads between
steps that are atomic for the other: a critical section, a call on the stream, a
call of `notify_one`. Thus `WriterChecksRoom` is the test inside
`cv_can_send.wait`, `WriterRegisters` the second critical section,
`ReaderFindsRequest` the reader's, `ReaderNotifies` the `notify_one` after it. A
writer that sleeps is `"blocked"`, and `SpuriousWakeup` may wake it. The stream is
two queues of at most `Window` messages, which stands for HTTP/2 flow control:
`Write` waits while its queue is full. `CallBreaks` is a lost connection or the
passing of the deadline, after which `Write` fails and `Read` returns false,
perhaps with answers undelivered. The map is two variables: `inflight` holds its
keys and `original` the data of each; `entry` is the reader's copy of an entry,
against which the response is verified. `WriterThrows` and `ReaderThrows` are
allocations that fail. `WriterHalfInserts` is one that fails in the middle of
`inflight_requests_map[id] = log_entry` (line 151): `operator[]` has made an entry
without data and the copy into it throws, so that a right answer is compared with
nothing and blamed (`BlameMeansHalfInserted`). The unsynchronised `log_error` is a nondeterministic
choice (`ReaderLogs`): while the writer is inside its own `log_error`
(`"log_exc"`) a concurrent append by the reader may lose either entry or end the
process. A chunk cut short by a failing read is not modelled here (the read
fails whole); it is in the TCP and Cap'n Proto models. The branch for an empty
chunk before the end of the file (lines 114-121) is unreachable, because
`next_chunk` sets `eof_flag_` whenever it returns nothing.

**`TcpBenchmark`.** Each process is an event loop, so an action is a whole
handler: `HeaderRead` parses the header and either stops, handles an empty body
or starts the next read; `Handle` verifies, counts and calls `SendNext`, which
reads the file and starts the next write. A write puts the frame on the stream
at once; its handler runs later (`ChunkWritten`), possibly after a reset. `fin`
holds the ends that have closed; `reset` loses what was under way. A session is
destroyed with its last handler, and `SessionEnds` is that destructor: on a
connection that was reset `remote_endpoint` throws, and an exception that leaves
a destructor ends the server. `ServerGoes` closes every socket of the process.
The model takes the kernel's view that `remote_endpoint` fails exactly when the
connection has been reset.

`Establishes` is the kernels' part of a connection, the session waiting in the
backlog; `Connected` is the client's handler, later. `ConnectThrows` is the same
exception in that handler, which asks for the address of its peer before it starts
the timer, when the connection has been reset in between: `main` catches it and
saves nothing. `ConnectFails` is the handler with an error of any kind, whether the
server lives or not. `cut` remembers the connections the network has reset, as opposed to
those a client left with bytes on the way.

**`GoBenchmark`.** Calls block, and `WriteMessage` and `ReadMessage` make two
each, so header and body are separate actions. `clock` counts ticks since the
connection was made and stops at `Timeout`, when every later call fails at once;
`waited` counts those of the current call. `DialFails` leaves no connection behind,
`OpenFails`, a file that cannot be opened after the dial, does. Connections share nothing but the
listener, so one client and one goroutine are enough.

**`CapnpBenchmark`.** The client has at most one call outstanding; `call` and
`reply` hold it and its answer. `SendNext` is the loop from its top to the next
`wait`. `ConnectThrows` may happen with a live server. `Ends` is each of the ways out of `main`, with the CSV files it writes.
`AcceptThrows` leaves the accept loop and destroys the `TaskSet`.

**`TestFile`.** The check and the generation of the file, which nothing locks,
by clients that start at any time. A file is the set of blocks written to it; its
size is its last block, and what is missing before that are holes, which appear
when a client goes on writing at its own position into a file another one has
truncated. `dir` is what the name stands for: the C++ TCP client removes the name
and creates another file, while who has the old one open goes on with it. `kind`
chooses among the three code bases: gRPC and Cap'n Proto (one size check,
generation in place, a reader that reads to the present end), C++ TCP (existence,
size and removal in three calls, partial files removed, existence and size checked
again, a reader bound by the size it measured) and Go (in place, checked again,
a reader bound like that). Clients of different code bases use different files or
directories, except gRPC and Cap'n Proto, whose code is the same here. `damage` and `disturbed` are
history variables that only the properties read.

**`Reversal`, `ChunkReaders`, `Metrics`.** `Reversal` is the loop of
`ReverseBytesInPlace`, a step per swap, indices from 1; the C++ code calls
`std::reverse`. The other two are operators on a record that stands for the
object, one per method that changes it, parameterised by the client (`code`)
where the three versions differ. `Eof` is what `eof()` of each reader says: its
flag, and in the common reader also the bytes it has returned. `Modulus` is the width of `size_t`, used where
the code subtracts two of them. Times are left out, but for whether the timer
ran; means and deviations are left out.

**`BenchmarkRuns`.** One run of one of the four clients at the level of `main`:
open, connect, the loop over the chunks, save. The transport is cut down to what
`main` sees of it, an answer, a wrong answer or a failed call; what happens inside
a transport is the business of the other modules. A chunk is here a sequence of
positions in the file, so that skipped or repeated bytes show, and the last one
may be short. The gRPC client's writer and reader are actions that interleave
(`ReadsChunk`, `Matches`, `Verifies`), with `flight` for the map and `lost` for
entries whose answer came before them. Each client has its order of steps: gRPC
and C++ TCP open the file before they connect, the other two after.
`ConnectFails` differs too: gRPC has no stream, or one whose call fails and is timed
and saved; C++ TCP saves what it has or dies of an exception; Go saves nothing. `files` is
the state of the pairs of files of results: `"old"` from an earlier run, `"torn"`
when it has been opened, and so truncated, and not written in full, `"new"`.
`dest` is the pair that main chose (Cap'n Proto has others for its exceptions).
The Go client's summary is in a buffer until `SaveToCSV` returns
(`FlushesSummary`). `FileCut` is another client that truncates the test file,
`Killed` a kill at any point. `faults` is a history variable that only the
properties and the bound on cuts read.

**External.** What the network, the kernel and the clock do (resets, kills,
ticks) is modelled from how the code reacts, and marked external in the map.

## Runs

| Run | Instance | Shows |
|---|---|---|
| `GrpcStream_run` | 6 chunks, map of 4, window 2 | `MapBounded`, `NoLostWakeup`, `OrphanIsUnregistered`, `BlameMeansHalfInserted`, `SuccessMeansVerified`, `NoSilentFailure`, `ReadInOrder`, the contract; with the deadline, a run ends or has a writer asleep on a full map, and the handler returns; without it, a clean run succeeds, so nobody waits on everybody |
| `GrpcStream_leftover` | 3 chunks, map of 2, window 1 | **violated**: requests are left in the map although all answers came |
| `GrpcStream_join` | 3 chunks, map of 2, window 1 | **violated**: `join` may wait for ever |
| `TcpBenchmark_run` | 2 clients, 2 chunks | `StreamInStep`, `FailureHasCause`, `OkMeansReadVerified`, the contract; clients and sessions end |
| `TcpBenchmark_eof` | 1 client, 2 chunks | **violated**: a short read sets the end-of-file flag before the end of the file |
| `GoBenchmark_run` | 3 chunks, deadline of 3 ticks | `StreamInStep`, `FailureHasCause`, the contract; the client ends even with a server that never runs, and the goroutine returns if it runs |
| `GoBenchmark_deadline` | the same | **violated**: a call that waited less than the timeout times out |
| `CapnpBenchmark_run` | 2 clients, 2 chunks | `NoSilentFailure`, the contract; clients and connections end |
| `CapnpBenchmark_results` | the same | **violated**: the files of a successful run without a verified file |
| `BenchmarkRuns_run` | each of the 4 clients, files of 0, 2, 3, 4, 6 and 10 bytes, chunks of 3, map of 2 | `EndTestsSound`, `NothingSkipped`, `SummaryTruthful`, `PairFromOneRun`, `CountsBalanced`; a run ends, or hangs as in `GrpcStream_join` |
| `TestFile_shared` | 3 clients, 2 blocks, symmetric | `QuietFileIsWhole`, `UndisturbedReadsAll` |
| `TestFile_remove` | 2 clients, 2 blocks | **violated**: the "old file" removed may be another client's complete one |

### What the violated runs show

Each refutes a sentence of the source, quoted in `PROJECT.json`:

1. *Leftover.* `Write(request)` returns, the answer arrives and is looked up, and
   only then does the writer insert the request. The answer is dropped as an
   orphan and the request stays in the map. (`NoSilentFailure`, which holds, says that this is at least always logged.)
2. *Join.* Enough leftovers fill the map; when the Read loop has ended, nobody
   erases entries any more and the writer's predicate looks at the size of the
   map alone. The reader is in `join`, the deadline does not help.
   `EndsOrHangs` shows that this is the only way in which a run does not end.
3. *End of file.* A read that fails part-way through a chunk returns some of its
   bytes, and `m_eof` is set because they are fewer than a chunk, in the middle of
   the file.
4. *Deadline.* The deadlines of the Go client are points in time set once.
5. *Results.* `break` out of the verification loop leads to the path of success.
6. *Remove.* A client reads the size of a file another one is generating, and
   removes it by its name when the other has finished it. The other finds no file
   at its second check and aborts. (`QuietFileIsWhole`, which holds, says that the
   file is whole nevertheless once everybody has finished.)

### Bounds, and why they are enough

* A map of four entries, a window of two, six chunks: the writer can have five
  chunks under way, just what the two directions of the stream and the handler's
  hand hold together, so that all three parties can be blocked at once. The map
  fills, empties and refills, and the last chunk is not the one that finds
  it full. With one orphan the other slots still work; with four the map is full
  of leaked entries. The two violated runs need no more than a map of two.
* Two clients for the servers that serve all clients from one loop: one to
  disturb, one to be disturbed. Two chunks: one is the first, one the last.
* The Go deadline of three ticks can pass before, between and during any of the
  calls for three chunks, and lets a call begin after a tick.
* Three clients on the test file: two whose generations overlap and one that is
  killed before them, or starts after them. Two blocks are a first and a last
  one, so that a hole is possible; the file left by earlier runs has any size from
  nothing to one block too many. Clients are interchangeable and only safety is
  checked, so symmetry is sound.
* Whole runs: sizes of nothing, less than a chunk, one and two chunks, one byte
  more than one and than three chunks, which are the cases in which a division, a
  flag and a count of bytes could disagree: with the two sizes of whole chunks the
  C++ TCP client's count says the end and its flag does not, which
  `EndTestsSound` states. A chunk of three bytes needs a swap
  and has a middle. Counters stay below `Modulus`, 64, unless a subtraction wraps:
  `WidthAssumption` says that the bytes of a file and of the headers sent with it can
  be counted in a `size_t`, which 10 GB in 64 bits can.
  One run is enough because a run sees of the others only the files it finds,
  which are `"old"` all of them.
* Header and payload are bytes, so that framing that loses step is visible. A
  full chunk is two bytes and `MaxBody`, the limit `CHUNK_SIZE * 2`, is four.

`CHECK_DEADLOCK` is on in every run: `Ended` stutters when the clients have ended,
and every other state must have a successor.

### Fairness

* `GrpcStream!LiveSpec`: the operating system schedules both threads of the
  client and the server's thread (weak fairness of each thread's steps). Faults
  (exceptions, failed reads, spurious wakeups, broken calls) are not fair. A
  writer that sleeps with a full map has no enabled step, so its wakeup is not
  assumed: it has to come from `ReaderNotifies`.
* `Deadline`, the weak fairness of `CallBreaks`, says that the deadline, which the
  client always sets, passes in the end. `EndsOrHangs` and `HandlerReturns` assume
  it in the formula and `CleanRunSucceeds` does not; `TimedSpec`, used by
  `GrpcStream_join`, is `LiveSpec` with it.
* `TcpBenchmark` and `CapnpBenchmark`: each event loop runs the handlers that
  are ready (weak fairness per client and per session). A peer that is alive and
  silent, or a partition that never shows as a reset, is not among the
  behaviours: the code has no timeout against it, and no client of these two
  would end then.
* `GoBenchmark`: the client runs and time passes; `ClientEnds` assumes nothing of
  the server, because of the deadline. `GoroutineReturns` assumes in its formula
  that the server runs.

* `BenchmarkRuns`: the client takes its next step in the end (weak fairness of
  `ClientStep`), which for a call means that it is answered or fails. For gRPC and
  Go the deadlines justify it; for the other two it holds of peers that are not
  alive and silent, as above. A gRPC client in `join` behind a writer that waits
  for ever is `"hung"`, and `RunsEnd` names that case.

## Proofs

Every safety property of a run that passes is the conclusion of a theorem, for every
value of the constants that the named assumptions allow: any number of chunks, clients,
blocks, any window, bound of the map, deadline, size of the file and of a chunk. All
of them, and the four refinements, go the same way: an inductive invariant, found
with TLC on the instances above, a lemma for each action or group of actions that
disturbs the same conjuncts, and a temporal step that combines them. None of the
properties is inductive as it stands but for a few; what follows says what had to be
added and why.

### gRPC: `GrpcStreamProofs`

For all `NumChunks`, `MaxInflight`, `Window` in `Nat \ {0}`:

| Theorem | Property |
|---|---|
| `TypeCorrectness` | `TypeOK` |
| `MapIsBounded` | `MapBounded` |
| `WakeupsAreKept` | `NoLostWakeup` |
| `ScopeOutlivesWriter` | `NoUseAfterScope`, which is proved and not checked by a run of its own |
| `OnlyTheLastIsOrphaned` | `OrphanIsUnregistered` |
| `BlameIsHalfInserted` | `BlameMeansHalfInserted` |
| `SuccessIsTrue` | `SuccessMeansVerified` |
| `FailureIsLogged` | `NoSilentFailure` |
| `ResponsesInOrder` | `ReadInOrder`, an action property |
| `ImplementsEcho` | `EchoSpec`: every step of the model is a step of the contract or a stutter |

All follow from `Invariance`, the inductive invariant `IInv`, which adds:

* `InStep`: the pipeline. The numbers in the request queue, in the handler's
  hand, in the answer queue and in `resp` are consecutive and end at `sent`, and
  the data of each is that of its number. This is why an answer is the next one,
  and why its data matches.
* `Slots`: between the test for room and the insertion the map is smaller than
  its bound. Only the writer inserts, so the reader can only help.
* `Registered`: every request before the last, and the last outside the windows
  between `Write` and insertion, was inserted; with it, a lookup can miss only
  the last.
* `Faithful`: what the map holds under an id, and the reader's copy of it, is the
  chunk of that id, or nothing if its insertion was cut short; only the last request
  can be (`HalfInserted`). A response is therefore never compared with another
  chunk, and a blame comes from such an entry.
* `Joined`: once the reader is past `join` the writer has ended.
* `Counted`, `Erased`, `Blamed`: what the counters of verified chunks, the map
  and the error log say of each other, which is what a verdict of success rests
  on: if every answer was verified, each found its entry, so nothing is left in
  the map and nothing was logged.
* `Accounted`: a stream that broke has left an error in the log or a call that is
  cancelled, for which `Finish` will log one. The entry that two unsynchronised
  `log_error`s may lose is one of two, and the other stays.

### Framing: `FramingProofs`

* `HeaderKeepsLength`: the header of four bytes carries a length modulo 2^32, so
  that what reads it gets what `prepare_message` and `WriteMessage` put in for every
  body below 4 GB. Nothing of it rests on the small bodies of the instances.

The lemmas after it say what reading exactly n bytes does to a stream that holds a
header, a frame or a body, and what a chunk and its reversal are.

### Go: `GoBenchmarkProofs`

For all `NumChunks` and `Timeout` in `Nat \ {0}`: `TypeCorrectness`; `InStep`
(`StreamInStep`); `FailuresHaveCauses` (`FailureHasCause`); `ImplementsEcho`
(`EchoSpec`). `StreamInStep` is about what lies on the stream where an end reads it,
so that it says nothing of the bytes before they get there. `IInv` adds:

* `Conversation`: with both ends there and the connection whole, one message is
  under way, and the place of each end says which and how much of it is on the
  stream. Client and goroutine alternate; this is where that is said.
* `Remains`: what is left of it when one end is gone, a deadline has passed or the
  connection is reset, where the alternation no longer holds and the other end may
  still read what was sent.
* `Ends`: which of the ends has closed; `Counting`: the loop over the chunks;
  `waited <= clock`: a call has waited at most since the connection was made, which
  is why `waited` stays within `Timeout` although only `clock` stops there.

### C++ TCP: `TcpBenchmarkProofs`

For every set of clients and every `NumChunks`: `TypeCorrectness`; `InStep`
(`StreamInStep`); `FailuresHaveCauses` (`FailureHasCause`, whose parts are
`ErrorHasCause` for a client and `SuccessHarmsNobody` for the server); `OkIsVerified` (`OkMeansReadVerified`); `ImplementsEcho`
(`EchoSpec`, of every client). The
invariant is a conjunction over the clients and one conjunct of the server's:

* `Conversation` and `Streams` are as in the Go proof, but for writes that put the
  whole frame on the stream before their handler runs: an answer can lie there
  while the client is still in `"write"`.
* `Counting`: the chunk under way is the next one (`FullSent`), or the part a
  failing read got (`PartSent`), after which the end-of-file flag is up.
* `Blame`: who is responsible for an end without success and for a reset
  connection. `SuccessHarmsNobody` is the one conjunct that is not a client's: one client's
  connection takes the server down for all, so that every step of a client must keep
  the cause of a crash that another one's session may have.

### Cap'n Proto: `CapnpBenchmarkProofs`

For every set of clients and every `NumChunks`: `TypeCorrectness`;
`NoFailureIsSilent` (`NoSilentFailure`); `FaultsAreLocal` (`FaultsStayLocal`, which has no run of its own);
`ImplementsEcho` (`EchoSpec`). `Conversation` ties a call or a reply under way to the
place of its client and the chunk in its hand, across the disconnections that drop
one of them, so that an answer is always the one to the client's last call; `Counting`
and `Blame` are as above, with the files written at each of the ways out of `main`.

### Test file: `TestFileProofs`

For every set of clients and any number of blocks: `TypeCorrectness`;
`GenerationsEndWhole` (`QuietFileIsWhole`); `UndisturbedAreServed`
(`UndisturbedReadsAll`). The one assumption besides `NumBlocks \in Nat \ {0}`,
`NamesAssumption`, is that no client is called `"none"` or `"old"`. `IInv` adds:

* `Sound`: somebody has been cut short, or the name stands for a whole file, or some
  client is about to truncate it or is generating it with nothing missing so far
  (`Generates`), or nobody has done anything yet (`Untouched`). Of overlapping
  generations the one that truncated last has no holes, and it is enough that there
  is one. The disjuncts are why the property can speak of the end only.
* `Undisturbed`: what a client that nobody disturbed knows at each of its places,
  from the first block it writes to the size it reads to.
* `Places`: which of the three code bases can be where.

The size of a file is a maximum, and that a set of blocks has one is shown with
`NatLessThanWellFounded`, a least counterexample, because induction is out of reach.

### Reversal: `ReversalProofs`

For slices of any length over any set `Element`:

* `ReversalIsCorrect`: `Spec => []LoopReverses`. The loop invariant `LoopInv` says
  that the indices are symmetric (`i + j = Len(orig) + 1`), that what lies outside
  them has been exchanged and that what lies between them is as it was; when they
  meet, nothing is between them but a middle that is its own mirror image. Without
  the part about the middle a swap could not be shown to move the right bytes.

### Whole runs: `BenchmarkRunsProofs`

For any set of file sizes, any chunk size, map, header and width of `size_t` that
`WidthAssumption` allows, and whatever cuts the run short:

| Theorem | States |
|---|---|
| `CountMeansEnd` | a client that has verified as many full chunks as the reader counted, the last one possibly short, has verified the whole file, and no fewer will do: the count of `TCPClient::send_next_chunk` is the end of the file |
| `TotalsAgree` | the C++ ceiling division and the Go remainder test count alike |
| `ResultsFromOneRun` | `PairFromOneRun` |
| `TypeCorrectness` | `TypeOK` |
| `TestsAreSound` | `EndTestsSound` |
| `NothingIsSkipped` | `NothingSkipped` |
| `SummaryTellsTheTruth` | `SummaryTruthful` |
| `FiguresBalance` | `CountsBalanced` |

The first two rest on three lemmas on quotients, because the SMT solver does not know
that a quotient by a variable is determined by its bounds.

`ResultsFromOneRun` has an invariant of its own, `IInv`. The property speaks of ended
runs only; `Stage` says how far the two files are at each place of `main`: both old
until `main` saves (which is why every step of the transfer, whichever pair it
chooses, is one lemma), the summary torn or new (`SummaryLeft`), the RTTs after it
(`DetailLeft`). `Places` says that only the Go client reaches its flush, where its
summary is still torn. `Types` has no bounds, because they depend on the rest.

The last five theorems follow from `FInv`, shown inductive together with `IInv`:

* `Buffers` and `Figures`: the bounds of `TypeOK`. That no counter passes its width
  needs that bytes are counted once and headers once per chunk, and `WidthAssumption`.
* `Rounded`: all chunks but the last are full, unless a read of the Go client
  returned less; so `count` is the rounded-up quotient of `pos`.
* `EndKnown`: what the reader's flag and its total say of the bytes that are left,
  before and after a cut. `FlagKnown` in it is the flag of the C++ TCP reader: in a file
  that is not empty and not cut it is set by a chunk that is not full and by nothing
  else, so that a file of whole chunks ends without it.
* `InHand`: the chunk in hand and the chunks in the map are consecutive pieces of the
  file, from `Front`, the first unanswered byte, to the reader's place. It includes
  `LoopInv` of `ReversalProofs`, instantiated with the chunk and the buffer in which
  it is reversed, so that a finished loop holds the reversal the answer is compared with.
* `Progress`: what has been verified, against the counters. For the three clients that
  wait for each answer this is `OneByOne`, an equation per counter. The gRPC client
  goes on after a wrong answer and may have dropped an orphan, so that `Pipelined` has
  equations as long as no error was logged and inequalities after that.
* `Saved`: what the steps that save need, since the counters are read after the
  transfer is over: that the figures balance, that a flawless summary is true, and
  that an undisturbed run is flawless.

### What is only model-checked

* All liveness: `EndsOrHangs`, `HandlerReturns`, `CleanRunSucceeds`, `ClientsEnd`,
  `SessionsEnd`, `ClientEnds`, `GoroutineReturns`, `RunsEnd`. Fairness and `ENABLED`
  are beyond the prover.
* The six violated properties: a counterexample is their result.
* That what recursive definitions compute is right for every input would need
  induction over data. No theorem speaks of one: reversals are functions on indices
  or, like the loop of `Reversal`, steps of a state machine.

## Plan

Done: all components modelled and checked; every safety property of a passing run
and the four refinements proved.

Next:

1. Action properties, with the invariants that are there: a pair of result files is
   truncated at most once in a run and verified bytes are never taken back
   (`BenchmarkRuns`); a session never answers a chunk twice (`TcpBenchmark`,
   `CapnpBenchmark`).
2. Which states the two hanging runs of the gRPC client are in: that a writer behind
   a `join` is there with a map full of leaked entries, as an invariant of its own.
3. Shorter proofs where lemmas of `TcpBenchmarkProofs` and `CapnpBenchmarkProofs` say
   the same of a chunk under way.

## Not modelled

* `mat.py`, a script about differential equations that shares nothing with the
  benchmarks; the documents, the build files: no behaviour to check.
* Console output, CSV layout, the sampling of CPU time and memory, statistics in
  floating point.
* Operations nobody calls: `reset` and `remaining_bytes` of the common reader,
  `record_chunk_processed` of the C++ TCP aggregator.
* Two clients of one kind that save their results in one directory at the same
  time; `BenchmarkRuns` has one run after another.
* Code generated from `benchmark.proto` and `benchmark.capnp`, and the libraries
  gRPC, KJ, Boost.Asio and Go's `net`: only through how the code uses them.
* Allocation failures outside the gRPC client.
* An `Accept` of the Go server that fails and is retried: it changes no state, and
  to the model it is a server that has not accepted yet, for ever if need be.
