----------------------------- MODULE ChunkReaders -----------------------------
(* The readers that cut the test file into chunks: the one the gRPC and the   *)
(* Cap'n Proto clients share, that of the C++ TCP client and that of the Go   *)
(* client. They differ in how they tell the end of the file.                  *)
EXTENDS Integers

CONSTANTS ChunkSize

ASSUME ChunkSizeAssumption == ChunkSize \in Nat \ {0}

Codes == {"grpc", "capnp", "tcp", "go"}

(* A reader: the size and the chunks of the file it was opened on, the bytes  *)
(* and the chunks returned, and its end-of-file flag.                         *)
Readers(maxSize) ==
  [size : 0..maxSize, total : 0..maxSize, pos : 0..maxSize, count : 0..maxSize,
   eof : BOOLEAN]

(* Mutant: the division is rounded down.                                      *)
TotalChunks_Floor(bytes) == bytes \div ChunkSize

(* Ceiling division, for an empty file as well.                               *)
TotalChunks(bytes) == (bytes + ChunkSize - 1) \div ChunkSize

(* The Go client counts the remainder on its own.                             *)
GoTotalChunks(bytes) ==
  IF bytes % ChunkSize # 0 THEN bytes \div ChunkSize + 1 ELSE bytes \div ChunkSize

(* The constructors; the common reader does not count chunks.                 *)
Opened(code, bytes) ==
  [size |-> bytes,
   total |-> CASE code = "tcp" -> TotalChunks(bytes)
               [] code = "go" -> GoTotalChunks(bytes)
               [] OTHER -> 0,
   pos |-> 0, count |-> 0,
   eof |-> code = "tcp" /\ bytes = 0]

(* Mutant: the buffer keeps its size, whatever was read.                      *)
Reads_WholeBuffer(code, r, avail) == {IF avail > r.pos THEN ChunkSize ELSE 0}

(* How many bytes a read may find, when the file has the first avail bytes    *)
(* left: a whole chunk, unless the file ends before. Only os.File.Read may    *)
(* return fewer for no reason.                                                *)
Reads(code, r, avail) ==
  LET left == IF avail > r.pos THEN avail - r.pos ELSE 0
      full == IF left < ChunkSize THEN left ELSE ChunkSize
  IN  IF code = "go" /\ full > 0 THEN 1..full ELSE {full}

(* Mutant: the bytes are counted by whole chunks.                             *)
After_AddsChunkSize(code, r, n) ==
  [r EXCEPT !.pos = IF n > 0 THEN @ + ChunkSize ELSE @,
            !.count = IF n > 0 THEN @ + 1 ELSE @,
            !.eof = \/ @ \/ n = 0
                    \/ code = "tcp" /\ n < ChunkSize
                    \/ code = "go" /\ r.pos + n >= r.size]

(* The reader when a read has found n bytes. The flag is set by an empty read *)
(* in all of them; in that of C++ TCP also by a chunk that is not full, in    *)
(* that of Go by the byte that reaches the size.                              *)
After(code, r, n) ==
  [r EXCEPT !.pos = @ + n,
            !.count = IF n > 0 THEN @ + 1 ELSE @,
            !.eof = \/ @ \/ n = 0
                    \/ code = "tcp" /\ n < ChunkSize
                    \/ code = "go" /\ r.pos + n >= r.size]

(* What eof() says: the flag, in the common reader also the bytes returned.   *)
Eof(code, r) == r.eof \/ (code \in {"grpc", "capnp"} /\ r.pos >= r.size)
=============================================================================
