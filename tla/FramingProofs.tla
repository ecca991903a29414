----------------------------- MODULE FramingProofs -----------------------------
(* What the proofs about the TCP benchmarks need of chunks, of frames and of  *)
(* the bytes of a stream; those about Cap'n Proto use the part about chunks.  *)
EXTENDS Chunks, TcpFraming, SequenceTheorems, TLAPS

MaxLength == 65536 * 65536 - 1   \* of a payload: the largest uint32

(* A header is four bytes, and the number that is read from it is the length  *)
(* it was made of, as a uint32: prepare_message and async_read_header,        *)
(* WriteMessage and ReadMessage.                                              *)
THEOREM HeaderKeepsLength ==
  ASSUME NEW n \in Nat
  PROVE  /\ Header(n) \in Seq(0..255) /\ Len(Header(n)) = HeaderSize
         /\ ParseHeader(Header(n)) = n % (MaxLength + 1)
<1> DEFINE a == n \div 256
           b == n \div 65536
           c == n \div 16777216
<1>1. a \in Nat /\ b \in Nat /\ c \in Nat
  BY SMT
<1>2. /\ n % 256 \in 0..255 /\ a % 256 \in 0..255 /\ b % 256 \in 0..255
      /\ c % 256 \in 0..255
  BY <1>1, SMT
<1>3. /\ n = 256 * a + (n % 256) /\ a = 256 * b + (a % 256)
      /\ b = 256 * c + (b % 256)
  BY <1>1, SMT
<1>4. n % (65536 * 65536) = 16777216 * (c % 256) + 65536 * (b % 256) + 256 * (a % 256) + (n % 256)
  BY <1>1, <1>3, SMT
<1>5. Header(n) = <<c % 256, b % 256, a % 256, n % 256>>
  BY SMT DEF Header
<1> HIDE DEF a, b, c
<1>6. Header(n) \in Seq(0..255) /\ Len(Header(n)) = HeaderSize
  BY <1>2, <1>5, SMT DEF HeaderSize
<1>7. ParseHeader(Header(n)) =
        16777216 * (c % 256) + 65536 * (b % 256) + 256 * (a % 256) + (n % 256)
  BY <1>5, SMT DEF ParseHeader
<1>8. QED
  BY <1>4, <1>6, <1>7, SMT DEF MaxLength

(* The length of a payload is shorter than that.                              *)
LEMMA SmallHeader ==
  ASSUME NEW n \in Nat, n <= MaxLength
  PROVE  /\ Header(n) \in Seq(Nat) /\ Len(Header(n)) = HeaderSize
         /\ ParseHeader(Header(n)) = n
<1>1. n % (MaxLength + 1) = n
  BY SMT DEF MaxLength
<1>2. 0..255 \subseteq Nat
  OBVIOUS
<1>3. QED
  BY <1>1, <1>2, HeaderKeepsLength, SeqMonotonic

(* What is written first is read first, and what is left is the rest.         *)
LEMMA ReadsWhatWasWritten ==
  ASSUME NEW s \in Seq(Nat), NEW t \in Seq(Nat)
  PROVE  FirstBytes(s \o t, Len(s)) = s /\ WithoutFirst(s \o t, Len(s)) = t
<1>1. /\ s \o t \in Seq(Nat) /\ Len(s \o t) = Len(s) + Len(t)
      /\ \A i \in 1..Len(s) + Len(t) :
           (s \o t)[i] = IF i <= Len(s) THEN s[i] ELSE t[i - Len(s)]
      /\ Len(s) \in Nat /\ Len(t) \in Nat
  BY ConcatProperties, LenProperties
<1>2. FirstBytes(s \o t, Len(s)) = s
  <2> DEFINE f == SubSeq(s \o t, 1, Len(s))
  <2>1. \A i \in 1..Len(s) : (s \o t)[i] \in Nat
    BY <1>1
  <2>2. /\ f \in Seq(Nat) /\ Len(f) = Len(s)
        /\ \A i \in 1..Len(s) : f[i] = (s \o t)[i]
    BY <1>1, <2>1
  <2>3. QED
    BY <1>1, <2>2, SeqEqual DEF FirstBytes
<1>3. WithoutFirst(s \o t, Len(s)) = t
  <2> DEFINE w == SubSeq(s \o t, Len(s) + 1, Len(s) + Len(t))
  <2>1. \A i \in Len(s) + 1..Len(s) + Len(t) : (s \o t)[i] \in Nat
    BY <1>1
  <2>2. /\ w \in Seq(Nat) /\ Len(w) = Len(t)
        /\ \A i \in 1..Len(t) : w[i] = (s \o t)[Len(s) + i]
    BY <1>1, <2>1
  <2>3. \A i \in 1..Len(t) : w[i] = t[i]
    BY <1>1, <2>2
  <2>4. QED
    BY <1>1, <2>2, <2>3, SeqEqual DEF WithoutFirst
<1>4. QED
  BY <1>2, <1>3

LEMMA ReadsWhole ==
  ASSUME NEW s \in Seq(Nat)
  PROVE  FirstBytes(s, Len(s)) = s /\ WithoutFirst(s, Len(s)) = << >>
<1>1. s \o << >> = s /\ << >> \in Seq(Nat)
  BY ConcatEmptySeq
<1>2. QED
  BY <1>1, ReadsWhatWasWritten

(* Whatever is read, it leaves a stream of bytes.                             *)
LEMMA ReadsBytes ==
  ASSUME NEW s \in Seq(Nat), NEW n \in Nat, HasBytes(s, n)
  PROVE  /\ FirstBytes(s, n) \in Seq(Nat) /\ Len(FirstBytes(s, n)) = n
         /\ WithoutFirst(s, n) \in Seq(Nat)
<1>1. Len(s) \in Nat /\ n <= Len(s) /\ \A i \in 1..Len(s) : s[i] \in Nat
  BY LenProperties, ElementOfSeq DEF HasBytes
<1>2. /\ SubSeq(s, 1, n) \in Seq(Nat) /\ Len(SubSeq(s, 1, n)) = n
  BY <1>1
<1>3. SubSeq(s, n + 1, Len(s)) \in Seq(Nat)
  BY <1>1
<1>4. QED
  BY <1>2, <1>3 DEF FirstBytes, WithoutFirst

(* reverse_bytes keeps the length and yields bytes of its input.              *)
LEMMA ReversedType ==
  ASSUME NEW data \in Seq(Nat)
  PROVE  Reversed(data) \in Seq(Nat) /\ Len(Reversed(data)) = Len(data)
<1>1. Len(data) \in Nat /\ \A i \in 1..Len(data) : data[i] \in Nat
  BY LenProperties, ElementOfSeq
<1>2. \A i \in 1..Len(data) : Len(data) + 1 - i \in 1..Len(data)
  BY <1>1
<1>3. \A i \in 1..Len(data) : data[Len(data) + 1 - i] \in Nat
  BY <1>1, <1>2
<1>4. QED
  BY <1>1, <1>3 DEF Reversed

(* A frame is a header and its payload.                                       *)
LEMMA FrameParts ==
  ASSUME NEW p \in Seq(Nat), Len(p) <= MaxLength
  PROVE  /\ Frame(p) \in Seq(Nat) /\ Len(Frame(p)) = HeaderSize + Len(p)
         /\ FirstBytes(Frame(p), HeaderSize) = Header(Len(p))
         /\ WithoutFirst(Frame(p), HeaderSize) = p
         /\ ParseHeader(FirstBytes(Frame(p), HeaderSize)) = Len(p)
<1>1. Len(p) \in Nat
  BY LenProperties
<1>2. Header(Len(p)) \in Seq(Nat) /\ Len(Header(Len(p))) = HeaderSize
  BY <1>1, SmallHeader
<1>3. QED
  BY <1>1, <1>2, SmallHeader, ReadsWhatWasWritten, ConcatProperties DEF Frame

(* Any four bytes are a length.                                               *)
LEMMA ParsedNumber ==
  ASSUME NEW h \in [1..4 -> Nat]
  PROVE  ParseHeader(h) \in Nat
  BY SMT DEF ParseHeader

LEMMA ParsedLength ==
  ASSUME NEW h \in Seq(Nat), Len(h) = HeaderSize
  PROVE  ParseHeader(h) \in Nat
<1>1. h \in [1..4 -> Nat]
  BY LenProperties DEF HeaderSize
<1>2. QED
  BY <1>1, ParsedNumber

LEMMA HeaderType ==
  ASSUME NEW n \in Nat
  PROVE  Header(n) \in Seq(Nat)
<1>1. 0..255 \subseteq Nat
  OBVIOUS
<1>2. QED
  BY <1>1, HeaderKeepsLength, SeqMonotonic

-----------------------------------------------------------------------------
(* The data of the chunk under way: lengths and types, which tell the bytes   *)
(* of a payload, of its header and of their frame apart.                      *)
LEMMA ChunkData ==
  ASSUME NEW n \in Nat
  PROVE  /\ Payload(n) \in Seq(Nat) /\ Len(Payload(n)) = 2
         /\ Reversed(Payload(n)) \in Seq(Nat) /\ Len(Reversed(Payload(n))) = 2
         /\ Header(2) \in Seq(Nat) /\ Len(Header(2)) = HeaderSize
         /\ ParseHeader(Header(2)) = 2
<1>1. Payload(n) \in Seq(Nat) /\ Len(Payload(n)) = 2
  BY DEF Payload
<1>2. 2 <= MaxLength
  BY SMT DEF MaxLength
<1>3. QED
  BY <1>1, <1>2, ReversedType, SmallHeader

LEMMA FrameData ==
  ASSUME NEW p \in Seq(Nat), Len(p) = 2
  PROVE  /\ Frame(p) = Header(2) \o p
         /\ Frame(p) \in Seq(Nat) /\ Len(Frame(p)) = HeaderSize + 2
         /\ FirstBytes(Frame(p), HeaderSize) = Header(2)
         /\ WithoutFirst(Frame(p), HeaderSize) = p
         /\ FirstBytes(p, 2) = p /\ WithoutFirst(p, 2) = << >>
<1>1. 2 <= MaxLength
  BY SMT DEF MaxLength
<1>2. QED
  BY <1>1, FrameParts, ReadsWhole DEF Frame

LEMMA HeaderData ==
  /\ FirstBytes(Header(2), HeaderSize) = Header(2)
  /\ WithoutFirst(Header(2), HeaderSize) = << >>
<1>1. Header(2) \in Seq(Nat) /\ Len(Header(2)) = HeaderSize
  BY ChunkData
<1>2. QED
  BY <1>1, ReadsWhole

(* The same at a glance: a chunk, its header and its frame can be told apart  *)
(* by their lengths, and each can be read as it was written.                  *)
ChunkBytes(p) ==
  /\ p \in Seq(Nat) /\ Len(p) = 2
  /\ Frame(p) \in Seq(Nat) /\ Len(Frame(p)) = 6
  /\ Frame(p) = Header(2) \o p
  /\ FirstBytes(Frame(p), 4) = Header(2) /\ WithoutFirst(Frame(p), 4) = p
  /\ FirstBytes(p, 2) = p /\ WithoutFirst(p, 2) = << >>
  /\ p # << >> /\ Frame(p) # << >> /\ Frame(p) # Header(2)
HeaderBytes ==
  /\ Header(2) \in Seq(Nat) /\ Len(Header(2)) = 4 /\ ParseHeader(Header(2)) = 2
  /\ FirstBytes(Header(2), 4) = Header(2) /\ WithoutFirst(Header(2), 4) = << >>
  /\ Header(2) # << >>

LEMMA Apart ==
  ASSUME NEW s, NEW t, Len(s) # Len(t)
  PROVE  s # t
OBVIOUS

LEMMA NotEmpty ==
  /\ Len(<< >>) = 0
  /\ \A s : Len(s) \in 1..2 => s # << >>
<1>1. Len(<< >>) = 0 /\ 0 \notin 1..2
  OBVIOUS
<1>2. QED
  BY <1>1, Zenon

LEMMA AnyBytes ==
  ASSUME NEW p \in Seq(Nat), Len(p) = 2
  PROVE  ChunkBytes(p) /\ HeaderBytes
<1>1. HeaderSize = 4 /\ HeaderSize + 2 = 6
  BY DEF HeaderSize
<1>2. Len(Frame(p)) = 6 /\ Len(Header(2)) = 4
  BY <1>1, ChunkData, FrameData
<1>3. p # << >> /\ Frame(p) # << >> /\ Frame(p) # Header(2) /\ Header(2) # << >>
  <2>0. Len(<< >>) = 0 /\ 2 # 0 /\ 4 # 0 /\ 6 # 0
    BY NotEmpty
  <2>1. Len(p) # Len(<< >>)
    BY <2>0, Zenon
  <2>2. Len(Frame(p)) # Len(<< >>) /\ Len(Header(2)) # Len(<< >>)
    BY <1>2, <2>0, Zenon
  <2>3. Len(Frame(p)) # Len(Header(2))
    <3>1. 6 # 4
      OBVIOUS
    <3>2. QED
      BY <1>2, <3>1, Zenon
  <2>4. QED
    BY <2>1, <2>2, <2>3, Apart
<1>4. QED
  BY <1>1, <1>2, <1>3, ChunkData, FrameData, HeaderData DEF ChunkBytes, HeaderBytes

LEMMA UnderWayBytes ==
  ASSUME NEW n \in Nat
  PROVE  ChunkBytes(Payload(n)) /\ ChunkBytes(Reversed(Payload(n))) /\ HeaderBytes
  BY ChunkData, AnyBytes

(* A chunk of one byte or two and its frame, at a glance.                     *)
FrameBytes(p) ==
  /\ p \in Seq(Nat) /\ Len(p) \in Nat /\ p # << >>
  /\ Frame(p) \in Seq(Nat) /\ Frame(p) # << >> /\ HasBytes(Frame(p), HeaderSize)
  /\ ParseHeader(FirstBytes(Frame(p), HeaderSize)) = Len(p)
  /\ WithoutFirst(Frame(p), HeaderSize) = p
  /\ FirstBytes(p, Len(p)) = p /\ WithoutFirst(p, Len(p)) = << >>
  /\ << >> \o Frame(p) = Frame(p)

LEMMA Framed ==
  ASSUME NEW p \in Seq(Nat), Len(p) \in 1..2
  PROVE  FrameBytes(p) /\ FrameBytes(Reversed(p)) /\ Len(Reversed(p)) = Len(p)
<1>1. ASSUME NEW q \in Seq(Nat), Len(q) \in 1..2
      PROVE  FrameBytes(q)
  <2>1. Len(q) \in Nat /\ Len(q) <= MaxLength
    <3>1. 2 <= MaxLength /\ MaxLength \in Nat
      BY SMT DEF MaxLength
    <3>2. \A n \in 1..2 : n \in Nat /\ n <= MaxLength
      BY ONLY <3>1
    <3>3. QED
      BY <1>1, <3>2, Zenon
  <2>2. /\ Frame(q) \in Seq(Nat) /\ Len(Frame(q)) = HeaderSize + Len(q)
        /\ WithoutFirst(Frame(q), HeaderSize) = q
        /\ ParseHeader(FirstBytes(Frame(q), HeaderSize)) = Len(q)
        /\ FirstBytes(q, Len(q)) = q /\ WithoutFirst(q, Len(q)) = << >>
    BY <1>1, <2>1, FrameParts, ReadsWhole
  <2>3. HasBytes(Frame(q), HeaderSize) /\ Len(Frame(q)) # 0
    BY <2>1, <2>2 DEF HasBytes, HeaderSize
  <2>4. q # << >> /\ Frame(q) # << >>
    BY <1>1, <2>3, NotEmpty, Zenon
  <2>5. << >> \o Frame(q) = Frame(q)
    BY <2>2, ConcatEmptySeq
  <2>6. QED
    BY <2>1, <2>2, <2>3, <2>4, <2>5 DEF FrameBytes
<1>2. QED
  BY <1>1, ReversedType

(* Nothing is no header.                                                      *)
LEMMA NoHeader == ~HasBytes(<< >>, HeaderSize)
BY DEF HasBytes, HeaderSize
==============================================================================
