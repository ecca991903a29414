----------------------------- MODULE TcpFraming -----------------------------
(* The framing that the C++ and the Go TCP benchmarks share: a message is its *)
(* payload behind a header of four bytes, the payload's length as a uint32 in *)
(* network byte order. A direction of a TCP connection is a sequence of       *)
(* bytes, so that a reader out of step with its writer would show.            *)
EXTENDS Integers, Sequences

HeaderSize == 4

(* static_cast<uint32_t>, then the four bytes, the most significant first.    *)
Header(length) ==
  <<(length \div 16777216) % 256, (length \div 65536) % 256,
    (length \div 256) % 256, length % 256>>

(* The number back from the four bytes.                                       *)
ParseHeader(h) == 16777216 * h[1] + 65536 * h[2] + 256 * h[3] + h[4]

(* prepare_message and WriteMessage.                                          *)
Frame(payload) == Header(Len(payload)) \o payload

(* async_read and io.ReadFull wait for exactly n bytes...                     *)
HasBytes(stream, n) == Len(stream) >= n

(* ... and take them off the stream.                                          *)
FirstBytes(stream, n) == SubSeq(stream, 1, n)

(* Mutant: a reader that takes one byte too few.                              *)
WithoutFirst_KeepsLast(stream, n) == SubSeq(stream, n, Len(stream))

WithoutFirst(stream, n) == SubSeq(stream, n + 1, Len(stream))
=============================================================================
