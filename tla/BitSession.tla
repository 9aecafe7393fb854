------------------------------ MODULE BitSession ------------------------------
(***************************************************************************)
(* A writer, a size stream that is asked for the same (as callers do to    *)
(* size their buffers), and later a reader of what has arrived: the bit    *)
(* streams in use, over any sequence of items. The properties are those    *)
(* that pack/tests/BitStreamTests.cpp and VarintTests.cpp probe with       *)
(* chosen and random sequences.                                            *)
(***************************************************************************)
EXTENDS Varint

CONSTANTS
  Items,       \* what can be written, see Put
  Buffers,     \* what can be written into
  MaxItems     \* bound: items per session

(* Bytes are bytes, what is coded is an unsigned word, and the ones that   *)
(* the first byte of a prefix integer has room for count the bytes of one. *)
ASSUME BitSessionAssumption ==
  /\ WordBits <= ByteBits * ByteBits
  /\ \A bytes \in Buffers : bytes \in Seq(0..(2^ByteBits - 1))
  /\ \A item \in Items :
       /\ item.kind \in {"bits", "bytes", "align", "require", "varint", "prefix"}
       /\ item.width \in Nat
       /\ IF item.kind = "bytes" THEN item.value \in Seq(0..(2^ByteBits - 1))
          ELSE item.value \in 0..(2^WordBits - 1)

VARIABLES
  buffer,      \* the bytes of the writer before the first item
  writer,
  sizer,
  asked,       \* the items that were written, or should have been
  taken,       \* the position of the writer before the first and after every item it took
  reading,     \* whether the session has come to the reader
  reader,
  received     \* what the reader has returned

vars == <<buffer, writer, sizer, asked, taken, reading, reader, received>>

Put(s, item) ==
  CASE item.kind = "bits"    -> writeBits(s, item.value, item.width)
    [] item.kind = "bytes"   -> writeBytes(s, item.value, item.width)
    [] item.kind = "align"   -> writeAlign(s)
    [] item.kind = "require" -> require(s, item.value = 1, "BadArg")
    [] item.kind = "varint"  -> encodeVarint(s, item.value)
    [] item.kind = "prefix"  -> encodePrefixInt(s, item.value)

(* The templates of Varint.h call bytes of whichever stream they are given. *)
Measure(s, item) ==
  CASE item.kind = "bits"    -> sizeBits(s, item.width)
    [] item.kind = "bytes"   -> sizeBytes(s, Len(item.value), item.width)
    [] item.kind = "align"   -> sizeAlign(s)
    [] item.kind = "require" -> require(s, item.value = 1, "BadArg")
    [] item.kind = "varint"  ->
         LET n == Len(varintBytes(item.value)) IN sizeBytes(s, n, n)
    [] item.kind = "prefix"  ->
         LET n == encodePrefixIntHeader(item.value).extra + 1 IN sizeBytes(s, n, n)

Take(s, item) ==
  CASE item.kind = "bits"    -> readBits(s, item.width)
    [] item.kind = "bytes"   -> readBytes(s, item.width, item.width)
    [] item.kind = "align"   -> Got(readAlign(s), 0)
    [] item.kind = "require" -> Got(require(s, item.value = 1, "BadArg"), item.value)
    [] item.kind = "varint"  -> decodeVarint(s)
    [] item.kind = "prefix"  -> decodePrefixInt(s)

Init ==
  /\ buffer \in Buffers
  /\ writer = WriteStream(buffer)
  /\ sizer = SizeWriteStream
  /\ asked = <<>>
  /\ taken = <<0>>
  /\ reading = FALSE
  /\ reader = ReadStream(<<>>)
  /\ received = <<>>

Write(item) ==
  /\ ~ reading /\ Len(asked) < MaxItems
  /\ writer' = Put(writer, item)
  /\ sizer' = Measure(sizer, item)
  /\ asked' = Append(asked, item)
  /\ taken' = IF ok(writer') THEN Append(taken, writer'.bitPos) ELSE taken
  /\ UNCHANGED <<buffer, reading, reader, received>>

(* The bytes written arrive, or some of them. *)
Arrive(n) ==
  /\ ~ reading
  /\ reading' = TRUE
  /\ reader' = ReadStream(SubSeq(writer.data, 1, n))
  /\ UNCHANGED <<buffer, writer, sizer, asked, taken, received>>

(* The reader asks for the same items in the same order. *)
Read ==
  /\ reading /\ Len(received) + 1 < Len(taken)
  /\ LET got == Take(reader, asked[Len(received) + 1])
     IN  /\ reader' = got.stream
         /\ received' = IF ok(got.stream) THEN Append(received, got.out) ELSE received
  /\ UNCHANGED <<buffer, writer, sizer, asked, taken, reading>>

Next ==
  \/ \E item \in Items : Write(item)
  \/ \E n \in 0..byteSize(writer) : Arrive(n)
  \/ Read

Spec == Init /\ [][Next]_vars

-----------------------------------------------------------------------------
BitAt(bytes, p) == (bytes[(p \div ByteBits) + 1] \div 2^(p % ByteBits)) % 2
ValueOf(item) ==
  CASE item.kind = "bits"  -> item.value % 2^item.width
    [] item.kind = "bytes" -> SubSeq(item.value, 1, item.width)
    [] item.kind = "align" -> 0
    [] OTHER               -> item.value

(* The bits of an item that is not a coded integer, lowest first.          *)
BitsOf(item) ==
  CASE item.kind = "bits"  -> [i \in 1..item.width |-> (item.value \div 2^(i - 1)) % 2]
    [] item.kind = "bytes" ->
         [i \in 1..(ByteBits * item.width) |-> BitAt(item.value, i - 1)]
    [] OTHER               -> [i \in 1..ByteBits |-> 0]

(* Nothing that was written is disturbed by what is written after it, and  *)
(* the buffer behind the position is as it was: WriteStream merges every   *)
(* item into bytes that others share (BitStream.cpp:191-274, 300-312).     *)
WriterHolds ==
  /\ \A i \in 1..(Len(taken) - 1) :
       asked[i].kind \in {"bits", "bytes", "align"} =>
         \A p \in taken[i]..(taken[i + 1] - 1) :
           BitAt(writer.data, p) = BitsOf(asked[i])[p - taken[i] + 1]
  /\ \A p \in writer.bitPos..(Len(buffer) * ByteBits - 1) :
       BitAt(writer.data, p) = BitAt(buffer, p)

(* The size stream needs what the writer needs: a buffer of its size is    *)
(* large enough, a smaller one overflows, and a bad argument is one for    *)
(* both (SizeWriteStream has code of its own, BitStream.cpp:314-401).      *)
SizeTells ==
  CASE writer.streamErr = "Ok"       -> sizer = [bitPos |-> writer.bitPos, streamErr |-> "Ok"]
    [] writer.streamErr = "Overflow" -> sizer.bitPos > Len(buffer) * ByteBits \/ ~ ok(sizer)
    [] writer.streamErr = "BadArg"   -> sizer.streamErr = "BadArg"

(* The reader returns what was written and stays in step with the writer,  *)
(* wherever in a byte an item begins.                                      *)
ReadsBack ==
  /\ \A i \in DOMAIN received : received[i] = ValueOf(asked[i])
  /\ reading /\ ok(reader) => reader.bitPos = taken[Len(received) + 1]

(* It fails exactly at the first item that has not arrived whole, with Eof *)
(* (BitStream.cpp:75-77, 138-141).                                         *)
FailsAtTheCut ==
  reading =>
    /\ reader.streamErr \in {"Ok", "Eof"}
    /\ ok(reader) => taken[Len(received) + 1] <= Len(reader.data) * ByteBits
    /\ ~ ok(reader) => taken[Len(received) + 2] > Len(reader.data) * ByteBits
=============================================================================
