------------------------------ MODULE BitStream ------------------------------
(***************************************************************************)
(* The bit streams of pack (pack/src/BitStream.cpp): values of so many     *)
(* bits, lowest first, and runs of bytes at any bit position. A stream is  *)
(* [data, bitPos, streamErr]; a size stream has no data. The size of a     *)
(* byte and of the word that bytes are shifted in are parameters; in the   *)
(* code they are 8 and 64.                                                 *)
(*                                                                         *)
(* Writers map a stream to a stream, readers to [stream, out].             *)
(***************************************************************************)
EXTENDS Integers, Sequences

CONSTANTS ByteBits, WordBits

ASSUME BitStreamAssumption ==
  /\ ByteBits \in Nat \ {0, 1}    \* one bit of a byte of a varint says that more follow
  /\ WordBits \in Nat /\ WordBits >= 2 * ByteBits

Least(m, n) == IF m < n THEN m ELSE n

(* TLC's integers are too short to show that a word of 64 bits overflows;  *)
(* narrower ones do.                                                       *)
Wrap(u) == IF WordBits < 31 THEN u % 2^WordBits ELSE u

(* step, k times over. *)
Repeat(step(_), start, k) ==
  LET after[i \in 0..k] == IF i = 0 THEN start ELSE step(after[i - 1])
  IN  after[k]

ok(s)        == s.streamErr = "Ok"
fail(s, err) == [s EXCEPT !.streamErr = err]
advance(s, n) == [s EXCEPT !.bitPos = @ + n]
byteIndex(s) == s.bitPos \div ByteBits
bitIndex(s)  == s.bitPos % ByteBits
byteSize(s)  == byteIndex(s) + (IF bitIndex(s) = 0 THEN 0 ELSE 1)
Size(s)      == Len(s.data)

(* Of all three: the callers' own checks share the status of the stream.   *)
require(s, condition, err) == IF ok(s) /\ ~ condition THEN fail(s, err) ELSE s

WriteStream(buffer) == [data |-> buffer, bitPos |-> 0, streamErr |-> "Ok"]
ReadStream(bytes)   == WriteStream(bytes)
SizeWriteStream     == [bitPos |-> 0, streamErr |-> "Ok"]

-----------------------------------------------------------------------------
(* Bytes that start inside a byte go through a word, as many at a time as  *)
(* it holds after the shift.                                               *)
Pack(bytes) ==
  LET from[i \in 1..(Len(bytes) + 1)] ==
        IF i > Len(bytes) THEN 0 ELSE bytes[i] + 2^ByteBits * from[i + 1]
  IN  from[1]
ByteOf(u, i) == (u \div 2^(ByteBits * i)) % 2^ByteBits

(* A mutant: a byte more than fits a word after the shift. *)
MaxBlockUnshifted(shift) == WordBits \div ByteBits

MaxBlock(shift) == (WordBits - shift) \div ByteBits
Blocks(count, shift) ==
  LET most == MaxBlock(shift)
  IN  [j \in 1..((count + most - 1) \div most) |->
         [first |-> (j - 1) * most, size |-> Least(most, count - (j - 1) * most)]]

(* A mutant: the carry clears the rest of the byte it reaches. *)
PutBlockOverwriting(data, dst, block, shift) ==
  LET u == Wrap(Pack(block) * 2^shift)
      k == Len(block)
  IN  [i \in DOMAIN data |->
         IF i = dst THEN (data[i] % 2^shift) + ByteOf(u, 0)
         ELSE IF i \in (dst + 1)..(dst + k) THEN ByteOf(u, i - dst) ELSE data[i]]

(* The word reaches from the byte at dst, whose low bits stay, into the    *)
(* one behind its last, whose high bits stay.                              *)
PutBlock(data, dst, block, shift) ==
  LET u == Wrap(Pack(block) * 2^shift)
      k == Len(block)
  IN  [i \in DOMAIN data |->
         IF i = dst THEN (data[i] % 2^shift) + ByteOf(u, 0)
         ELSE IF i = dst + k THEN ((data[i] \div 2^shift) * 2^shift) + ByteOf(u, k)
         ELSE IF i \in dst..(dst + k) THEN ByteOf(u, i - dst) ELSE data[i]]

GetBlock(data, src, k, shift) ==
  LET u == Wrap(Pack(SubSeq(data, src, src + k))) \div 2^shift
  IN  [i \in 1..k |-> ByteOf(u, i - 1)]

-----------------------------------------------------------------------------
(* WriteStream. A buffer that does not hold all the bytes takes none.      *)
writeBytes(s, out, count) ==
  LET shift  == bitIndex(s)
      needed == count + (IF shift = 0 THEN 0 ELSE 1)
      start  == byteIndex(s) + 1
      blocks == Blocks(count, shift)
      put[j \in 0..Len(blocks)] ==
        IF j = 0 THEN s.data
        ELSE LET b == blocks[j]
             IN  PutBlock(put[j - 1], start + b.first,
                          SubSeq(out, b.first + 1, b.first + b.size), shift)
      copied == [i \in DOMAIN s.data |->
                   IF i \in start..(start + count - 1) THEN out[i - start + 1] ELSE s.data[i]]
  IN  IF ~ ok(s) \/ count = 0 THEN s
      ELSE IF count > Len(out) THEN fail(s, "BadArg")
      ELSE IF Size(s) - byteIndex(s) < needed THEN fail(s, "Overflow")
      ELSE advance([s EXCEPT !.data = IF shift = 0 THEN copied ELSE put[Len(blocks)]],
                   count * ByteBits)

writeBit(s, b) ==
  LET i   == byteIndex(s) + 1
      low == s.data[i] % 2^bitIndex(s)
      high == s.data[i] \div 2^(bitIndex(s) + 1)
  IN  IF ~ ok(s) THEN s
      ELSE IF i > Size(s) THEN fail(s, "Overflow")
      ELSE advance([s EXCEPT !.data[i] = low + 2^bitIndex(s) * (b + 2 * high)], 1)

(* Bit by bit up to a byte, whole bytes, and the bits that are left.       *)
ToAlign(s)       == (ByteBits - bitIndex(s)) % ByteBits
HeadBits(s, n)   == Least(n, ToAlign(s))
WholeBytes(s, n) == (n - HeadBits(s, n)) \div ByteBits
TailBits(s, n)   == n - HeadBits(s, n) - ByteBits * WholeBytes(s, n)

writeBits(s, v, n) ==
  LET OneBit(w)  == [stream |-> writeBit(w.stream, w.rest % 2), rest |-> w.rest \div 2]
      OneByte(w) == [stream |-> writeBytes(w.stream, <<w.rest % 2^ByteBits>>, 1),
                     rest |-> w.rest \div 2^ByteBits]
      head == Repeat(OneBit, [stream |-> s, rest |-> v], HeadBits(s, n))
      body == Repeat(OneByte, head, WholeBytes(s, n))
  IN  IF ~ ok(s) THEN s
      ELSE IF n > WordBits THEN fail(s, "BadArg")
      ELSE Repeat(OneBit, body, TailBits(s, n)).stream

writeAlign(s) ==
  LET Zero(w) == writeBit(w, 0) IN IF ok(s) THEN Repeat(Zero, s, ToAlign(s)) ELSE s

-----------------------------------------------------------------------------
(* SizeWriteStream, which callers size their buffers with. That positions  *)
(* stay below 2^64 is taken for granted.                                   *)
sizeBits(s, n) ==
  IF ~ ok(s) THEN s
  ELSE IF n > WordBits THEN fail(s, "BadArg") ELSE advance(s, n)

sizeBytes(s, length, count) ==
  IF ~ ok(s) THEN s
  ELSE IF count > length THEN fail(s, "BadArg") ELSE advance(s, count * ByteBits)

(* A mutant: an aligned stream moves on by a whole byte. *)
sizeAlignAlways(s) == IF ok(s) THEN advance(s, ByteBits - bitIndex(s)) ELSE s

sizeAlign(s) == IF ok(s) THEN advance(s, ToAlign(s)) ELSE s

-----------------------------------------------------------------------------
(* ReadStream. *)
Got(s, out) == [stream |-> s, out |-> out]

readBytes(s, length, count) ==
  LET shift  == bitIndex(s)
      needed == count + (IF shift = 0 THEN 0 ELSE 1)
      start  == byteIndex(s) + 1
      blocks == Blocks(count, shift)
      got[j \in 0..Len(blocks)] ==
        IF j = 0 THEN <<>>
        ELSE got[j - 1] \o GetBlock(s.data, start + blocks[j].first, blocks[j].size, shift)
  IN  IF ~ ok(s) \/ count = 0 THEN Got(s, <<>>)
      ELSE IF count > length THEN Got(fail(s, "BadArg"), <<>>)
      ELSE IF byteIndex(s) + needed > Size(s) THEN Got(fail(s, "Eof"), <<>>)
      ELSE Got(advance(s, count * ByteBits),
               IF shift = 0 THEN SubSeq(s.data, start, start + count - 1) ELSE got[Len(blocks)])

(* out takes the low n bits of x above the produced ones. *)
Above(w, x, n) ==
  [w EXCEPT !.out = IF x = 0 THEN @ ELSE @ + x * 2^w.produced, !.produced = @ + n]

readBit(w) ==
  LET s == w.stream
  IN  IF ~ ok(s) THEN w
      ELSE IF byteIndex(s) >= Size(s) THEN [w EXCEPT !.stream = fail(s, "Eof")]
      ELSE Above([w EXCEPT !.stream = advance(s, 1)],
                 (s.data[byteIndex(s) + 1] \div 2^bitIndex(s)) % 2, 1)

readByte(w) ==
  LET read == readBytes(w.stream, 1, 1)
  IN  IF ok(read.stream) THEN Above([w EXCEPT !.stream = read.stream], read.out[1], ByteBits)
      ELSE [w EXCEPT !.stream = read.stream]

(* What a caller finds in out after a failure: the bits before it.         *)
readBits(s, n) ==
  LET head == Repeat(readBit, [stream |-> s, out |-> 0, produced |-> 0], HeadBits(s, n))
      body == Repeat(readByte, head, WholeBytes(s, n))
      tail == Repeat(readBit, body, TailBits(s, n))
  IN  IF ~ ok(s) THEN Got(s, 0)
      ELSE IF n > WordBits THEN Got(fail(s, "BadArg"), 0)
      ELSE Got(tail.stream, tail.out)

readAlign(s) == IF ok(s) THEN readBits(s, ToAlign(s)).stream ELSE s
=============================================================================
