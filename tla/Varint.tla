-------------------------------- MODULE Varint --------------------------------
(***************************************************************************)
(* Integers of variable length (pack/include/ao/pack/Varint.h) on a bit    *)
(* stream. A varint is groups of ByteBits - 1 bits, lowest first, with the *)
(* high bit set in all but the last. A prefix integer has as many ones at  *)
(* the top of its first byte as bytes follow it; what is left of the first *)
(* byte, below a zero, are the lowest bits.                                *)
(***************************************************************************)
EXTENDS BitStream

GroupBits == ByteBits - 1
MaxGroups == (WordBits \div GroupBits) + 1    \* 10, for 8 and 64
FirstOf(S) == CHOOSE i \in S : \A j \in S : i <= j

varintBytes(v) ==
  LET n == FirstOf({i \in 1..MaxGroups : i = MaxGroups \/ v < 2^(GroupBits * i)})
  IN  [i \in 1..n |-> ((v \div 2^(GroupBits * (i - 1))) % 2^GroupBits)
                        + (IF i < n THEN 2^GroupBits ELSE 0)]

encodeVarint(s, v) == writeBytes(s, varintBytes(v), Len(varintBytes(v)))

(* One byte more than a varint has is read before it is too long.          *)
varintGroups(s) ==
  LET OneGroup(w) ==
        LET read == readBytes(w.stream, 1, 1)
            byte == read.out[1]
            bits == (byte % 2^GroupBits) * 2^(GroupBits * w.groups)
        IN  IF ~ w.more THEN w
            ELSE IF ~ ok(read.stream) THEN [w EXCEPT !.stream = read.stream, !.more = FALSE]
            ELSE [stream |-> read.stream, out |-> Wrap(w.out + bits), groups |-> w.groups + 1,
                  more |-> byte >= 2^GroupBits]
  IN  Repeat(OneGroup, [stream |-> s, out |-> 0, groups |-> 0, more |-> TRUE], MaxGroups + 1)

(* A mutant: the longest varint is too long. *)
TooLongAtLimit(groups) == groups >= MaxGroups

TooLong(groups) == groups > MaxGroups

decodeVarint(s) ==
  LET read == varintGroups(s)
  IN  Got(IF ok(read.stream) /\ TooLong(read.groups) THEN fail(read.stream, "BadData")
          ELSE read.stream, read.out)

-----------------------------------------------------------------------------
(* Bits of the first byte that are left for the value when e bytes follow. *)
HeaderBits(e) == IF e < GroupBits THEN GroupBits - e ELSE 0
Holds(e, v)   == e = ByteBits \/ v < 2^(HeaderBits(e) + ByteBits * e)
Ones(e)       == 2^ByteBits - 2^(ByteBits - e)

encodePrefixIntHeader(v) ==
  LET extra == CHOOSE e \in 0..ByteBits : Holds(e, v) /\ \A f \in 0..(e - 1) : ~ Holds(f, v)
  IN  [header |-> Ones(extra) + (v % 2^HeaderBits(extra)),
       shift |-> HeaderBits(extra), extra |-> extra]

decodePrefixIntHeader(header) ==
  LET extra == CHOOSE e \in 0..ByteBits :
                 /\ header >= Ones(e)
                 /\ e = ByteBits \/ header < Ones(e + 1)
      shift == ByteBits - Least(extra + 1, ByteBits)
  IN  [extra |-> extra, shift |-> shift, base |-> header % 2^shift]

encodePrefixInt(s, v) ==
  LET h    == encodePrefixIntHeader(v)
      rest == [i \in 1..h.extra |-> ByteOf(v \div 2^h.shift, i - 1)]
  IN  writeBytes(s, <<h.header>> \o rest, h.extra + 1)

(* out is left alone, and 0, when a byte is missing. *)
decodePrefixInt(s) ==
  LET prefix == readBytes(s, 1, 1)
      h      == decodePrefixIntHeader(prefix.out[1])
      rest   == readBytes(prefix.stream, h.extra, h.extra)
  IN  IF ~ ok(prefix.stream) THEN Got(prefix.stream, 0)
      ELSE IF ~ ok(rest.stream) THEN Got(rest.stream, 0)
      ELSE Got(rest.stream, Wrap((Pack(rest.out) * 2^h.shift) + h.base))
=============================================================================
