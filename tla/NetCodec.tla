------------------------------- MODULE NetCodec -------------------------------
(***************************************************************************)
(* The packed bit format (NetEncodeCodec and NetDecodeCodec of compiler/   *)
(* include/ao/schema/NetCodec.h) on the bit streams of pack. Nothing is    *)
(* tagged: what is read is what the program asks for. A width of 0 stands  *)
(* for a prefix integer. The codec has no state but its stream.            *)
(*                                                                         *)
(* A call takes a codec to [codec |-> the codec afterwards, answer |->     *)
(* what it returned], which after a failure is what had been read before.  *)
(***************************************************************************)
EXTENDS IR, Varint

Bit(b) == IF b # 0 THEN 1 ELSE 0

(* u64, and arrayLen. *)
WriteUInt(s, v, width) == IF width = 0 THEN encodePrefixInt(s, v) ELSE writeBits(s, v, width)

(* i64: zigzag without a width, two's complement with one. *)
WriteInt(s, r, width, U64) ==
  WriteUInt(s, IF width = 0 THEN encodeZigZag(r, U64) ELSE r, width)

(* The arm goes by its index among the arms, from 0. *)
writeOneofArm(t, s, oneof, arm) ==
  LET width == t.oneofs[oneof].indexWidth IN IF width = 0 THEN s ELSE writeBits(s, arm, width)

WriteScalar(s, ins, r, U64) ==
  CASE ins.mode = "BOOL" -> writeBits(s, Bit(r), 1)
    [] ins.mode = "INT"  -> WriteInt(s, r, ins.imm, U64)
    [] ins.mode = "F32"  -> writeBits(s, r, 32)
    [] ins.mode = "F64"  -> writeBits(s, r, 64)
    [] OTHER             -> WriteUInt(s, r, ins.imm)

(* What runInstr<true> tells the codec; to begin, to end and a field's     *)
(* number leave no trace on the wire.                                      *)
NetEncode(t, s, ins, at, U64) ==
  CASE ins.op = "C_WRITE_SCALAR"      -> WriteScalar(s, ins, at.reg, U64)
    [] ins.op = "C_WRITE_OPT_PRESENT" -> writeBits(s, Bit(at.flag), 1)
    [] ins.op = "C_WRITE_ARRAY_LEN"   -> WriteUInt(s, at.len, ins.imm)
    [] ins.op = "C_WRITE_ONEOF_ARM"   -> writeOneofArm(t, s, at.oneof + 1, at.reg)
    [] OTHER                          -> s

-----------------------------------------------------------------------------
Returned(read, answer) == [codec |-> read.stream, answer |-> answer]

ReadUInt(s, width) == IF width = 0 THEN decodePrefixInt(s) ELSE readBits(s, width)

(* A mutant: the sign is not extended. *)
SignExtendedNever(u, width, U64) == u

(* Two's complement of so many bits as one of 64. *)
SignExtended(u, width, U64) == IF u >= 2^(width - 1) THEN U64 - 2^width + u ELSE u

ReadInt(s, width, U64) ==
  LET read == ReadUInt(s, width)
  IN  Returned(read, IF width = 0 THEN decodeZigZag(read.out, U64)
                    ELSE SignExtended(read.out, width, U64))

netOneofArm(t, s, oneof, U32) ==
  LET width == t.oneofs[oneof].indexWidth
      read  == readBits(s, width)
  IN  IF width = 0 THEN Returned(Got(s, 0), 0) ELSE Returned(read, read.out % U32)

ReadScalarBits(s, ins) ==
  CASE ins.mode = "BOOL" -> readBits(s, 1)
    [] ins.mode = "F32"  -> readBits(s, 32)
    [] ins.mode = "F64"  -> readBits(s, 64)
    [] OTHER             -> ReadUInt(s, ins.imm)

(* What runInstr<false> asks of the codec. Every field is taken to be the  *)
(* one that comes next.                                                    *)
NetDecode(t, s, ins, at, U32, U64) ==
  LET Whole(read) == Returned(read, read.out)
      Cut32(read) == Returned(read, read.out % U32)
  IN  CASE ins.op = "C_READ_SCALAR" /\ ins.mode = "INT" -> ReadInt(s, ins.imm, U64)
        [] ins.op = "C_READ_SCALAR" /\ ins.mode # "INT" -> Whole(ReadScalarBits(s, ins))
        [] ins.op = "C_READ_OPT_PRESENT" -> Whole(readBits(s, 1))
        [] ins.op = "C_READ_ARRAY_LEN"   -> Cut32(ReadUInt(s, ins.imm))
        [] ins.op = "C_READ_ONEOF_ARM"   -> netOneofArm(t, s, at.oneof + 1, U32)
        [] ins.op = "C_MATCH_FIELD_ID"   -> Returned(Got(s, 0), 1)
        [] OTHER                         -> Returned(Got(s, 0), 0)
=============================================================================
