------------------------------ MODULE DiskCodec ------------------------------
(***************************************************************************)
(* The tagged byte format (DiskEncodeCodec and DiskDecodeCodec of compiler *)
(* /include/ao/schema/DiskCodec.h) on the byte streams of pack. A wire is  *)
(* a sequence of cells: a tag, a prefix integer or a raw byte. A prefix    *)
(* integer below 128 is one byte, equal to itself, which is why a tag that *)
(* is written as a byte can be read as a prefix integer.                   *)
(*                                                                         *)
(* As with the objects, a call takes a codec to [codec |-> the codec       *)
(* afterwards, answer |-> what it returned].                               *)
(***************************************************************************)
EXTENDS JsonReference

DiskTag ==
  [MsgBegin |-> 0, Field |-> 1, OneofBegin |-> 2, ArrayBegin |-> 3, OptBegin |-> 4, End |-> 5,
   Fixed8 |-> 6, Fixed32 |-> 7, Fixed64 |-> 8, Varint |-> 9]
DiskTagMax == 10

BeginTag ==
  [MSG_BEGIN |-> DiskTag.MsgBegin, FIELD_BEGIN |-> DiskTag.Field,
   ONEOF_BEGIN |-> DiskTag.OneofBegin, ARRAY_BEGIN |-> DiskTag.ArrayBegin,
   OPT_BEGIN |-> DiskTag.OptBegin]
EndOps == {"MSG_END", "FIELD_END", "ONEOF_END", "ARRAY_END", "OPT_END"}

(* A float is so many raw bytes; its value stands in the first. *)
RawBytes(r, n) == [i \in 1..n |-> IF i = 1 THEN r ELSE 0]

-----------------------------------------------------------------------------
(* Encoder: [cells, capacity, streamErr, err]. A stream that is full takes *)
(* nothing any more; the codec does not ask it, so that err stays Ok.      *)
Encoder(capacity) == [cells |-> <<>>, capacity |-> capacity, streamErr |-> "Ok", err |-> "Ok"]

(* A mutant: the stream takes what fits after something that did not. *)
WritingOn(c, cells) ==
  IF Len(c.cells) + Len(cells) > c.capacity THEN [c EXCEPT !.streamErr = "Overflow"]
  ELSE [c EXCEPT !.cells = @ \o cells]

Writing(c, cells) ==
  CASE c.streamErr # "Ok"                       -> c
    [] Len(c.cells) + Len(cells) > c.capacity   -> [c EXCEPT !.streamErr = "Overflow"]
    [] OTHER                                    -> [c EXCEPT !.cells = @ \o cells]

EncodeScalar(c, mode, r, U64) ==
  CASE mode = "F32" -> Writing(Writing(c, <<DiskTag.Fixed32>>), RawBytes(Signed(r, U64), 4))
    [] mode = "F64" -> Writing(Writing(c, <<DiskTag.Fixed64>>), RawBytes(Signed(r, U64), 8))
    [] mode = "INT" -> Writing(Writing(c, <<DiskTag.Varint>>), <<encodeZigZag(r, U64)>>)
    [] OTHER        -> Writing(Writing(c, <<DiskTag.Varint>>), <<r>>)

(* A mutant: the arm itself is written. *)
ArmIndex(t, oneof, arm) == arm

(* An arm is written as the number of its field. *)
ArmNumber(t, oneof, arm) == t.oneofFieldNumbers[t.oneofs[oneof].fieldStart + arm + 1]

(* What runInstr<true> tells the codec. *)
DiskEncode(t, c, ins, at, U64) ==
  CASE ins.op \in DOMAIN BeginTag    -> Writing(c, <<BeginTag[ins.op]>>)
    [] ins.op \in EndOps             -> Writing(c, <<DiskTag.End>>)
    [] ins.op = "C_WRITE_FIELD_ID"   -> Writing(c, <<t.fields[ins.imm + 1]>>)
    [] ins.op = "C_WRITE_ARRAY_LEN"  -> Writing(c, <<at.len>>)
    [] ins.op = "C_WRITE_ONEOF_ARM"  ->
         Writing(c, <<ArmNumber(t, at.oneof + 1, at.reg)>>)
    [] ins.op = "C_WRITE_SCALAR"     -> EncodeScalar(c, ins.mode, at.reg, U64)
    [] OTHER                         -> c

-----------------------------------------------------------------------------
(* Decoder: [cells, pos, streamErr, err]. *)
Decoder(cells) == [cells |-> cells, pos |-> 0, streamErr |-> "Ok", err |-> "Ok"]

Gives(c, answer) == [codec |-> c, answer |-> answer]
FailWith(c, e)   == IF c.err # "Ok" THEN c ELSE [c EXCEPT !.err = e]
raiseError(c)    == IF c.streamErr = "Ok" THEN c ELSE FailWith(c, c.streamErr)
Remaining(c)     == Len(c.cells) - c.pos
CanRead(c, n)    == c.streamErr = "Ok" /\ Remaining(c) >= n

(* ReadStream::bytes, n at a time. *)
Reading(c, n) == IF CanRead(c, n) THEN [c EXCEPT !.pos = @ + n] ELSE [c EXCEPT !.streamErr = "Eof"]
Peeked(c)     == c.cells[c.pos + 1]

readVarint(c) ==
  IF CanRead(c, 1) THEN Gives(Reading(c, 1), Peeked(c)) ELSE Gives(raiseError(Reading(c, 1)), 0)

(* Any tag; UnknownTag after a failure. *)
UnknownTag == 255
anyTag(c) ==
  IF c.err # "Ok" THEN Gives(c, UnknownTag)
  ELSE IF ~ CanRead(c, 1) THEN Gives(FailWith(Reading(c, 1), "BadData"), UnknownTag)
  ELSE IF Peeked(c) >= DiskTagMax THEN Gives(FailWith(Reading(c, 1), "BadData"), UnknownTag)
  ELSE Gives(Reading(c, 1), Peeked(c))

(* The tag that must come; the answer says whether it did. *)
readTag(c, expected) ==
  LET tag == anyTag(c)
  IN  IF tag.codec.err # "Ok" THEN Gives(tag.codec, 0)
      ELSE IF tag.answer # expected THEN Gives(FailWith(tag.codec, "BadData"), 0)
      ELSE Gives(tag.codec, 1)

fixed(c, n) ==
  LET tagged == readTag(c, IF n = 4 THEN DiskTag.Fixed32 ELSE DiskTag.Fixed64)
  IN  IF tagged.answer = 0 THEN Gives(tagged.codec, 0)
      ELSE LET read == raiseError(Reading(tagged.codec, n))
           IN  Gives(read, IF CanRead(tagged.codec, n) THEN Peeked(tagged.codec) ELSE 0)

readTaggedVarint(c) ==
  LET tagged == readTag(c, DiskTag.Varint)
  IN  IF tagged.answer = 0 THEN Gives(tagged.codec, 0) ELSE readVarint(tagged.codec)

DecodeScalar(c, mode, U64) ==
  LET read == IF mode = "F32" THEN fixed(c, 4)
              ELSE IF mode = "F64" THEN fixed(c, 8) ELSE readTaggedVarint(c)
  IN  CASE mode = "INT"  -> Gives(read.codec, decodeZigZag(read.answer, U64))
        [] mode = "BOOL" -> Gives(read.codec, IF read.answer # 0 THEN 1 ELSE 0)
        [] OTHER         -> read

fieldId(t, c, f) ==
  LET read == readVarint(c)
  IN  Gives(read.codec, IF read.codec.err = "Ok" /\ read.answer = t.fields[f] THEN 1 ELSE 0)

decodeArrayLen(c, U32) ==
  LET read == readVarint(c)
  IN  IF read.answer >= U32 THEN Gives(FailWith(read.codec, "BadData"), 0) ELSE read

(* A mutant of present: the tag itself. *)
PresentTag(c) ==
  IF CanRead(c, 1) THEN Gives(c, Peeked(c)) ELSE Gives(FailWith(c, "BadData"), 0)

present(c) ==
  IF CanRead(c, 1) THEN Gives(c, IF Peeked(c) # DiskTag.End THEN 1 ELSE 0)
  ELSE Gives(FailWith(c, "BadData"), 0)

(* The field number of the arm, looked up; an unknown one is uint32 max. *)
oneofArm(t, c, o, U32) ==
  LET read  == readVarint(c)
      range == t.oneofs[o]
      found == {i \in 0..(range.fieldCount - 1) :
                  t.oneofFieldNumbers[range.fieldStart + i + 1] = read.answer}
  IN  IF read.codec.err # "Ok" THEN Gives(read.codec, 0)
      ELSE IF read.answer >= U32 THEN Gives(FailWith(read.codec, "BadData"), 0)
      ELSE Gives(read.codec, IF found = {} THEN U32 - 1 ELSE Min(found))

-----------------------------------------------------------------------------
(* Skipping. An element of an array is read with its tag, a value of a     *)
(* field or an arm too; the answer says whether the value was skipped.     *)
RECURSIVE skipValue(_, _), skipFields(_), skipElements(_, _)

skipFieldImpl(c) == LET tag == anyTag(c) IN skipValue(tag.codec, tag.answer)

(* skipMsg: the body of a message. *)
skipFields(c) ==
  LET tag == anyTag(c)
  IN  IF tag.codec.err = "Ok" /\ tag.answer = DiskTag.Field
      THEN LET value == skipFieldImpl(tag.codec)
           IN  IF value.answer = 0 THEN value ELSE skipFields(value.codec)
      ELSE Gives(tag.codec, IF tag.answer = DiskTag.End THEN 1 ELSE 0)

skipElements(c, n) ==
  IF n = 0 THEN readTag(c, DiskTag.End)
  ELSE LET value == skipFieldImpl(c)
       IN  IF value.answer = 0 THEN value ELSE skipElements(value.codec, n - 1)

skipOpt(c) ==
  LET tag == anyTag(c)
  IN  IF tag.answer = DiskTag.End THEN Gives(tag.codec, 1)
      ELSE LET value == skipValue(tag.codec, tag.answer)
           IN  IF value.answer = 0 THEN value ELSE readTag(value.codec, DiskTag.End)

(* Fixed8 has no case and does not fail either. A fixed value is read with *)
(* a tag of its own although its tag has been read.                        *)
skipValue(c, tag) ==
  LET Read(r) == Gives(r.codec, IF r.codec.err = "Ok" THEN 1 ELSE 0)
  IN  IF c.err # "Ok" THEN Gives(c, 0)
      ELSE CASE tag = DiskTag.MsgBegin   -> skipFields(c)
             [] tag = DiskTag.OneofBegin -> skipFieldImpl(readVarint(c).codec)
             [] tag = DiskTag.ArrayBegin ->
                  LET len == readVarint(c) IN skipElements(len.codec, len.answer)
             [] tag = DiskTag.OptBegin   -> skipOpt(c)
             [] tag = DiskTag.Fixed32    -> Read(fixed(c, 4))
             [] tag = DiskTag.Fixed64    -> Read(fixed(c, 8))
             [] tag = DiskTag.Varint     -> Read(readVarint(c))
             [] tag \in {DiskTag.Field, DiskTag.End} -> Gives(FailWith(c, "BadData"), 0)
             [] OTHER                    -> Gives(c, 0)

skipField(c) ==
  LET value == skipFieldImpl(c)
  IN  IF value.answer = 0 THEN value ELSE readTag(value.codec, DiskTag.End)

(* What runInstr<false> asks of the codec. *)
DiskDecode(t, c, ins, at, U32, U64) ==
  CASE ins.op \in DOMAIN BeginTag    -> readTag(c, BeginTag[ins.op])
    [] ins.op \in EndOps             -> readTag(c, DiskTag.End)
    [] ins.op = "C_MATCH_FIELD_ID"   -> fieldId(t, c, ins.imm + 1)
    [] ins.op = "C_SKIP_FIELD"       -> skipField(c)
    [] ins.op = "C_READ_OPT_PRESENT" -> present(c)
    [] ins.op = "C_READ_ARRAY_LEN"   -> decodeArrayLen(c, U32)
    [] ins.op = "C_READ_ONEOF_ARM"   -> oneofArm(t, c, at.oneof + 1, U32)
    [] ins.op = "C_READ_SCALAR"      -> DecodeScalar(c, ins.mode, U64)
    [] OTHER                         -> Gives(c, 0)

-----------------------------------------------------------------------------
(* What stands for a document on a wire, by recursion over its schema and  *)
(* not by a program: the layout that the comments of DiskCodec.h give.     *)
RECURSIVE Bytes(_, _, _, _)

(* Tag and value; what has an inside ends with 5. *)
Bytes(s, t, d, p) ==
  LET type   == s.types[t]
      zig(n) == IF n >= 0 THEN 2 * n ELSE -2 * n - 1
  IN  CASE type.kind = "Scalar" /\ type.scalar = "F32" -> <<7, d[p].value, 0, 0, 0>>
        [] type.kind = "Scalar" /\ type.scalar = "F64" -> <<8, d[p].value, 0, 0, 0, 0, 0, 0, 0>>
        [] type.kind = "Enum" \/ type.scalar = "INT"   -> <<9, zig(d[p].value)>>
        [] type.kind = "Scalar"   -> <<9, d[p].value>>
        [] type.kind = "Array"    ->
             <<3, Cardinality(Children(d, p))>>
               \o FlattenSeq([i \in DOMAIN Elements(d, p) |-> Bytes(s, type.of, d, Elements(d, p)[i])])
               \o <<5>>
        [] type.kind = "Optional" ->
             <<4>> \o (IF Has(d, p, "value") THEN Bytes(s, type.of, d, Child(p, "value")) ELSE <<>>)
               \o <<5>>
        [] type.kind = "OneOf" ->
             <<2, d[Child(p, "case")].value>>
               \o Bytes(s, s.fields[s.oneOfs[type.of][CHOOSE i \in ArmsAt(s, type.of, d, p) : TRUE]].type,
                        d, Child(p, "value"))
               \o <<5>>
        [] type.kind = "Message" ->
             <<0>>
               \o FlattenSeq([i \in DOMAIN s.messages[type.of] |->
                    LET f == s.fields[s.messages[type.of][i]]
                    IN  <<1, f.fieldNumber>> \o Bytes(s, f.type, d, FieldPath(d, p, f.name)) \o <<5>>])
               \o <<5>>
=============================================================================
