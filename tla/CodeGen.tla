------------------------------- MODULE CodeGen -------------------------------
(***************************************************************************)
(* compiler/src/VM.cpp: the program that encodes, or decodes, every type   *)
(* of a schema. Each type becomes a routine that ends with RET and calls   *)
(* the routines of the types it is made of; linking puts the routines      *)
(* behind a main that calls the type whose id is in the register.          *)
(***************************************************************************)
EXTENDS Assembler, IR

(* Code words count indices from 0, and a cast keeps the low 16 bits. *)
Index(i) == i - 1
Imm16(n) == n % (UInt16Max + 1)

(* A mutant: the direction is forgotten. *)
IoEncoding(encode, whenEncoding, whenDecoding) == whenEncoding

Io(encode, whenEncoding, whenDecoding) == IF encode THEN whenEncoding ELSE whenDecoding

(* Object to codec when encoding, codec to object when decoding. *)
ScalarCode(scalar, width, encode) ==
  emit(Io(encode, "O_READ_SCALAR", "C_READ_SCALAR"), scalar, width, NoLabel)
    \o emit(Io(encode, "C_WRITE_SCALAR", "O_WRITE_SCALAR"), scalar, width, NoLabel)

ArrayLoop(elem, loopStart, loopEnd) ==
  emit("ARRAY_NEXT", "", 0, loopStart)
    \o jz(loopEnd, NoLabel)
    \o emit("ARRAY_ELEM_BEGIN", "", 0, NoLabel)
    \o emitTypeCall(elem, NoLabel)
    \o emit("ARRAY_ELEM_END", "", 0, NoLabel)
    \o jmp(loopStart, NoLabel)
    \o emit("ARRAY_END", "", 0, loopEnd)

ArrayCode(typeId, type, encode) ==
  LET lenbits == IF type.width = 0 THEN 0 ELSE AtLeast1(BitWidth(type.width))
  IN  emitExt32("ARRAY_BEGIN", Index(typeId), NoLabel)
        \o emit(Io(encode, "O_READ_ARRAY_LEN", "C_READ_ARRAY_LEN"), "", lenbits, NoLabel)
        \o emit(Io(encode, "C_WRITE_ARRAY_LEN", "O_WRITE_ARRAY_LEN"), "", lenbits, NoLabel)
        \o ArrayLoop(Index(type.of), 1, 2)

(* A mutant: the optional is not closed. *)
OptionalValueOnly(elem, optEnd) ==
  emit("OPT_BEGIN_VALUE", "", 0, NoLabel)
    \o emitTypeCall(elem, NoLabel)
    \o emit("OPT_END_VALUE", "", 0, optEnd)

OptionalValue(elem, optEnd) ==
  emit("OPT_BEGIN_VALUE", "", 0, NoLabel)
    \o emitTypeCall(elem, NoLabel)
    \o emit("OPT_END_VALUE", "", 0, NoLabel)
    \o emit("OPT_END", "", 0, optEnd)

OptionalCode(type, encode) ==
  LET optEnd == 1
  IN  emit("OPT_BEGIN", "", 0, NoLabel)
        \o emit(Io(encode, "O_READ_OPT_PRESENT", "C_READ_OPT_PRESENT"), "", 0, NoLabel)
        \o emit(Io(encode, "C_WRITE_OPT_PRESENT", "O_WRITE_OPT_PRESENT"), "", 0, NoLabel)
        \o jz(optEnd, NoLabel)
        \o OptionalValue(Index(type.of), optEnd)

(* A mutant: the oneof is left before its arm. *)
OneOfEndsSwapped(endLabel) ==
  emit("ONEOF_END", "", 0, endLabel) \o emit("ONEOF_ARM_END", "", 0, NoLabel)

OneOfEnds(endLabel) ==
  emit("ONEOF_ARM_END", "", 0, endLabel) \o emit("ONEOF_END", "", 0, NoLabel)

(* The fail label leads past the arms, as the end of an arm does. *)
OneOfCode(ir, type, encode) ==
  LET arms    == ir.oneOfs[type.of]
      armBits == AtLeast1(BitWidth(Len(arms)))
      labels  == [i \in 1..Len(arms) |-> i]
      failLabel == Len(arms) + 1
      endLabel  == Len(arms) + 2
  IN  emitExt32("ONEOF_BEGIN", Index(type.of), NoLabel)
        \o emit(Io(encode, "O_READ_ONEOF_ARM", "C_READ_ONEOF_ARM"), "", armBits, NoLabel)
        \o emit(Io(encode, "C_WRITE_ONEOF_ARM", "O_WRITE_ONEOF_ARM"), "", armBits, NoLabel)
        \o emit("ONEOF_ARM_BEGIN", "", 0, NoLabel)
        \o emitDispatch(labels, failLabel)
        \o FlattenSeq([i \in 1..Len(arms) |->
             emitTypeCall(Index(ir.fields[arms[i]].type), labels[i]) \o jmp(endLabel, NoLabel)])
        \o jmp(endLabel, failLabel)
        \o OneOfEnds(endLabel)

(* Every field in the order of the schema; when decoding, a field whose    *)
(* number does not match is skipped.                                       *)
FieldCode(ir, f, endLabel, skipLabel, encode) ==
  emitExt32("FIELD_BEGIN", Index(f), NoLabel)
    \o (IF encode
        THEN emit("C_WRITE_FIELD_ID", "", Imm16(Index(f)), NoLabel)
               \o emitTypeCall(Index(ir.fields[f].type), NoLabel)
        ELSE emit("C_MATCH_FIELD_ID", "", Imm16(Index(f)), NoLabel)
               \o jz(skipLabel, NoLabel)
               \o emitTypeCall(Index(ir.fields[f].type), NoLabel)
               \o jmp(endLabel, NoLabel)
               \o emit("C_SKIP_FIELD", "", Imm16(Index(f)), skipLabel))
    \o emit("FIELD_END", "", 0, endLabel)

MessageCode(ir, type, encode) ==
  LET fields == ir.messages[type.of]
  IN  emit("MSG_BEGIN", "", 0, NoLabel)
        \o FlattenSeq([i \in 1..Len(fields) |->
             FieldCode(ir, fields[i], 2 * i - 1, 2 * i, encode)])
        \o emit("MSG_END", "", 0, NoLabel)

(* One bit for the sign and enough for the largest magnitude. *)
EnumWidth(numbers) ==
  IF numbers = <<>> THEN 1
  ELSE LET Abs(n) == IF n < 0 THEN -n ELSE n
           widest == CHOOSE i \in DOMAIN numbers :
                       \A j \in DOMAIN numbers : Abs(numbers[j]) <= Abs(numbers[i])
       IN  BitWidth(Abs(numbers[widest])) + 1

generateTypeProgram(ir, t, encode) ==
  LET type == ir.types[t]
  IN  (CASE type.kind = "Scalar"   -> ScalarCode(type.scalar, type.width, encode)
         [] type.kind = "Array"    -> ArrayCode(t, type, encode)
         [] type.kind = "Optional" -> OptionalCode(type, encode)
         [] type.kind = "OneOf"    -> OneOfCode(ir, type, encode)
         [] type.kind = "Message"  -> MessageCode(ir, type, encode)
         [] type.kind = "Enum"     -> ScalarCode("INT", EnumWidth(ir.enums[type.of]), encode))
      \o emit("RET", "", 0, NoLabel)

-----------------------------------------------------------------------------
generateVMMain ==
  emit("CALL_TYPE_INDIRECT", "", 0, NoLabel) \o emit("HALT", "", 0, NoLabel)

(* linkTypeCodes: the program counter of a type is where its code starts.  *)
(* Jumps are relative and calls go by type, so that nothing moves.         *)
linkTypeCodes(program, typeCode) ==
  [codeWords   |-> program.codeWords \o assemble(typeCode),
   typeEntryPc |-> Append(program.typeEntryPc, Len(program.codeWords))]

generateProgram(ir, encode) ==
  FoldLeft(linkTypeCodes,
           [codeWords |-> assemble(generateVMMain), typeEntryPc |-> <<>>],
           [t \in 1..Len(ir.types) |-> generateTypeProgram(ir, t, encode)])
=============================================================================
