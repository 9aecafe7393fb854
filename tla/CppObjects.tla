------------------------------ MODULE CppObjects ------------------------------
(***************************************************************************)
(* The objects of generated C++ types that the machine reads and fills     *)
(* (CppEncodeAdapter and CppDecodeAdapter of compiler/include/ao/schema/   *)
(* CppAdapter.h, with the accessors that the Cpp*Accessor.cpp of           *)
(* compiler/src write into the generated code).                            *)
(*                                                                         *)
(* An object is a function from paths to nodes, as a document is: a member,*)
(* an element, the value of an optional and the arm of a variant are below *)
(* what holds them. A frame of an adapter's stack is the accessor of a     *)
(* type and a pointer, which is a path.                                    *)
(***************************************************************************)
EXTENDS JsonAdapters

Struct     == Node("struct", 0)
Vector     == Node("vector", 0)      \* std::string is one of char
StdOptional == Node("optional", 0)   \* with a value below it, or without
Variant(index) == Node("variant", index)   \* 0: std::monostate
Value(n)   == Node("value", n)

Frame(t, p) == [type |-> t, at |-> p]
NullPtr     == <<"nullptr">>

(* The C++ type of an integer holds Count values: the least of 8, 16, 32   *)
(* and 64 bits (getCppBitWidth), of which the model has 8 and the register.*)
Count(width, U64) == IF width \in 1..8 THEN 2^8 ELSE U64

(* (int8_t)v and (uint8_t)v of a register; an enum is an int, no schema    *)
(* here has one with a storage directive.                                  *)
CppCast(type, r, U32, U64) ==
  LET n == r % Count(type.width, U64)
  IN  CASE type.kind = "Enum"               -> Signed(r % U32, U32)
        [] type.scalar = "BOOL"             -> IF r # 0 THEN 1 ELSE 0
        [] type.scalar \in {"F32", "F64"}   -> Signed(r, U64)
        [] type.scalar \in {"INT", "CHAR"}  -> Signed(n, Count(type.width, U64))
        [] OTHER                            -> n

(* The value-initialised object of a type, below p. *)
RECURSIVE Zero(_, _, _)
Zero(ir, t, p) ==
  LET type == ir.types[t]
      WithMember(object, f) == object @@ Zero(ir, ir.fields[f].type, Child(p, ir.fields[f].name))
  IN  CASE type.kind = "Array"    -> p :> Vector
        [] type.kind = "Optional" -> p :> StdOptional
        [] type.kind = "OneOf"    -> p :> Variant(0)
        [] type.kind = "Message"  -> FoldLeft(WithMember, p :> Struct, ir.messages[type.of])
        [] OTHER                  -> p :> Value(0)

(* What is at p is replaced by an object. *)
Replace(d, p, object) == object @@ Restrict(d, {q \in DOMAIN d : ~ IsPrefix(p, q)})

-----------------------------------------------------------------------------
(* stackInvoke: the frame from the top, or the one below it for what leaves*)
(* a frame, must have the operation and an object.                         *)
OpsOf(type) ==
  CASE type.kind = "Message"  -> {"MSG_BEGIN", "MSG_END", "FIELD_BEGIN", "FIELD_END"}
    [] type.kind = "Optional" ->
         {"OPT_BEGIN", "OPT_END", "O_READ_OPT_PRESENT", "O_WRITE_OPT_PRESENT", "OPT_BEGIN_VALUE",
          "OPT_END_VALUE"}
    [] type.kind = "Array"    ->
         {"ARRAY_BEGIN", "ARRAY_END", "O_READ_ARRAY_LEN", "O_WRITE_ARRAY_LEN", "ARRAY_ELEM_BEGIN",
          "ARRAY_ELEM_END"}
    [] type.kind = "OneOf"    ->
         {"ONEOF_BEGIN", "ONEOF_END", "O_READ_ONEOF_ARM", "O_WRITE_ONEOF_ARM", "ONEOF_ARM_BEGIN",
          "ONEOF_ARM_END"}
    [] OTHER                  -> {"O_READ_SCALAR", "O_WRITE_SCALAR"}
ObjectOps == UNION {OpsOf([kind |-> k]) : k \in {"Message", "Optional", "Array", "OneOf", "Scalar"}}

(* boolean, u64, i64, f32 and f64 are operations of their own. *)
ScalarOp(scalar) ==
  IF scalar \in {"CHAR", "BYTE"} THEN "UINT" ELSE scalar
Handles(type, ins) ==
  /\ ins.op \in OpsOf(type)
  /\ ins.op \in {"O_READ_SCALAR", "O_WRITE_SCALAR"} =>
       ScalarOp(ins.mode) = IF type.kind = "Enum" THEN "INT" ELSE ScalarOp(type.scalar)

Depth(o, ins) == Len(o.stack) - (IF ins.op \in Leaves THEN 1 ELSE 0)
Invokes(ir, d, o, ins) ==
  LET frame == o.stack[Depth(o, ins)]
  IN  Depth(o, ins) >= 1 /\ Handles(ir.types[frame.type], ins) /\ frame.at \in DOMAIN d

(* A field of the message, an element of the array, the value of an        *)
(* optional that has one. The case of a field is its index in the schema.  *)
EnterField(ir, o, frame, f) ==
  IF f \in ToSet(ir.messages[ir.types[frame.type].of])
  THEN Push(o, Frame(ir.fields[f].type, Child(frame.at, ir.fields[f].name)))
  ELSE Fails(o, "BadData")
EnterElem(ir, d, o, frame, i) ==
  IF i >= Cardinality(Children(d, frame.at)) THEN Fails(o, "BadData")
  ELSE Push(o, Frame(ir.types[frame.type].of, Element(frame.at, i)))
EnterOptValue(ir, d, o, frame) ==
  IF Has(d, frame.at, "value")
  THEN Push(o, Frame(ir.types[frame.type].of, Child(frame.at, "value")))
  ELSE Fails(o, "BadData")

ArmsOf(ir, t)       == ir.oneOfs[ir.types[t].of]
ArmType(ir, t, arm) == ir.fields[ArmsOf(ir, t)[arm + 1]].type

-----------------------------------------------------------------------------
(* CppEncodeAdapter: [stack, err] over the object d. *)
EncodeRoot(t) == [stack |-> <<Frame(t, Root)>>, err |-> "Ok"]

(* Mutant: the index of the variant, in which the monostate counts. *)
VariantIndex(index, U32) == index

(* An unset variant has no arm: uint32 max. *)
ArmIndexOf(index, U32) == IF index = 0 THEN U32 - 1 ELSE index - 1

(* armId + 1 wraps for an unset variant and passes the first check. *)
encodeOneofEnterArm(ir, d, o, frame, arm, U32) ==
  IF d[frame.at].value # (arm + 1) % U32 \/ arm >= Len(ArmsOf(ir, frame.type))
  THEN Fails(o, "BadData")
  ELSE Push(o, Frame(ArmType(ir, frame.type, arm), Child(frame.at, "value")))

EncodeInvoke(ir, d, o, ins, at, U32, U64) ==
  LET frame == o.stack[Depth(o, ins)]
  IN  CASE ins.op = "FIELD_BEGIN"        -> EnterField(ir, o, frame, ins.imm + 1)
        [] ins.op = "O_READ_OPT_PRESENT" -> Does(o, IF Has(d, frame.at, "value") THEN 1 ELSE 0)
        [] ins.op = "OPT_BEGIN_VALUE"    -> EnterOptValue(ir, d, o, frame)
        [] ins.op = "O_READ_ARRAY_LEN"   -> Does(o, Cardinality(Children(d, frame.at)))
        [] ins.op = "ARRAY_ELEM_BEGIN"   -> EnterElem(ir, d, o, frame, at.idx)
        [] ins.op = "O_READ_ONEOF_ARM"   -> Does(o, ArmIndexOf(d[frame.at].value, U32))
        [] ins.op = "ONEOF_ARM_BEGIN"    -> encodeOneofEnterArm(ir, d, o, frame, at.reg, U32)
        [] ins.op = "O_READ_SCALAR"      -> Does(o, Unsigned(d[frame.at].value, U64))
        [] ins.op \in Leaves             -> popStack(o)
        [] OTHER                         -> Does(o, 0)

(* What runInstr<true> asks of the object. *)
EncodeAsks(ir, d, o, ins, at, U32, U64) ==
  CASE ins.op \notin ObjectOps       -> Does(o, 0)
    [] ~ Invokes(ir, d, o, ins)      -> Fails(o, "BadData")
    [] OTHER                         -> EncodeInvoke(ir, d, o, ins, at, U32, U64)

-----------------------------------------------------------------------------
(* CppDecodeAdapter: [data, stack, err]; data is whatever the caller's     *)
(* object held before.                                                     *)
DecodeRoot(t, data) == [data |-> data, stack |-> <<Frame(t, Root)>>, err |-> "Ok"]

Becomes(o, p, object) == Does([o EXCEPT !.data = Replace(@, p, object)], 0)

(* decodeOptionalSetPresent: emplace() or reset(). *)
SetPresent(ir, o, frame, present) ==
  LET value == Child(frame.at, "value")
      none  == frame.at :> StdOptional
  IN  Becomes(o, frame.at,
              IF present THEN none @@ Zero(ir, ir.types[frame.type].of, value) ELSE none)

Elems(p, indices) == {Element(p, i) : i \in indices}
Grow(ir, frame, data, len) ==
  FoldSet(LAMBDA e, d : d @@ Zero(ir, ir.types[frame.type].of, e), data,
          Elems(frame.at, 0..(len - 1)) \ DOMAIN data)

(* Mutant: the vector only grows. *)
resizeUpTo(ir, o, frame, len) == Does([o EXCEPT !.data = Grow(ir, frame, @, len)], 0)

(* resize(len): the first elements stay as they are. *)
resize(ir, o, frame, len) ==
  LET beyond == Elems(frame.at, len..(Cardinality(Children(o.data, frame.at)) - 1))
      first  == Restrict(o.data, {q \in DOMAIN o.data : \A e \in beyond : ~ IsPrefix(e, q)})
  IN  Does([o EXCEPT !.data = Grow(ir, frame, first, len)], 0)

(* Mutant: the alternative numbered as the arm is. *)
EmplaceUnshifted(ir, o, frame, arm) ==
  IF arm >= Len(ArmsOf(ir, frame.type)) THEN Fails(o, "BadData")
  ELSE Becomes(o, frame.at,
               (frame.at :> Variant(arm))
                 @@ Zero(ir, ArmType(ir, frame.type, arm), Child(frame.at, "value")))

(* decodeOneofIndex: emplace<arm + 1>(). *)
EmplaceArm(ir, o, frame, arm) ==
  IF arm >= Len(ArmsOf(ir, frame.type)) THEN Fails(o, "BadData")
  ELSE Becomes(o, frame.at,
               (frame.at :> Variant(arm + 1))
                 @@ Zero(ir, ArmType(ir, frame.type, arm), Child(frame.at, "value")))

(* get_if is null when the variant holds another arm. *)
decodeOneofEnterArm(ir, o, frame, arm) ==
  IF arm >= Len(ArmsOf(ir, frame.type)) THEN Fails(o, "BadData")
  ELSE Push(o, Frame(ArmType(ir, frame.type, arm),
                     IF o.data[frame.at].value = arm + 1 THEN Child(frame.at, "value") ELSE NullPtr))

DecodeInvoke(ir, o, ins, at, U32, U64) ==
  LET frame == o.stack[Depth(o, ins)]
  IN  CASE ins.op = "FIELD_BEGIN"         -> EnterField(ir, o, frame, ins.imm + 1)
        [] ins.op = "OPT_BEGIN"           -> Becomes(o, frame.at, frame.at :> StdOptional)
        [] ins.op = "O_WRITE_OPT_PRESENT" -> SetPresent(ir, o, frame, at.flag = 1)
        [] ins.op = "OPT_BEGIN_VALUE"     -> EnterOptValue(ir, o.data, o, frame)
        [] ins.op = "O_WRITE_ARRAY_LEN"   -> resize(ir, o, frame, at.reg % U32)
        [] ins.op = "ARRAY_ELEM_BEGIN"    -> EnterElem(ir, o.data, o, frame, at.idx)
        [] ins.op = "O_WRITE_ONEOF_ARM"   -> EmplaceArm(ir, o, frame, at.reg % U32)
        [] ins.op = "ONEOF_ARM_BEGIN"     -> decodeOneofEnterArm(ir, o, frame, at.reg % U32)
        [] ins.op = "O_WRITE_SCALAR"      ->
             Does([o EXCEPT !.data[frame.at] = Value(CppCast(ir.types[frame.type], at.reg, U32, U64))], 0)
        [] ins.op \in Leaves              -> popStack(o)
        [] OTHER                          -> Does(o, 0)

(* What runInstr<false> asks of the object. *)
DecodeAsks(ir, o, ins, at, U32, U64) ==
  CASE ins.op \notin ObjectOps           -> Does(o, 0)
    [] ~ Invokes(ir, o.data, o, ins)     -> Fails(o, "BadData")
    [] OTHER                             -> DecodeInvoke(ir, o, ins, at, U32, U64)
=============================================================================
