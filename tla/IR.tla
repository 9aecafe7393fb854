--------------------------------- MODULE IR ---------------------------------
(***************************************************************************)
(* The schema the backends work from (compiler/include/ao/schema/IR.h):    *)
(* tables of types, fields, oneofs, messages and enums that refer to each  *)
(* other by index. Names are JSON keys; a number is a field number.        *)
(*                                                                         *)
(* Indices count from 0 in the code and from 1 here.                       *)
(***************************************************************************)
EXTENDS Integers, Sequences

(* The payload of a type. All types have the same shape. *)
Type(kind, scalar, width, of) ==
  [kind |-> kind, scalar |-> scalar, width |-> width, of |-> of]

Scalar(scalar, width) == Type("Scalar", scalar, width, 0)
Array(t, maxSize)     == Type("Array", "", maxSize, t)   \* maxSize 0: none
Optional(t)           == Type("Optional", "", 0, t)
Message(m)            == Type("Message", "", 0, m)
OneOf(o)              == Type("OneOf", "", 0, o)
Enum(e)               == Type("Enum", "", 0, e)

Field(name, number, type) == [name |-> name, fieldNumber |-> number, type |-> type]

(* std::bit_width: the least w with n < 2^w. *)
BitWidth(n) == CHOOSE w \in 0..n : n < 2^w /\ \A v \in 0..(w - 1) : 2^v <= n

AtLeast1(n) == IF n < 1 THEN 1 ELSE n

(* An array of CHAR is a string to JSON (generateJsonTable). *)
IsString(ir, t) ==
  /\ ir.types[t].kind = "Array"
  /\ ir.types[ir.types[t].of].kind = "Scalar"
  /\ ir.types[ir.types[t].of].scalar = "CHAR"

(* The arms of a oneof as the field numbers that choose them. *)
fieldNumbers(ir, o) ==
  [i \in DOMAIN ir.oneOfs[o] |-> ir.fields[ir.oneOfs[o][i]].fieldNumber]

(* bit_cast between int64_t and a register of 64 bits. *)
Signed(r, U64)   == IF r < U64 \div 2 THEN r ELSE r - U64
Unsigned(n, U64) == n % U64

(* pack/include/ao/pack/ZigZag.h, on such a register. *)
encodeZigZag(r, U64) == IF r < U64 \div 2 THEN 2 * r ELSE 2 * (U64 - r) - 1
decodeZigZag(n, U64) == IF n % 2 = 0 THEN n \div 2 ELSE U64 - (n + 1) \div 2

-----------------------------------------------------------------------------
(* generateCodecTable (compiler/src/CodecCommon.cpp): the field numbers of *)
(* all oneofs lie in one table, and each oneof knows where its own start.  *)
generateCodecTable(ir) ==
  LET numbers[o \in 0..Len(ir.oneOfs)] ==
        IF o = 0 THEN <<>> ELSE numbers[o - 1] \o fieldNumbers(ir, o)
  IN  [fields            |-> [f \in DOMAIN ir.fields |-> ir.fields[f].fieldNumber],
       oneofs            |-> [o \in DOMAIN ir.oneOfs |->
                                [fieldStart |-> Len(numbers[o - 1]),
                                 fieldCount |-> Len(ir.oneOfs[o]),
                                 indexWidth |-> BitWidth(Len(ir.oneOfs[o]))]],
       oneofFieldNumbers |-> numbers[Len(ir.oneOfs)]]
=============================================================================
