------------------------------ MODULE MCJsonNet ------------------------------
(***************************************************************************)
(* encodeJson and decodeJson over bit streams (compiler/include/ao/schema  *)
(* /JSONBackend.h:223-251): JsonCodec with the net codec. The wire counts  *)
(* in bits and arrives in whole bytes. Bits is the layout by recursion     *)
(* over the schema (the comments and the widths of NetCodec.h).            *)
(***************************************************************************)
EXTENDS JsonCodec, JsonReference, NetCodec, Documents

(* Two's complement; no number here has more than 30 bits but a sign.      *)
LowBits(n, width) ==
  [i \in 1..width |-> IF i > 30 THEN (IF n < 0 THEN 1 ELSE 0) ELSE (n \div 2^(i - 1)) % 2]

(* 0 and 7 bits, or 1, 0 and 14 bits in two bytes, lowest first; longer    *)
(* ones are left to BitSession.                                            *)
PrefixBits(n) ==
  IF n < 128 THEN LowBits(n, 7) \o <<0>>
  ELSE LowBits(n % 64, 6) \o <<0, 1>> \o LowBits(n \div 64, 8)

UIntBits(n, width) == IF width = 0 THEN PrefixBits(n) ELSE LowBits(n, width)
Zigzag(n)          == IF n >= 0 THEN 2 * n ELSE -2 * n - 1
IntBits(n, width)  == IF width = 0 THEN PrefixBits(Zigzag(n)) ELSE LowBits(n, width)

(* An array is as long as its width allows, a oneof's arm is one of those  *)
(* it has; a sign takes a bit.                                             *)
LengthWidth(type) == IF type.width = 0 THEN 0 ELSE AtLeast1(BitWidth(type.width))
SignedWidth(numbers) ==
  1 + Max({BitWidth(IF numbers[i] < 0 THEN -numbers[i] ELSE numbers[i]) : i \in DOMAIN numbers})

ScalarLayout(type, node) ==
  LET n == IF node.kind = "char" THEN CharValue(node.value) ELSE node.value
  IN  CASE type.scalar = "BOOL" -> <<n>>
        [] type.scalar = "F32"  -> LowBits(n, 32)
        [] type.scalar = "F64"  -> LowBits(n, 64)
        [] type.scalar = "INT"  -> IntBits(n, type.width)
        [] OTHER                -> UIntBits(n, type.width)

RECURSIVE Bits(_, _, _, _)
Bits(s, t, d, p) ==
  LET type == s.types[t]
  IN  CASE type.kind = "Scalar" -> ScalarLayout(type, d[p])
        [] type.kind = "Enum"   -> LowBits(d[p].value, SignedWidth(s.enums[type.of]))
        [] type.kind = "Array"  ->
             UIntBits(Cardinality(Children(d, p)), LengthWidth(type))
               \o FlattenSeq([i \in DOMAIN Elements(d, p) |-> Bits(s, type.of, d, Elements(d, p)[i])])
        [] type.kind = "Optional" ->
             IF Has(d, p, "value") THEN <<1>> \o Bits(s, type.of, d, Child(p, "value")) ELSE <<0>>
        [] type.kind = "OneOf" ->
             LET arm == CHOOSE i \in ArmsAt(s, type.of, d, p) : TRUE
             IN  LowBits(arm - 1, BitWidth(Len(s.oneOfs[type.of])))
                   \o Bits(s, s.fields[s.oneOfs[type.of][arm]].type, d, Child(p, "value"))
        [] type.kind = "Message" ->
             FlattenSeq([i \in DOMAIN s.messages[type.of] |->
               LET f == s.fields[s.messages[type.of][i]]
               IN  Bits(s, f.type, d, FieldPath(d, p, f.name))])

-----------------------------------------------------------------------------
(* Capacities and what arrives are counted in bits, like the wire.         *)
NetEncoder(bits)         == WriteStream([i \in 1..(bits \div ByteBits) |-> 0])
NetTell(t, c, ins, view) == NetEncode(t, c, ins, view, U64)
NetAsk(t, c, ins, view)  == NetDecode(t, c, ins, view, U32, U64)
NetErr(c)                == c.streamErr
NetCells(c) ==
  [i \in 1..c.bitPos |->
     (c.data[((i - 1) \div ByteBits) + 1] \div 2^((i - 1) % ByteBits)) % 2]
NetCuts(c) == {Least(ByteBits * n, c.bitPos) : n \in 0..byteSize(c)}
NetDecoder(c, bits) == ReadStream(SubSeq(c.data, 1, (bits + ByteBits - 1) \div ByteBits))

-----------------------------------------------------------------------------
(* Documents with the first and the last numbers of their width, a prefix  *)
(* integer taking a second byte from 128 on, and some of them spoiled.     *)
CONSTANT SpoiledNames    \* the schemas whose documents are spoiled

Extreme(scalar, width) ==
  CASE scalar = "INT" /\ width = 0 -> {-65, -64, 63, 64}
    [] scalar = "INT" /\ width # 0 -> {-(2^(width - 1)), 2^(width - 1) - 1}
    [] scalar # "INT" /\ width = 0 -> {127, 128, 300}
    [] OTHER                       -> {2^width - 1}

MCJobs ==
  FittingJobs \cup UNION {JobsOf(name, UNION {Spoiled(d) : d \in DocsOf(name)}) : name \in SpoiledNames}

(* A document as the schema wants it is decoded as it was encoded, values  *)
(* at the edge of their width and all (the round trips of                  *)
(* JSONCodecTests.cpp over bit streams).                                   *)
FittingComeBack == job \in FittingJobs => ComesBack
=============================================================================
