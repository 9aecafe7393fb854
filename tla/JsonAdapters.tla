----------------------------- MODULE JsonAdapters -----------------------------
(***************************************************************************)
(* The objects that the machine reads a JSON document from and builds one  *)
(* with (JsonEncodeAdapter and JsonDecodeAdapter of compiler/src/          *)
(* JSONBackend.cpp).                                                       *)
(*                                                                         *)
(* A document is a function from paths to nodes. A path is a sequence of   *)
(* keys, an element's key is its index; the characters of a string are its *)
(* elements. The pointers on the adapters' stacks are paths.               *)
(*                                                                         *)
(* A call takes an adapter to [obj |-> the adapter afterwards, answer |->  *)
(* what it returned]. The machine stops at the first call that failed, so  *)
(* that no call finds an adapter that is not ok.                           *)
(***************************************************************************)
EXTENDS IR, SequencesExt

Node(kind, value) == [kind |-> kind, value |-> value]
Null        == Node("null", 0)
Object      == Node("object", 0)
List        == Node("array", 0)

Root == <<>>
Child(p, key)  == Append(p, key)
Element(p, i)  == Append(p, ToString(i))
Children(d, p) == {q \in DOMAIN d : Len(q) = Len(p) + 1 /\ IsStrictPrefix(p, q)}
Has(d, p, key) == Child(p, key) \in DOMAIN d

(* *top = node: whatever was below is gone. *)
Put(d, p, node) ==
  [q \in {q \in DOMAIN d : ~ IsStrictPrefix(p, q)} \cup {p} |-> IF q = p THEN node ELSE d[q]]

(* The nodes of f, and those of d elsewhere: @@, which no prover knows.    *)
Over(f, d) == [p \in DOMAIN f \cup DOMAIN d |-> IF p \in DOMAIN f THEN f[p] ELSE d[p]]

(* m_null, for a field that the document does not have. The braces of its  *)
(* initialiser (JSONBackend.h:111) make it the array [null], not null.     *)
NullPath    == <<"m_null">>
WithNull(d) ==
  Over([p \in {NullPath, Element(NullPath, 0)} |-> IF p = NullPath THEN List ELSE Null], d)

Does(o, answer) == [obj |-> o, answer |-> answer]
Fails(o, e)     == [obj |-> [o EXCEPT !.err = e], answer |-> 0]
Push(o, p)      == Does([o EXCEPT !.stack = Append(@, p)], 0)
popStack(o)     == IF o.stack = <<>> THEN Fails(o, "BadData")
                   ELSE Does([o EXCEPT !.stack = Front(@)], 0)
Leaves == {"FIELD_END", "OPT_END_VALUE", "ONEOF_ARM_END", "ARRAY_ELEM_END"}

(* A char is signed. *)
CharValue(c)     == IF c < 128 THEN c ELSE c - 256

-----------------------------------------------------------------------------
(* JsonEncodeAdapter: [stack, err] over the document d. *)
EncodeAdapter == [stack |-> <<Root>>, err |-> "Ok"]

(* A mutant: nothing is pushed for a field that is missing. *)
FieldBeginOnlyFound(ir, d, o, f) ==
  LET p == Child(Last(o.stack), ir.fields[f].name)
  IN  IF p \in DOMAIN d THEN Push(o, p) ELSE Does(o, 0)

fieldBegin(ir, d, o, f) ==
  LET p == Child(Last(o.stack), ir.fields[f].name)
  IN  Push(o, IF p \in DOMAIN d THEN p ELSE NullPath)

(* A mutant: every object is taken for a present value. *)
OptPresentByKind(d, o, top) ==
  CASE d[top].kind = "null"   -> Does(o, 0)
    [] d[top].kind = "object" -> Does(o, 1)
    [] OTHER                  -> Fails(o, "BadData")

(* An object without "value" is absent, as null is. *)
optPresent(d, o, top) ==
  CASE d[top].kind = "null"   -> Does(o, 0)
    [] d[top].kind = "object" -> Does(o, IF Has(d, top, "value") THEN 1 ELSE 0)
    [] OTHER                  -> Fails(o, "BadData")

IsList(d, p) == d[p].kind \in {"array", "string"}
arrayLen(d, o, top) ==
  IF IsList(d, top) THEN Does(o, Cardinality(Children(d, top))) ELSE Fails(o, "BadData")
arrayEnterElem(d, o, top, i) ==
  IF IsList(d, top) /\ Element(top, i) \in DOMAIN d THEN Push(o, Element(top, i))
  ELSE Fails(o, "BadData")

(* The case number is cut to 32 bits before it is looked up. *)
oneofIndex(ir, d, o, top, oneof, U32) ==
  IF Has(d, top, "case") /\ d[Child(top, "case")].kind = "number"
  THEN LET caseFieldNum == d[Child(top, "case")].value % U32
           matching == {i \in DOMAIN fieldNumbers(ir, oneof) :
                          fieldNumbers(ir, oneof)[i] = caseFieldNum}
       IN  IF matching = {} THEN Fails(o, "BadData") ELSE Does(o, Min(matching) - 1)
  ELSE Fails(o, "BadData")

(* Key "value" of a oneof; of an optional it is known to be there. *)
enterValue(d, o, top) ==
  IF Has(d, top, "value") THEN Push(o, Child(top, "value")) ELSE Fails(o, "BadData")

(* boolean, u64, i64, f32 and f64. A character has become a number whose   *)
(* sign was extended (JSONBackend.cpp:100).                                *)
readScalar(d, o, top, mode, U64) ==
  LET node == d[top]
  IN  CASE mode = "BOOL" /\ node.kind = "bool" -> Does(o, node.value)
        [] mode \in {"UINT", "CHAR", "BYTE"} /\ node.kind = "number" /\ node.value >= 0 ->
             Does(o, Unsigned(node.value, U64))
        [] mode \in {"UINT", "CHAR", "BYTE", "INT", "F32", "F64"} /\ node.kind = "char" ->
             Does(o, Unsigned(CharValue(node.value), U64))
        [] mode = "INT" /\ node.kind = "number" -> Does(o, Unsigned(node.value, U64))
        [] mode \in {"F32", "F64"} /\ node.kind \in {"number", "float"} ->
             Does(o, Unsigned(node.value, U64))
        [] OTHER -> Fails(o, "BadData")

(* What runInstr<true> asks of the object: at is the machine's view, the   *)
(* register, the index of the innermost array and the innermost oneof.     *)
EncodeCall(ir, d, o, ins, at, U32, U64) ==
  LET top == Last(o.stack)
  IN  CASE ins.op = "MSG_BEGIN" ->
             IF d[top].kind = "object" THEN Does(o, 0) ELSE Fails(o, "BadData")
        [] ins.op = "FIELD_BEGIN"        -> fieldBegin(ir, d, o, ins.imm + 1)
        [] ins.op = "O_READ_OPT_PRESENT" -> optPresent(d, o, top)
        [] ins.op = "O_READ_ARRAY_LEN"   -> arrayLen(d, o, top)
        [] ins.op = "ARRAY_ELEM_BEGIN"   -> arrayEnterElem(d, o, top, at.idx)
        [] ins.op = "O_READ_ONEOF_ARM"   -> oneofIndex(ir, d, o, top, at.oneof + 1, U32)
        [] ins.op \in {"OPT_BEGIN_VALUE", "ONEOF_ARM_BEGIN"} -> enterValue(d, o, top)
        [] ins.op = "O_READ_SCALAR"      -> readScalar(d, o, top, ins.mode, U64)
        [] ins.op \in Leaves             -> popStack(o)
        [] OTHER                         -> Does(o, 0)

-----------------------------------------------------------------------------
(* JsonDecodeAdapter: [doc, stack, inString, err]. *)
DecodeAdapter ==
  [doc |-> [p \in {Root} |-> Null], stack |-> <<Root>>, inString |-> FALSE, err |-> "Ok"]

Sets(o, p, node)  == Does([o EXCEPT !.doc = Put(@, p, node)], 0)
Grows(o, p, node) == Push([o EXCEPT !.doc = Put(@, p, node)], p)

optSetPresent(o, top, present) ==
  IF present
  THEN Does([o EXCEPT !.doc = Put(Put(@, top, Object), Child(top, "value"), Null)], 0)
  ELSE Sets(o, top, Null)

arrayPrepare(o, top, len) ==
  IF o.doc[top].kind # "array" THEN Fails(o, "BadData")
  ELSE Does([o EXCEPT !.doc = Over([p \in {Element(top, i) : i \in 0..(len - 1)} |-> Null],
                                    Put(@, top, List))], 0)

(* The numbers of a string become its characters. *)
arrayExit(o, top) ==
  LET elems    == Children(o.doc, top)
      closed   == [o EXCEPT !.inString = FALSE]
      Fits(q)  == o.doc[q].kind = "number" /\ o.doc[q].value \in 0..255
      AsText   == [q \in elems \cup {top} |->
                     IF q = top THEN Node("string", 0) ELSE Node("char", o.doc[q].value)]
  IN  IF o.doc[top].kind # "array" \/ (o.inString /\ \E q \in elems : ~ Fits(q))
      THEN Fails(closed, "BadData")
      ELSE IF o.inString
      THEN Does([closed EXCEPT !.doc = Over(AsText, @)], 0)
      ELSE Does(closed, 0)

(* An arm out of range reads past the table: garbage is what lies there. *)
setOneofIndex(ir, o, top, oneof, arm, garbage) ==
  LET numbers == fieldNumbers(ir, oneof)
  IN  Sets(o, Child(top, "case"),
           Node("number", IF arm < Len(numbers) THEN numbers[arm + 1] ELSE garbage))

writeScalar(o, top, mode, r, U64) ==
  Sets(o, top, CASE mode = "BOOL"          -> Node("bool", IF r # 0 THEN 1 ELSE 0)
                 [] mode = "INT"           -> Node("number", Signed(r, U64))
                 [] mode \in {"F32","F64"} -> Node("float", Signed(r, U64))
                 [] OTHER                  -> Node("number", r))

(* What runInstr<false> asks of the object. *)
DecodeCall(ir, o, ins, at, garbage, U64) ==
  LET top == Last(o.stack)
  IN  CASE ins.op \in {"MSG_BEGIN", "ONEOF_BEGIN"} -> Sets(o, top, Object)
        [] ins.op = "FIELD_BEGIN" ->
             IF o.doc[top].kind = "object"
             THEN Grows(o, Child(top, ir.fields[ins.imm + 1].name), Null)
             ELSE Fails(o, "BadData")
        [] ins.op = "O_WRITE_OPT_PRESENT" -> optSetPresent(o, top, at.flag = 1)
        [] ins.op = "OPT_BEGIN_VALUE" ->
             IF Has(o.doc, top, "value") THEN Push(o, Child(top, "value")) ELSE Fails(o, "BadArg")
        [] ins.op = "ARRAY_BEGIN" ->
             Sets([o EXCEPT !.inString = IsString(ir, ins.imm + 1)], top, List)
        [] ins.op = "O_WRITE_ARRAY_LEN"  -> arrayPrepare(o, top, at.reg)
        [] ins.op = "ARRAY_ELEM_BEGIN"   -> Push(o, Element(top, at.idx))
        [] ins.op = "ARRAY_END"          -> arrayExit(o, top)
        [] ins.op = "O_WRITE_ONEOF_ARM"  -> setOneofIndex(ir, o, top, at.oneof + 1, at.reg, garbage)
        [] ins.op = "ONEOF_ARM_BEGIN"    -> Grows(o, Child(top, "value"), Null)
        [] ins.op = "O_WRITE_SCALAR"     -> writeScalar(o, top, ins.mode, at.reg, U64)
        [] ins.op \in Leaves             -> popStack(o)
        [] OTHER                         -> Does(o, 0)
=============================================================================
