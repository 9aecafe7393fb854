---------------------------- MODULE JsonReference ----------------------------
(***************************************************************************)
(* The meaning of a document under a schema, by recursion over the schema  *)
(* and not by a program: which documents fit it (the accepted and the      *)
(* rejected payloads of compiler/tests/JSONCodecTests.cpp). DiskCodec and  *)
(* MCJsonNet say the same way what stands for them on a wire. The machine  *)
(* with its adapters is checked against it.                                *)
(***************************************************************************)
EXTENDS JsonAdapters

RECURSIVE Fits(_, _, _, _)

(* Fields that the document lacks read as m_null does. *)
FieldPath(d, p, name) == IF Has(d, p, name) THEN Child(p, name) ELSE NullPath
Elements(d, p)        == [i \in 1..Cardinality(Children(d, p)) |-> Element(p, i - 1)]

KindsOf(scalar) ==
  CASE scalar = "BOOL"         -> {"bool"}
    [] scalar \in {"F32", "F64"} -> {"number", "char", "float"}
    [] OTHER                   -> {"number", "char"}

(* The arm whose number is the case of the document. *)
ArmsAt(ir, o, d, p) ==
  {i \in DOMAIN ir.oneOfs[o] :
     Has(d, p, "case") /\ d[Child(p, "case")] = Node("number", fieldNumbers(ir, o)[i])}

Fits(ir, t, d, p) ==
  LET type == ir.types[t]
  IN  CASE type.kind = "Scalar" ->
             /\ d[p].kind \in KindsOf(type.scalar)
             /\ type.scalar \in {"UINT", "CHAR", "BYTE"} => d[p].value >= 0
        [] type.kind = "Enum"   -> d[p].kind = "number"
        [] type.kind = "Array"  ->
             IsList(d, p) /\ \A q \in Children(d, p) : Fits(ir, type.of, d, q)
        [] type.kind = "Optional" ->
             \/ d[p].kind = "null"
             \/ d[p].kind = "object" /\ (Has(d, p, "value") => Fits(ir, type.of, d, Child(p, "value")))
        [] type.kind = "OneOf" ->
             \E i \in ArmsAt(ir, type.of, d, p) :
               Has(d, p, "value") /\ Fits(ir, ir.fields[ir.oneOfs[type.of][i]].type, d, Child(p, "value"))
        [] type.kind = "Message" ->
             /\ d[p].kind = "object"
             /\ \A i \in DOMAIN ir.messages[type.of] :
                  LET f == ir.fields[ir.messages[type.of][i]]
                  IN  Fits(ir, f.type, d, FieldPath(d, p, f.name))
=============================================================================
