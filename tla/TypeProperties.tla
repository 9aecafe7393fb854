---------------------------- MODULE TypeProperties ----------------------------
(***************************************************************************)
(* The properties of the types (compiler/src/AstBaseType.cpp), which make  *)
(* the width of an integer: int(bits=8, encoding="fixed").                 *)
(***************************************************************************)
EXTENDS Ast, Integers

CONSTANTS IntMax, U32   \* the largest int, and the number of values of an unsigned

When(b, e) == IF b THEN {e} ELSE {}

(* IntParseProperties::parseProperties, one property after the other. *)
ParseProperty(s, property) ==
  CASE property.name = "bits" /\ property.type = "INT" ->
         IF property.number > IntMax THEN [s EXCEPT !.threw = TRUE]
         ELSE [s EXCEPT !.bits = property.number % U32]
    [] property.name = "encoding" /\ property.type = "STRING" ->
         IF property.string \in {"zigzag", "fixed"}
         THEN [s EXCEPT !.setZigZag = TRUE, !.encoding = property.string]
         ELSE [s EXCEPT !.setZigZag = TRUE, !.errors = @ \cup {"INVALID_VALUE_FOR_TYPE_PROPERTY"}]
    [] property.name \in {"bits", "encoding"} ->
         [s EXCEPT !.setZigZag = @ \/ property.name = "encoding",
                   !.errors = @ \cup {"INVALID_VALUE_FOR_TYPE_PROPERTY"}]
    [] OTHER -> [s EXCEPT !.errors = @ \cup {"UNKNOWN_TYPE_PROPERTY"}]

IntProperties(properties) ==
  LET s == FoldLeft(ParseProperty,
                    [bits |-> 0, encoding |-> "zigzag", setZigZag |-> FALSE,
                     errors |-> {}, threw |-> FALSE], properties)
      encoding == IF ~ s.setZigZag /\ s.bits > 0 THEN "fixed" ELSE s.encoding
  IN  [s EXCEPT !.errors = @ \cup When((encoding = "fixed") # (s.bits > 0),
                                       "INVALID_VALUE_FOR_TYPE_PROPERTY")]

(* parseTypeProperties: only integers have any. *)
Properties(t) ==
  IF t.type \in {"INT", "UINT"} THEN IntProperties(t.properties)
  ELSE [bits |-> 0, errors |-> When(t.properties # <<>>, "UNKNOWN_TYPE_PROPERTY"), threw |-> FALSE]

(* What the IR has as the width of an integer. *)
BitsOf(t) == Properties(t).bits
=============================================================================
