------------------------------ MODULE IRMeaning ------------------------------
(***************************************************************************)
(* What the tables of IRGeneration say of a declaration, and in which      *)
(* order the C++ back end writes the types that they list.                 *)
(***************************************************************************)
EXTENDS IRGeneration

(* The width that is written with an integer. *)
WrittenBits(t) ==
  LET bits == SelectSeq(t.properties, LAMBDA p : p.name = "bits")
  IN  IF bits = <<>> THEN 0 ELSE Last(bits).number

SameBag(s, t) ==
  /\ Len(s) = Len(t)
  /\ \A x \in ToSet(s) \cup ToSet(t) :
       Len(SelectSeq(s, LAMBDA y : y = x)) = Len(SelectSeq(t, LAMBDA y : y = x))

ProfileOf(ir, entry) ==
  IF entry.domain = Custom THEN ir.strings[entry.profileName] ELSE profileLookup[entry.domain]

(* Every profile once, with its properties in some order. *)
DirectivesMean(ir, d, effective) ==
  LET set == ir.directiveSets[d]
  IN  /\ Len(set) = Cardinality(DOMAIN effective)
      /\ \A p \in DOMAIN effective : \E i \in DOMAIN set :
           /\ ProfileOf(ir, set[i]) = p
           /\ SameBag([k \in DOMAIN set[i].properties |->
                         <<ir.strings[set[i].properties[k][1]], ir.strings[set[i].properties[k][2]]>>],
                      effective[p])

(* Type i of the tables is the type t of the source, where a name may be   *)
(* any of meant[name]; likewise a field.                                   *)
RECURSIVE TypeMeans(_, _, _, _), FieldMeans(_, _, _, _)

TypeMeans(ir, i, t, meant) ==
  LET type == ir.types[i]
      list(scalar) == type.kind = "Array" /\ ir.types[type.of] = Scalar(scalar, 8)
  IN  CASE t.type = "BOOL"            -> type = Scalar("BOOL", 1)
        [] t.type \in {"INT", "UINT"} -> type = Scalar(t.type, WrittenBits(t))
        [] t.type = "F32"             -> type = Scalar("F32", 32)
        [] t.type = "F64"             -> type = Scalar("F64", 64)
        [] t.type = "STRING"          -> list("CHAR")
        [] t.type = "BYTES"           -> list("BYTE")
        [] t.type = "ARRAY"           -> type.kind = "Array" /\ TypeMeans(ir, type.of, t.subtypes[1], meant)
        [] t.type = "OPTIONAL"        -> type.kind = "Optional" /\ TypeMeans(ir, type.of, t.subtypes[1], meant)
        [] t.type = "USER"            -> type \in meant[t.name]
        [] t.type = "ONEOF"           ->
             /\ type.kind = "OneOf"
             /\ LET arms == ir.oneOfs[type.of]
                    fields == Fields(t.block)
                IN  /\ Len(arms) = Len(fields)
                    /\ \A a, b \in DOMAIN arms : a < b =>
                         ir.fields[arms[a]].fieldNumber < ir.fields[arms[b]].fieldNumber
                    /\ \A f \in ToSet(fields) : \E a \in DOMAIN arms : FieldMeans(ir, arms[a], f, meant)

FieldMeans(ir, i, f, meant) ==
  /\ ir.strings[ir.fields[i].name] = f.name
  /\ ir.fields[i].fieldNumber = f.fieldNumber
  /\ TypeMeans(ir, ir.fields[i].type, f.typeName, meant)
  /\ DirectivesMean(ir, ir.fields[i].directives, f.effective)

(* A message keeps the order of its fields, an enum sorts its values. *)
MessageMeans(ir, m, message, fqn, meant) ==
  LET fields == Fields(message.block)
  IN  /\ ir.messages[m] # NoMessage
      /\ ir.strings[ir.messages[m].name] = fqn
      /\ ir.messages[m].messageNumber = message.messageId
      /\ Len(ir.messages[m].fields) = Len(fields)
      /\ \A i \in DOMAIN fields : FieldMeans(ir, ir.messages[m].fields[i], fields[i], meant)
      /\ DirectivesMean(ir, ir.messages[m].directives, message.effective)

EnumMeans(ir, e, enum, fqn) ==
  LET values == Only(enum.block, {"value"})
  IN  /\ ir.strings[ir.enums[e].name] = fqn
      /\ SameBag([i \in DOMAIN ir.enums[e].fields |->
                    <<ir.enums[e].fields[i][1], ir.strings[ir.enums[e].fields[i][2]]>>],
                 [i \in DOMAIN values |-> <<values[i].fieldNumber, values[i].name>>])
      /\ DirectivesMean(ir, ir.enums[e].directives, enum.effective)

-----------------------------------------------------------------------------
(* generateTypeDef (CppBackend.cpp) writes the types by their place.       *)

(* The types that the definition of one names. *)
Components(ir, i) ==
  LET type == ir.types[i]
      of(fields) == {ir.fields[f].type : f \in fields}
  IN  CASE type.kind \in {"Array", "Optional"} -> {type.of}
        [] type.kind = "OneOf"   -> of(ToSet(ir.oneOfs[type.of]))
        [] type.kind = "Message" -> IF ir.messages[type.of] = NoMessage THEN {}
                                    ELSE of(ToSet(ir.messages[type.of].fields))
        [] OTHER                 -> {}

(* Those that are known only by an alias, which no declaration announces. *)
Aliased(ir, i) ==
  \/ ir.types[i].kind \in {"Optional", "OneOf"}
  \/ /\ ir.types[i].kind = "Array"
     /\ ir.types[ir.types[i].of] \notin {Scalar("CHAR", 8), Scalar("BYTE", 8)}

(* The messages that a value of a type holds, not on the heap as an array  *)
(* does: their structs have to be complete.                                *)
RECURSIVE Held(_, _)
Held(ir, i) ==
  CASE ir.types[i].kind = "Message" -> {i}
    [] ir.types[i].kind \in {"Optional", "OneOf"} ->
         UNION {Held(ir, c) : c \in Components(ir, i)}
    [] OTHER -> {}

InOrder(ir, i) ==
  /\ \A c \in Components(ir, i) : Aliased(ir, c) => c < i
  /\ ir.types[i].kind = "Message" =>
       \A c \in Components(ir, i) : \A h \in Held(ir, c) : h < i
=============================================================================
