------------------------------- MODULE Documents -------------------------------
(***************************************************************************)
(* Documents for the schemas: small ones that fit, with every arm, presence*)
(* and length from 0 to 2, and those with one place spoiled.               *)
(***************************************************************************)
EXTENDS JsonAdapters, Schemas

CONSTANTS
  Numbers(_, _),    \* the numbers of a scalar of a width, and
  Chars             \* the characters that documents have

Small(scalar, width) == IF scalar = "INT" THEN {-2} ELSE {3}

Number(n) == Node("number", n)
Prod(S, T) == {a @@ b : a \in S, b \in T}

ScalarNodes(scalar, width) ==
  CASE scalar = "BOOL"           -> {Node("bool", 1)}
    [] scalar \in {"F32", "F64"} -> {Node("float", 2)}
    [] OTHER                     -> {Number(n) : n \in Numbers(scalar, width)}

RECURSIVE Values(_, _, _)
Values(s, t, p) ==
  LET type == s.types[t]
      Elem(i) == Values(s, type.of, Element(p, i))
      Strings == {p :> Node("string", 0)}
                   \cup {(p :> Node("string", 0)) @@ (Element(p, 0) :> Node("char", c)) : c \in Chars}
      FieldValues(values, f) ==
        Prod(values, Values(s, s.fields[f].type, Child(p, s.fields[f].name)))
  IN  CASE type.kind = "Scalar"   -> {p :> n : n \in ScalarNodes(type.scalar, type.width)}
        [] type.kind = "Enum"     -> {p :> Number(s.enums[type.of][1])}
        [] type.kind = "Array"    ->
             IF IsString(s, t) THEN Strings
             ELSE {p :> List} \cup Prod({p :> List}, Elem(0)) \cup Prod(Prod({p :> List}, Elem(0)), Elem(1))
        [] type.kind = "Optional" ->
             {p :> Null, p :> Object} \cup Prod({p :> Object}, Values(s, type.of, Child(p, "value")))
        [] type.kind = "OneOf"    ->
             UNION {Prod({(p :> Object) @@ (Child(p, "case") :> Number(fieldNumbers(s, type.of)[i]))},
                         Values(s, s.fields[s.oneOfs[type.of][i]].type, Child(p, "value"))) :
                      i \in DOMAIN s.oneOfs[type.of]}
        [] type.kind = "Message"  -> FoldLeft(FieldValues, {p :> Object}, s.messages[type.of])

(* One place is dropped, or has something else in it. *)
Below(d, p) == {q \in DOMAIN d : p = q \/ IsStrictPrefix(p, q)}
Spoiled(d) ==
  LET InText(p) == p # Root /\ d[Front(p)].kind = "string"
      InList(p) == p # Root /\ d[Front(p)].kind = "array"
  IN  {[q \in DOMAIN d \ Below(d, p) |-> d[q]] : p \in {p \in DOMAIN d \ {Root} : ~ InText(p) /\ ~ InList(p)}}
        \cup {Put(d, p, n) : p \in {p \in DOMAIN d : ~ InText(p)},
                             n \in {Null, Object, List, Number(7), Number(-1), Node("bool", 1),
                                    Node("string", 0)}}

DocsOf(name) == Values(Schema[name], Len(Schema[name].types), Root)
JobsOf(name, docs) == {[schema |-> name, reader |-> name, doc |-> d] : d \in docs}

FittingJobs == UNION {JobsOf(name, DocsOf(name)) : name \in SchemaNames}
SpoiledJobs == UNION {JobsOf(name, UNION {Spoiled(d) : d \in DocsOf(name)}) : name \in SchemaNames}
MCIRs       == Schema
=============================================================================
