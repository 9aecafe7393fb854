------------------------------ MODULE MCCppDisk ------------------------------
(***************************************************************************)
(* Objects of the types that are generated for a few schemas: every arm,   *)
(* presence and length from 0 to 2, variants that are unset too. Each is   *)
(* decoded into a new object and into the fullest one there is.            *)
(***************************************************************************)
EXTENDS CppDisk, Schemas

CONSTANT Fresh    \* the number that scalars of an object have

Prod(S, T) == {a @@ b : a \in S, b \in T}

RECURSIVE Objects(_, _, _)
Objects(s, t, p) ==
  LET type     == s.types[t]
      Elem(i)  == Objects(s, type.of, Element(p, i))
      Arm(i)   == Objects(s, s.fields[s.oneOfs[type.of][i]].type, Child(p, "value"))
      WithField(objects, f) ==
        Prod(objects, Objects(s, s.fields[f].type, Child(p, s.fields[f].name)))
  IN  CASE type.kind = "Enum"     -> {p :> Value(s.enums[type.of][Len(s.enums[type.of])])}
        [] type.kind = "Scalar"   ->
             {p :> Value(CASE type.scalar = "BOOL" -> 1 [] type.scalar = "INT" -> -Fresh [] OTHER -> Fresh)}
        [] type.kind = "Array"    ->
             {p :> Vector} \cup Prod({p :> Vector}, Elem(0))
               \cup Prod(Prod({p :> Vector}, Elem(0)), Elem(1))
        [] type.kind = "Optional" ->
             {p :> StdOptional} \cup Prod({p :> StdOptional}, Objects(s, type.of, Child(p, "value")))
        [] type.kind = "OneOf"    ->
             {p :> Variant(0)}
               \cup UNION {Prod({p :> Variant(i)}, Arm(i)) : i \in DOMAIN s.oneOfs[type.of]}
        [] type.kind = "Message"  -> FoldLeft(WithField, {p :> Struct}, s.messages[type.of])

MCJobs ==
  UNION {LET s   == Schema[name]
             all == Objects(s, Len(s.types), Root)
             fullest == CHOOSE d \in all : \A e \in all : Cardinality(DOMAIN e) <= Cardinality(DOMAIN d)
         IN  {[schema |-> name, doc |-> d, target |-> target] :
                d \in all, target \in {Zero(s, Len(s.types), Root), fullest}} :
           name \in SchemaNames}
MCIRs == Schema
=============================================================================
