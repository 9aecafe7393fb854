--------------------------------- MODULE Ast ---------------------------------
(***************************************************************************)
(* What the parser makes of a schema file (compiler/include/ao/schema/     *)
(* Ast.h).                                                                 *)
(*                                                                         *)
(* A file is a sequence of declarations, a block one of fields. All of one *)
(* sort have the same shape, an optional value is a set of at most one,    *)
(* and a name is <<qualifier, identifier>>, the qualifier empty where the  *)
(* source has none. Imports are the business of ModuleGraph.               *)
(***************************************************************************)
EXTENDS Naturals, Sequences, SequencesExt

NoName    == <<"", "">>
NoProfile == [profile \in {} |-> <<>>]

(* Types. What a type has not is empty. *)
AstType(type, name, subtypes, properties, block) ==
  [type |-> type, name |-> name, subtypes |-> subtypes,
   properties |-> properties, block |-> block]

Plain(type)            == AstType(type, NoName, <<>>, <<>>, <<>>)
With(type, properties) == AstType(type, NoName, <<>>, properties, <<>>)
Of(type, subtypes)     == AstType(type, NoName, subtypes, <<>>, <<>>)
OneOfBlock(block)      == AstType("ONEOF", NoName, <<>>, <<>>, block)
User(package, name)    == AstType("USER", <<package, name>>, <<>>, <<>>, <<>>)

(* A property of a type: its name and a literal. *)
IntProperty(name, n)    == [name |-> name, type |-> "INT", number |-> n]
StringProperty(name, s) == [name |-> name, type |-> "STRING", string |-> s]

(* What is in a block; effective is filled in by computeDirectives. *)
AstField(number, name, typeName, directives) ==
  [is |-> "field", fieldNumber |-> number, name |-> name, typeName |-> typeName,
   directives |-> directives, effective |-> NoProfile]
AstReserved(numbers)   == [is |-> "reserved", fieldNumbers |-> numbers]
AstDefault(directives) == [is |-> "default", directives |-> directives]
AstEnumValue(number, name) == [is |-> "value", fieldNumber |-> number, name |-> name]

(* Declarations. *)
AstPackage(name) == [is |-> "package", name |-> name]
AstMessage(messageId, name, block, directives) ==
  [is |-> "message", messageId |-> messageId, name |-> name, block |-> block,
   directives |-> directives, effective |-> NoProfile]
AstEnum(name, block, directives) ==
  [is |-> "enum", messageId |-> {}, name |-> name, block |-> block,
   directives |-> directives, effective |-> NoProfile]

(* A directive sets the properties of one profile: a sequence of <<tag, value>>. *)
Directive(profile, properties) == [directiveName |-> profile, properties |-> properties]

-----------------------------------------------------------------------------
Only(seq, kinds) == SelectSeq(seq, LAMBDA x : x.is \in kinds)
Fields(block)    == Only(block, {"field"})
Definitions(ast) == Only(ast, {"message", "enum"})
==============================================================================
