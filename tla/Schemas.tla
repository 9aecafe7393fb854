------------------------------- MODULE Schemas -------------------------------
(***************************************************************************)
(* Small schemas, as the IR that the front end makes of them. Between them *)
(* they have every kind of type, and the nestings that matter to a         *)
(* machine with one stack per kind: a container in itself through another. *)
(***************************************************************************)
EXTENDS CodeGen

Empty == [types |-> <<>>, fields |-> <<>>, oneOfs |-> <<>>, messages |-> <<>>, enums |-> <<>>]

(* message Inner { 1 a : uint8; }   message M { 1 inner : Inner; 2 b : bool; } *)
Nested ==
  [Empty EXCEPT
    !.types    = <<Scalar("UINT", 8), Scalar("BOOL", 1), Message(1), Message(2)>>,
    !.fields   = <<Field("a", 1, 1), Field("inner", 1, 3), Field("b", 2, 2)>>,
    !.messages = << <<1>>, <<2, 3>> >>]

(* message Inner { 1 a : uint8; }                                          *)
(* message M { 1 xs : array<uint8, max = 2>; 2 o : optional<Inner>; }      *)
Containers ==
  [Empty EXCEPT
    !.types    = <<Scalar("UINT", 8), Array(1, 2), Message(1), Optional(3), Message(2)>>,
    !.fields   = <<Field("a", 1, 1), Field("xs", 1, 2), Field("o", 2, 4)>>,
    !.messages = << <<1>>, <<2, 3>> >>]

(* message Inner { 1 a : uint8; }                                          *)
(* message M { 3 c : oneof { 1 p : uint8; 2 q : Inner; }; }                *)
Choice ==
  [Empty EXCEPT
    !.types    = <<Scalar("UINT", 8), Message(1), OneOf(1), Message(2)>>,
    !.fields   = <<Field("a", 1, 1), Field("p", 1, 1), Field("q", 2, 2), Field("c", 3, 3)>>,
    !.oneOfs   = << <<2, 3>> >>,
    !.messages = << <<1>>, <<4>> >>]

(* message M { 1 xs : array<optional<oneof { 1 p : uint8; 2 q : array<int8>; }>>; } *)
Mixed ==
  [Empty EXCEPT
    !.types    = <<Scalar("UINT", 8), Scalar("INT", 8), Array(2, 0), OneOf(1), Optional(4),
                   Array(5, 0), Message(1)>>,
    !.fields   = <<Field("p", 1, 1), Field("q", 2, 3), Field("xs", 1, 6)>>,
    !.oneOfs   = << <<1, 2>> >>,
    !.messages = << <<3>> >>]

(* message M { 1 s : string; 2 bs : bytes; 3 f : float; } *)
Text ==
  [Empty EXCEPT
    !.types    = <<Scalar("CHAR", 8), Array(1, 0), Scalar("BYTE", 8), Array(3, 0),
                   Scalar("F32", 32), Message(1)>>,
    !.fields   = <<Field("s", 1, 2), Field("bs", 2, 4), Field("f", 3, 5)>>,
    !.messages = << <<1, 2, 3>> >>]

(* enum E { 0 none; 1 some; }   message M { 1 e : E; } *)
Level ==
  [Empty EXCEPT
    !.types    = <<Enum(1), Message(1)>>,
    !.fields   = <<Field("e", 1, 1)>>,
    !.messages = << <<1>> >>,
    !.enums    = << <<0, 1>> >>]

(* message M { 1 a : uint8; 2 b : uint8; }   and with a new number for a *)
Flat ==
  [Empty EXCEPT
    !.types    = <<Scalar("UINT", 8), Message(1)>>,
    !.fields   = <<Field("a", 1, 1), Field("b", 2, 1)>>,
    !.messages = << <<1, 2>> >>]
Renumbered == [Flat EXCEPT !.fields = <<Field("a", 3, 1), Field("b", 2, 1)>>]

(* message M { 1 u : uint(bits=0); 2 i : int(bits=0); 3 vs : array<uint(bits=0)>; } *)
Sizes ==
  [Empty EXCEPT
    !.types    = <<Scalar("UINT", 0), Scalar("INT", 0), Array(1, 0), Message(1)>>,
    !.fields   = <<Field("u", 1, 1), Field("i", 2, 2), Field("vs", 3, 3)>>,
    !.messages = << <<1, 2, 3>> >>]

(* message M { 1 n : int(bits=9); 2 d : double; 3 c : oneof { 4 only : bool; }; } *)
Widths ==
  [Empty EXCEPT
    !.types    = <<Scalar("INT", 9), Scalar("F64", 64), Scalar("BOOL", 1), OneOf(1), Message(1)>>,
    !.fields   = <<Field("only", 4, 3), Field("n", 1, 1), Field("d", 2, 2), Field("c", 3, 4)>>,
    !.oneOfs   = << <<1>> >>,
    !.messages = << <<2, 3, 4>> >>]

Schema ==
  [nested |-> Nested, containers |-> Containers, choice |-> Choice, mixed |-> Mixed,
   text |-> Text, level |-> Level, flat |-> Flat, renumbered |-> Renumbered,
   sizes |-> Sizes, widths |-> Widths]

-----------------------------------------------------------------------------
(* The programs of a few of them. A program is named by its schema and its *)
(* direction; the program "empty" is that of a Format never generated.     *)
CONSTANT SchemaNames    \* the schemas of the run

Named(schema, encode) == <<schema, encode>> :> generateProgram(Schema[schema], encode)
Generated ==
  FoldSet(LAMBDA schema, programs : Named(schema, TRUE) @@ Named(schema, FALSE) @@ programs,
          <<"empty", TRUE>> :> [codeWords |-> <<>>, typeEntryPc |-> <<>>],
          SchemaNames)
MCPrograms == Generated   \* TLC evaluates Generated once
=============================================================================
