------------------------------ MODULE Directives ------------------------------
(***************************************************************************)
(* computeModuleDirectives (compiler/src/ComputeDirectives.cpp): which     *)
(* directives are in effect where. A table is a function from profiles to  *)
(* their properties; the stack of tables is a sequence, outermost first.   *)
(***************************************************************************)
EXTENDS AstWalks, TLC

(* setDirectives: a profile set again loses what it had in this table. *)
setDirectives(table, directives) ==
  FoldLeft(LAMBDA t, d : (d.directiveName :> d.properties) @@ t, table, directives)

At(table, profile) == IF profile \in DOMAIN table THEN table[profile] ELSE <<>>

(* Mutant: the inner table comes first. *)
MergeInnerFirst(table, other) ==
  [p \in DOMAIN table \cup DOMAIN other |-> At(other, p) \o At(table, p)]

merge(table, other) ==
  [p \in DOMAIN table \cup DOMAIN other |-> At(table, p) \o At(other, p)]

getCurrentTable(tables) == FoldLeft(merge, NoProfile, tables)

RECURSIVE WithTypeDirectives(_, _), WithBlockDirectives(_, _)

(* computeTypeNameDirectives *)
WithTypeDirectives(tables, t) ==
  [t EXCEPT !.subtypes = [i \in DOMAIN @ |-> WithTypeDirectives(tables, @[i])],
            !.block    = WithBlockDirectives(tables, @)]

(* computeMessageBlockDirectives: the block's own table on top of the      *)
(* others, and a field's own table on top of that.                         *)
WithBlockDirectives(tables, block) ==
  LET visit(s, entry) ==
        LET here == tables \o <<s.table, setDirectives(NoProfile, entry.directives)>>
        IN  CASE entry.is = "field" ->
                   [s EXCEPT !.out = Append(@, [entry EXCEPT
                      !.effective = getCurrentTable(here),
                      !.typeName  = WithTypeDirectives(here, @)])]
              [] entry.is = "default" ->
                   [table |-> setDirectives(s.table, entry.directives), out |-> Append(s.out, entry)]
              [] OTHER -> [s EXCEPT !.out = Append(@, entry)]
  IN  FoldLeft(visit, [table |-> NoProfile, out |-> <<>>], block).out

(* A declaration's own table is gone before its block is visited. *)
WithDirectives(ast) ==
  LET visit(s, decl) ==
        LET effective == getCurrentTable(<<s.table, setDirectives(NoProfile, decl.directives)>>)
        IN  CASE decl.is = "message" ->
                   [s EXCEPT !.out = Append(@, [decl EXCEPT
                      !.effective = effective,
                      !.block     = WithBlockDirectives(<<s.table>>, @)])]
              [] decl.is = "enum" ->
                   [s EXCEPT !.out = Append(@, [decl EXCEPT !.effective = effective])]
              [] decl.is = "default" ->
                   [table |-> setDirectives(s.table, decl.directives), out |-> Append(s.out, decl)]
              [] OTHER -> [s EXCEPT !.out = Append(@, decl)]
  IN  FoldLeft(visit, [table |-> NoProfile, out |-> <<>>], ast).out

-----------------------------------------------------------------------------
(* The same without a stack: what is in effect on a field is what is in    *)
(* effect around its block, then the latest default before it in the       *)
(* block, then its own directives.                                         *)

(* Of the directives for a profile, the last one counts. *)
Latest(directives, profile) ==
  LET of == SelectSeq(directives, LAMBDA d : d.directiveName = profile)
  IN  IF of = <<>> THEN <<>> ELSE Last(of).properties

DefaultsBefore(block, i) ==
  FlattenSeq([j \in 1..(i - 1) |->
                IF block[j].is = "default" THEN block[j].directives ELSE <<>>])

InEffect(around, block, i, profile) ==
  At(around, profile) \o Latest(DefaultsBefore(block, i), profile)
    \o Latest(block[i].directives, profile)

HasEffect(around, block, i, effective) ==
  \A p \in DOMAIN effective \cup DOMAIN around
             \cup {d.directiveName : d \in ToSet(DefaultsBefore(block, i) \o block[i].directives)} :
    At(effective, p) = InEffect(around, block, i, p)

RECURSIVE OwnBlocks(_), BlockScoped(_, _)

(* The blocks of the oneofs in a type that are in no other block. *)
OwnBlocks(t) == {t.block} \cup UNION {OwnBlocks(t.subtypes[i]) : i \in DOMAIN t.subtypes}

BlockScoped(around, block) ==
  \A i \in DOMAIN block : block[i].is = "field" =>
    /\ HasEffect(around, block, i, block[i].effective)
    /\ \A inner \in OwnBlocks(block[i].typeName) : BlockScoped(block[i].effective, inner)

(* For a whole file: its defaults are around the blocks of its messages. *)
FileScoped(ast) ==
  \A i \in DOMAIN ast : ast[i].is \in {"message", "enum"} =>
    /\ HasEffect(NoProfile, ast, i, ast[i].effective)
    /\ ast[i].is = "message" =>
         LET global == [p \in {d.directiveName : d \in ToSet(DefaultsBefore(ast, i))} |->
                          Latest(DefaultsBefore(ast, i), p)]
         IN  BlockScoped(global, ast[i].block)
=============================================================================
