------------------------------- MODULE AstWalks -------------------------------
(***************************************************************************)
(* The walks through a file that the passes of the compiler share: each of *)
(* them goes through blocks, the types of their fields, and the blocks and *)
(* subtypes of those.                                                      *)
(***************************************************************************)
EXTENDS Ast

RECURSIVE TypesOf(_), TypesIn(_), NamedBlocks(_)

(* The types written in a block, those within types and oneofs included. *)
TypesIn(block) == UNION {TypesOf(block[i].typeName) : i \in {i \in DOMAIN block : block[i].is = "field"}}
TypesOf(t)     == {t} \cup UNION {TypesOf(t.subtypes[i]) : i \in DOMAIN t.subtypes} \cup TypesIn(t.block)

(* Those that validateFieldNames comes to: it goes on into a subtype only  *)
(* when the pointer to it is null, so into none.                           *)
NamedBlocks(block) ==
  {block} \cup UNION {NamedBlocks(block[i].typeName.block) :
                        i \in {i \in DOMAIN block : block[i].is = "field"}}
=============================================================================
