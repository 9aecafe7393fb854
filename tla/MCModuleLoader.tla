--------------------------- MODULE MCModuleLoader ---------------------------
(***************************************************************************)
(* ModuleLoader over every file system of three paths in which a file      *)
(* imports at most one module, by any name, and over every one in which    *)
(* two of them import at most MaxImports modules each by their own names:  *)
(* two names may share a path (a file reached as "pkg.a" and as            *)
(* "./a.aosl"), one name has none.                                         *)
(***************************************************************************)
EXTENDS ModuleLoader

CONSTANTS a, b, c, MaxImports

MCPath == {a, b, c}
MCResolve ==
  [n \in Name |-> CASE n = "a" -> a
                    [] n = "b" -> b
                    [] n \in {"c", "alias"} -> c
                    [] OTHER -> NoPath]

ImportLists(names, most) == UNION {[1..k -> names] : k \in 0..most}
Few  == [MCPath -> ImportLists(Name, 1) \cup {NoAst}]
Many == {f \in [MCPath -> ImportLists({"a", "b", "c"}, MaxImports)] : Len(f[c]) <= 1}

MCFileSystems == [resolve : {MCResolve}, ast : Few \cup Many]
=============================================================================
