----------------------------- MODULE ModuleGraph -----------------------------
(***************************************************************************)
(* What SemanticContext::loadFile promises its caller, without the work    *)
(* list and without the elimination of free nodes: one call loads every    *)
(* parsable file the root reaches through files that are not loaded yet,   *)
(* or, when those files import each other in a cycle, loads nothing.       *)
(*                                                                         *)
(* The frontend (CompilerFrontend: a resolver of module names and a parser *)
(* of files) is constant: the compiler reads the source tree it was given. *)
(***************************************************************************)
EXTENDS Naturals, Sequences

CONSTANTS
  Name,         \* module names, as import declarations write them
  Path,         \* resolved paths
  NoPath,       \* what resolveModule answers for a name it cannot resolve
  NoAst,        \* what the frontend's loadFile answers for a file it cannot parse
  FileSystems   \* the file systems the frontend may find

(***************************************************************************)
(* A file system f behind the frontend:                                    *)
(*   f.resolve[n]  the path of module n, or NoPath                         *)
(*   f.ast[p]      the modules file p imports, in declaration order, or    *)
(*                 NoAst when there is no such file or it does not parse   *)
(***************************************************************************)

VARIABLES
  files,       \* the file system, chosen once
  m_modules,   \* loaded path -> its dependencies
  result       \* the last call, of which module, and its value: "ok" or "failed"

Parses(p) == files.ast[p] # NoAst

Imports(p) == {files.ast[p][i] : i \in DOMAIN files.ast[p]}

(* The resolved imports of file p: what loadFile stores as dependencies. *)
Deps(p) == {files.resolve[n] : n \in Imports(p)} \ {NoPath}

(* The files that a call would parse when it meets them. *)
Fresh == {p \in Path : Parses(p) /\ p \notin DOMAIN m_modules}

(* S holds the fresh root and, with a file, the fresh files it imports. *)
Closed(root, S) ==
  /\ root \in Fresh => root \in S
  /\ \A p \in S : Deps(p) \cap Fresh \subseteq S

(* The least closed set: the files one call has to parse. *)
Reached(root) ==
  LET closed == {S \in SUBSET Fresh : Closed(root, S)}
  IN  {p \in Fresh : \A S \in closed : p \in S}

(***************************************************************************)
(* E[p] is the set of files p imports. V is acyclic when each nonempty     *)
(* part of it has a file that no file of that part imports. (For a finite  *)
(* V this says that no file reaches itself.)                               *)
(***************************************************************************)
HasSource(S, E) == \E p \in S : \A q \in S : p \notin E[q]
Acyclic(V, E)   == \A S \in SUBSET V : S # {} => HasSource(S, E)

Init ==
  /\ files \in FileSystems
  /\ m_modules = [p \in {} |-> {}]
  /\ result = [of |-> "none", value |-> "none"]

(* The root resolved: all that it reaches is loaded, or nothing is. *)
Load(n, root) ==
  LET new == Reached(root)
      E   == [p \in new |-> Deps(p)]
  IN  \/ /\ Acyclic(new, E)
         /\ m_modules' = [p \in DOMAIN m_modules \cup new |->
                            IF p \in new THEN E[p] ELSE m_modules[p]]
         /\ result' = [of |-> n, value |-> "ok"]
      \/ /\ ~ Acyclic(new, E)
         /\ result' = [of |-> n, value |-> "failed"]
         /\ UNCHANGED m_modules

loadFile(n) ==
  /\ UNCHANGED files
  /\ \/ /\ files.resolve[n] # NoPath
        /\ Load(n, files.resolve[n])
     \/ /\ files.resolve[n] = NoPath
        /\ result' = [of |-> n, value |-> "failed"]
        /\ UNCHANGED m_modules

Next == \E n \in Name : loadFile(n)

vars == <<files, m_modules, result>>
Spec == Init /\ [][Next]_vars
=============================================================================
