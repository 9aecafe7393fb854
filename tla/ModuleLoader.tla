----------------------------- MODULE ModuleLoader -----------------------------
(***************************************************************************)
(* SemanticContext::loadFile (compiler/src/SemanticContext.cpp), step by   *)
(* step: the FIFO work list of paths to resolve, the graph of importers    *)
(* built on the way, the elimination of nodes nobody imports, and the      *)
(* commit of the parsed files into m_modules. A context lives on after a   *)
(* call: aosl-compiler calls loadFile once per input file.                 *)
(*                                                                         *)
(* An AstFile is its import declarations; an error is its ErrorCode; the   *)
(* AstImport kept in the graph only for the text of the cycle error is     *)
(* left out.                                                               *)
(***************************************************************************)
EXTENDS Naturals, Sequences

CONSTANTS
  Name, Path, NoPath, NoAst, FileSystems,   \* as in ModuleGraph
  MaxCalls                                  \* bound: calls on one context

ASSUME LoaderAssumption ==
  /\ NoPath \notin Path
  /\ NoAst \notin Seq(Name)
  /\ FileSystems \subseteq [resolve : [Name -> Path \cup {NoPath}],
                           ast     : [Path -> Seq(Name) \cup {NoAst}]]

VARIABLES
  files,         \* the file system behind the frontend, see ModuleGraph
  m_modules,     \* SemanticContext::m_modules: path -> dependencies
  m_errors,      \* the codes of SemanticContext::m_errors
  result,        \* the last call and what it returned, see ModuleGraph
  calls,         \* calls made so far
  phase,         \* where the call in progress is
  moduleName,    \* its argument
  toResolve,     \* its work list
  importer,      \* the file whose declarations it goes through, ...
  decls,         \* ... and those it has not seen yet
  pendingFiles,  \* the files it parsed
  dependedOnBy,  \* node -> the nodes that import it and are still there
  dependsOn      \* file -> its resolved imports

context == <<files, m_modules, m_errors, result, calls>>
graph   == <<dependedOnBy, dependsOn>>
local   == <<phase, moduleName, toResolve, importer, decls, pendingFiles, graph>>
vars    == <<context, local>>

(* The promise, of which this module is the implementation. *)
Graph == INSTANCE ModuleGraph

FAILED_TO_RESOLVE_IMPORT == "FAILED_TO_RESOLVE_IMPORT"
SYNTAX_ERROR             == "SYNTAX_ERROR"
CYCLICAL_IMPORT          == "CYCLICAL_IMPORT"
ErrorCode == {FAILED_TO_RESOLVE_IMPORT, SYNTAX_ERROR, CYCLICAL_IMPORT}

NoName == "none"
NoCall == [of |-> NoName, value |-> NoName]
Results == {NoCall} \cup [of : Name, value : {"ok", "failed"}]
Empty  == [p \in {} |-> {}]
NoDeps == [p \in Path |-> {}]

(* The path of the call in progress. *)
root == files.resolve[moduleName]

Returns(n, value) == result' = [of |-> n, value |-> value]

(* The locals of loadFile; between calls there are none. *)
Enter(n) ==
  /\ phase' = "resolving" /\ moduleName' = n /\ toResolve' = <<files.resolve[n]>>
  /\ UNCHANGED <<importer, decls, pendingFiles, graph>>
Leave ==
  /\ phase' = "idle" /\ moduleName' = NoName
  /\ pendingFiles' = {} /\ dependedOnBy' = Empty /\ dependsOn' = NoDeps
  /\ UNCHANGED <<toResolve, importer, decls>>

Init ==
  /\ files \in FileSystems
  /\ m_modules = Empty
  /\ m_errors = {}
  /\ result = NoCall
  /\ calls = 0
  /\ phase = "idle" /\ moduleName = NoName
  /\ toResolve = <<>> /\ importer = NoPath /\ decls = <<>>
  /\ pendingFiles = {} /\ dependedOnBy = Empty /\ dependsOn = NoDeps

-----------------------------------------------------------------------------
(* loadFile enters: the root does not resolve and the call is over, ...    *)
RootUnresolved(n) ==
  /\ phase = "idle" /\ calls < MaxCalls
  /\ files.resolve[n] = NoPath
  /\ m_errors' = m_errors \cup {FAILED_TO_RESOLVE_IMPORT}
  /\ Returns(n, "failed")
  /\ calls' = calls + 1
  /\ UNCHANGED <<files, m_modules, local>>

(* ... or it does, and it is the first path to look at.                    *)
RootResolved(n) ==
  /\ phase = "idle" /\ calls < MaxCalls
  /\ files.resolve[n] # NoPath
  /\ Enter(n)
  /\ calls' = calls + 1
  /\ UNCHANGED <<files, m_modules, m_errors, result>>

-----------------------------------------------------------------------------
current == Head(toResolve)
Pop     == toResolve' = Tail(toResolve)

(* Mutant: a node of the graph counts as parsed. *)
AlreadyANode(p) == p \in DOMAIN dependedOnBy \/ p \in DOMAIN m_modules

(* A path already parsed by this call or loaded by an earlier one. *)
AlreadyKnown(p) == p \in pendingFiles \/ p \in DOMAIN m_modules

(* Mutant: the loop continues before it pops. *)
SkipWithoutPop ==
  /\ phase = "resolving" /\ toResolve # <<>>
  /\ AlreadyKnown(current)
  /\ UNCHANGED vars

Skip ==
  /\ phase = "resolving" /\ toResolve # <<>>
  /\ AlreadyKnown(current)
  /\ Pop
  /\ UNCHANGED <<context, phase, moduleName, importer, decls, pendingFiles, graph>>

(* The frontend cannot read or parse the file; the call goes on. *)
ParseFails ==
  /\ phase = "resolving" /\ toResolve # <<>>
  /\ ~ AlreadyKnown(current) /\ ~ Graph!Parses(current)
  /\ m_errors' = m_errors \cup {SYNTAX_ERROR}
  /\ Pop
  /\ UNCHANGED <<files, m_modules, result, calls,
                 phase, moduleName, importer, decls, pendingFiles, graph>>

(* operator[] of the graph: d is a node, with no importer if it is new.    *)
WithNode(g, d) == [q \in DOMAIN g \cup {d} |-> IF q \in DOMAIN g THEN g[q] ELSE {}]
WithEdge(g, d, p) == [WithNode(g, d) EXCEPT ![d] = @ \cup {p}]

(* Mutant: the file is not recorded as pending. *)
ParseUnrecorded ==
  /\ phase = "resolving" /\ toResolve # <<>>
  /\ ~ AlreadyKnown(current) /\ Graph!Parses(current)
  /\ dependedOnBy' = WithNode(dependedOnBy, current)
  /\ phase' = "importing"
  /\ importer' = current
  /\ decls' = files.ast[current]
  /\ Pop
  /\ UNCHANGED <<context, moduleName, pendingFiles, dependsOn>>

Parse ==
  /\ phase = "resolving" /\ toResolve # <<>>
  /\ ~ AlreadyKnown(current) /\ Graph!Parses(current)
  /\ pendingFiles' = pendingFiles \cup {current}
  /\ dependedOnBy' = WithNode(dependedOnBy, current)
  /\ phase' = "importing"
  /\ importer' = current
  /\ decls' = files.ast[current]
  /\ Pop
  /\ UNCHANGED <<context, moduleName, dependsOn>>

(* Mutant: an import that does not resolve is passed over in silence. *)
ImportPassedOver ==
  /\ phase = "importing" /\ decls # <<>>
  /\ files.resolve[Head(decls)] = NoPath
  /\ decls' = Tail(decls)
  /\ UNCHANGED <<context, phase, moduleName, toResolve, importer, pendingFiles, graph>>

ImportUnresolved ==
  /\ phase = "importing" /\ decls # <<>>
  /\ files.resolve[Head(decls)] = NoPath
  /\ m_errors' = m_errors \cup {FAILED_TO_RESOLVE_IMPORT}
  /\ decls' = Tail(decls)
  /\ UNCHANGED <<files, m_modules, result, calls,
                 phase, moduleName, toResolve, importer, pendingFiles, graph>>

ImportResolved ==
  /\ phase = "importing" /\ decls # <<>>
  /\ files.resolve[Head(decls)] # NoPath
  /\ LET dependency == files.resolve[Head(decls)]
     IN  /\ dependsOn' = [dependsOn EXCEPT ![importer] = @ \cup {dependency}]
         /\ toResolve' = Append(toResolve, dependency)
         /\ dependedOnBy' = WithEdge(dependedOnBy, dependency, importer)
  /\ decls' = Tail(decls)
  /\ UNCHANGED <<context, phase, moduleName, importer, pendingFiles>>

ImportsDone ==
  /\ phase = "importing" /\ decls = <<>>
  /\ phase' = "resolving"
  /\ importer' = NoPath
  /\ UNCHANGED <<context, moduleName, toResolve, decls, pendingFiles, graph>>

GraphBuilt ==
  /\ phase = "resolving" /\ toResolve = <<>>
  /\ phase' = "eliminating"
  /\ UNCHANGED <<context, moduleName, toResolve, importer, decls, pendingFiles, graph>>

-----------------------------------------------------------------------------
Free(p) == p \in DOMAIN dependedOnBy /\ dependedOnBy[p] = {}

(* Mutant: the node goes, but stays an importer of the others. *)
EliminateNodeOnly(p) ==
  /\ phase = "eliminating" /\ Free(p)
  /\ dependedOnBy' = [q \in DOMAIN dependedOnBy \ {p} |-> dependedOnBy[q]]
  /\ UNCHANGED <<context, phase, moduleName, toResolve, importer, decls,
                 pendingFiles, dependsOn>>

(* getNextFreeNode takes the first free node in the iteration order of an  *)
(* unordered_map: any of them.                                             *)
Eliminate(p) ==
  /\ phase = "eliminating" /\ Free(p)
  /\ dependedOnBy' = [q \in DOMAIN dependedOnBy \ {p} |-> dependedOnBy[q] \ {p}]
  /\ UNCHANGED <<context, phase, moduleName, toResolve, importer, decls,
                 pendingFiles, dependsOn>>

NoFreeNode == \A p \in DOMAIN dependedOnBy : ~ Free(p)

ReportCycle ==
  /\ phase = "eliminating" /\ NoFreeNode
  /\ DOMAIN dependedOnBy # {}
  /\ m_errors' = m_errors \cup {CYCLICAL_IMPORT}
  /\ Returns(moduleName, "failed")
  /\ Leave
  /\ UNCHANGED <<files, m_modules, calls>>

(* Mutants: files are committed although a cycle is left, ... *)
CommitDespiteCycle ==
  /\ phase = "eliminating" /\ NoFreeNode
  /\ m_modules' = [p \in DOMAIN m_modules \cup pendingFiles |->
                     IF p \in pendingFiles THEN dependsOn[p] ELSE m_modules[p]]
  /\ Returns(moduleName, "ok")
  /\ Leave
  /\ UNCHANGED <<files, m_errors, calls>>

(* ... or they replace those of earlier calls. *)
CommitReplaces ==
  /\ phase = "eliminating" /\ NoFreeNode
  /\ DOMAIN dependedOnBy = {}
  /\ m_modules' = [p \in pendingFiles |-> dependsOn[p]]
  /\ Returns(moduleName, "ok")
  /\ Leave
  /\ UNCHANGED <<files, m_errors, calls>>

Commit ==
  /\ phase = "eliminating" /\ NoFreeNode
  /\ DOMAIN dependedOnBy = {}
  /\ m_modules' = [p \in DOMAIN m_modules \cup pendingFiles |->
                     IF p \in pendingFiles THEN dependsOn[p] ELSE m_modules[p]]
  /\ Returns(moduleName, "ok")
  /\ Leave
  /\ UNCHANGED <<files, m_errors, calls>>

-----------------------------------------------------------------------------
Step ==
  \/ Skip
  \/ ParseFails
  \/ Parse
  \/ ImportUnresolved
  \/ ImportResolved
  \/ ImportsDone
  \/ GraphBuilt
  \/ \E p \in Path : Eliminate(p)
  \/ ReportCycle
  \/ Commit

Next ==
  \/ \E n \in Name : RootUnresolved(n) \/ RootResolved(n)
  \/ Step

Spec == Init /\ [][Next]_vars

(* Inside a call the thread keeps running; nothing forces another call. *)
FairSpec == Spec /\ WF_vars(Step)

-----------------------------------------------------------------------------
(* Every variable has its type. *)
TypeOK ==
  /\ files \in FileSystems
  /\ DOMAIN m_modules \subseteq Path
  /\ m_modules \in [DOMAIN m_modules -> SUBSET Path]
  /\ m_errors \subseteq ErrorCode
  /\ result \in Results
  /\ calls \in Nat
  /\ phase \in {"idle", "resolving", "importing", "eliminating"}
  /\ moduleName \in Name \cup {NoName}
  /\ phase # "idle" => moduleName \in Name
  /\ toResolve \in Seq(Path)
  /\ importer \in Path \cup {NoPath}
  /\ phase = "importing" => importer \in pendingFiles
  /\ decls \in Seq(Name)
  /\ pendingFiles \subseteq Path
  /\ DOMAIN dependedOnBy \subseteq Path
  /\ dependedOnBy \in [DOMAIN dependedOnBy -> SUBSET Path]
  /\ dependsOn \in [Path -> SUBSET Path]

(* However many roots were loaded, one call after the other and each       *)
(* looking at its own new files only, the modules loaded so far never      *)
(* import each other in a cycle (SemanticContext.cpp:143-175).             *)
LoadedAcyclic == Graph!Acyclic(DOMAIN m_modules, m_modules)

(* resolveModuleSymbols looks every dependency up with m_modules.at(): a   *)
(* dependency that is missing there is one the frontend could not parse,   *)
(* never one that a call forgot (SemanticContext.cpp:96-104,431).          *)
DepsAccountedFor ==
  \A p \in DOMAIN m_modules :
    /\ Graph!Parses(p)
    /\ \A d \in m_modules[p] : d \in DOMAIN m_modules \/ ~ Graph!Parses(d)

(* loadFile returns true even when an import failed. What makes that safe  *)
(* for a caller that looks at the error list: an empty list means every    *)
(* import of every loaded module resolved to a loaded module.              *)
CleanMeansComplete ==
  (phase = "idle" /\ m_errors = {}) =>
    \A p \in DOMAIN m_modules : \A n \in Graph!Imports(p) :
      files.resolve[n] \in m_modules[p] /\ files.resolve[n] \in DOMAIN m_modules

(* A loaded module stays, with the dependencies it was loaded with: no     *)
(* later call, failed or not, reloads it or takes it away.                 *)
LoadedIsStable ==
  [][\A p \in DOMAIN m_modules :
       p \in DOMAIN m_modules' /\ m_modules'[p] = m_modules[p]]_vars

(* Step by step or at once, a call has the outcome of ModuleGraph: all     *)
(* reached files or none, and failure only for an unresolved root or a     *)
(* real cycle, whatever node the hash map offers first.                    *)
ImplementsGraph == Graph!Spec

(* Cyclic imports included, every call returns: the work list runs dry and *)
(* the elimination stops (SemanticContext.cpp:84,143).                     *)
CallReturns == (phase # "idle") ~> (phase = "idle")
-----------------------------------------------------------------------------
(* The inductive invariant behind these properties.                        *)

Queued(p) == \E i \in DOMAIN toResolve : toResolve[i] = p
Unseen    == {files.resolve[decls[i]] : i \in DOMAIN decls} \ {NoPath}

(* What a call has parsed is fresh, and its recorded imports are those of  *)
(* the file, once all its declarations were seen.                          *)
PendingInv ==
  /\ pendingFiles \subseteq Graph!Fresh
  /\ \A p \in pendingFiles :
       dependsOn[p] \cup (IF p = importer THEN Unseen ELSE {}) = Graph!Deps(p)
  /\ \A p \in Path \ pendingFiles : dependsOn[p] = {}
  /\ phase # "importing" => importer = NoPath /\ decls = <<>>

(* The graph holds, of each remaining node, the remaining importers. *)
GraphInv ==
  /\ phase = "idle" =>
       pendingFiles = {} /\ toResolve = <<>> /\ dependedOnBy = Empty
  /\ phase = "eliminating" => toResolve = <<>>
  /\ phase \in {"resolving", "importing"} =>
       DOMAIN dependedOnBy = pendingFiles \cup UNION {dependsOn[p] : p \in pendingFiles}
  /\ phase # "idle" =>
       \A d \in DOMAIN dependedOnBy :
         dependedOnBy[d] =
           {p \in pendingFiles \cap DOMAIN dependedOnBy : d \in dependsOn[p]}

(* A set of parsed files that reaches into the eliminated ones has a       *)
(* member that no member imports.                                          *)
EliminatedInv ==
  phase = "eliminating" =>
    \A S \in SUBSET pendingFiles :
      S \subseteq DOMAIN dependedOnBy \/ Graph!HasSource(S, dependsOn)

(* Parsed and queued is what the root reaches: nothing is forgotten, and   *)
(* nothing is parsed that the root does not need.                          *)
WorkListInv ==
  phase # "idle" =>
    /\ root # NoPath
    /\ root \in Graph!Fresh => root \in pendingFiles \/ Queued(root)
    /\ \A p \in pendingFiles : \A d \in dependsOn[p] \cap Graph!Fresh :
         d \in pendingFiles \/ Queued(d)
    /\ pendingFiles \subseteq Graph!Reached(root)
    /\ \A p \in Graph!Fresh : Queued(p) => p \in Graph!Reached(root)

(* With no error so far, every recorded import is, or is about to be, a    *)
(* loaded module.                                                          *)
CleanInv ==
  m_errors = {} =>
    /\ \A p \in DOMAIN m_modules : \A n \in Graph!Imports(p) :
         files.resolve[n] \in m_modules[p] /\ files.resolve[n] \in DOMAIN m_modules
    /\ \A p \in pendingFiles :
         /\ \A d \in dependsOn[p] :
              d \in DOMAIN m_modules \/ d \in pendingFiles \/ Queued(d)
         /\ \A n \in Graph!Imports(p) :
              \/ files.resolve[n] # NoPath
              \/ p = importer /\ \E i \in DOMAIN decls : decls[i] = n

IInv ==
  /\ TypeOK
  /\ LoadedAcyclic
  /\ DepsAccountedFor
  /\ PendingInv
  /\ GraphInv
  /\ EliminatedInv
  /\ WorkListInv
  /\ CleanInv
=============================================================================
