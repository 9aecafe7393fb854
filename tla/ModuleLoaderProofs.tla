-------------------------- MODULE ModuleLoaderProofs --------------------------
(***************************************************************************)
(* Theorems about ModuleLoader, for every set of paths and names, every    *)
(* file system and any number of calls.                                    *)
(***************************************************************************)
EXTENDS ModuleLoader, SequenceTheorems, TLAPS

(* The path of the call in progress stands for itself everywhere. *)
USE DEF root

(* The frontend's answers have their types. *)
LEMMA FilesType ==
  ASSUME files \in FileSystems
  PROVE  /\ files.resolve \in [Name -> Path \cup {NoPath}]
         /\ files.ast \in [Path -> Seq(Name) \cup {NoAst}]
  BY LoaderAssumption

(* The imports of a file that parses are paths. *)
LEMMA DepsType ==
  ASSUME files \in FileSystems, NEW p \in Path, Graph!Parses(p)
  PROVE  /\ files.ast[p] \in Seq(Name)
         /\ Graph!Imports(p) \subseteq Name
         /\ Graph!Deps(p) \subseteq Path
  BY FilesType DEF Graph!Parses, Graph!Imports, Graph!Deps

(* A queue holds its head and what its tail holds. *)
LEMMA QueueTail ==
  ASSUME NEW S, NEW q \in Seq(S), q # <<>>
  PROVE  /\ Head(q) \in S
         /\ Tail(q) \in Seq(S)
         /\ \A x : (\E i \in DOMAIN q : q[i] = x) <=>
                     \/ x = Head(q)
                     \/ \E i \in DOMAIN Tail(q) : Tail(q)[i] = x
<1>1. Head(q) \in S /\ Tail(q) \in Seq(S)
  OBVIOUS
<1>2. Len(q) \in Nat \ {0} /\ Head(q) = q[1] /\ Len(Tail(q)) = Len(q) - 1
      /\ \A i \in 1..(Len(q) - 1) : Tail(q)[i] = q[i + 1]
  BY SMT
<1>3. ASSUME NEW x, NEW i \in DOMAIN q, q[i] = x, x # Head(q)
      PROVE  \E j \in DOMAIN Tail(q) : Tail(q)[j] = x
  <2>1. i \in 2..Len(q)
    BY <1>2, <1>3
  <2>2. i - 1 \in DOMAIN Tail(q) /\ Tail(q)[i - 1] = x
    BY <2>1, <1>2, <1>1, <1>3
  <2> QED BY <2>2
<1>4. ASSUME NEW x, NEW j \in DOMAIN Tail(q), Tail(q)[j] = x
      PROVE  \E i \in DOMAIN q : q[i] = x
  BY <1>1, <1>2, <1>4
<1>5. 1 \in DOMAIN q
  BY <1>2
<1> QED BY <1>1, <1>2, <1>3, <1>4, <1>5

(* Appending to a queue adds its last element. *)
LEMMA QueueAppend ==
  ASSUME NEW S, NEW q \in Seq(S), NEW e \in S
  PROVE  /\ Append(q, e) \in Seq(S)
         /\ \A x : (\E i \in DOMAIN Append(q, e) : Append(q, e)[i] = x) <=>
                     \/ x = e
                     \/ \E i \in DOMAIN q : q[i] = x
<1>1. /\ Append(q, e) \in Seq(S) /\ Len(q) \in Nat
      /\ DOMAIN Append(q, e) = 1..(Len(q) + 1) /\ DOMAIN q = 1..Len(q)
      /\ Append(q, e)[Len(q) + 1] = e
      /\ \A i \in 1..Len(q) : Append(q, e)[i] = q[i]
  OBVIOUS
<1> QED BY <1>1

(* The work list after its head was taken. *)
LEMMA PopQueue ==
  ASSUME TypeOK, toResolve # <<>>, Pop
  PROVE  /\ toResolve' \in Seq(Path) /\ Head(toResolve) \in Path
         /\ \A p : Queued(p) <=> p = Head(toResolve) \/ Queued(p)'
<1>1. toResolve \in Seq(Path)
  BY DEF TypeOK
<1>2. /\ Head(toResolve) \in Path /\ Tail(toResolve) \in Seq(Path)
      /\ \A x : (\E i \in DOMAIN toResolve : toResolve[i] = x) <=>
                  \/ x = Head(toResolve)
                  \/ \E i \in DOMAIN Tail(toResolve) : Tail(toResolve)[i] = x
  BY <1>1, QueueTail
<1> QED BY <1>2 DEF Queued, Pop

(* The declarations left after the next one was seen. *)
LEMMA SeeDecl ==
  ASSUME TypeOK, decls # <<>>, decls' = Tail(decls)
  PROVE  /\ decls' \in Seq(Name) /\ Head(decls) \in Name
         /\ \A n : (\E i \in DOMAIN decls : decls[i] = n) <=>
                     n = Head(decls) \/ \E i \in DOMAIN decls' : decls'[i] = n
         /\ UNCHANGED files => Unseen = Unseen' \cup ({files.resolve[Head(decls)]} \ {NoPath})
<1>1. decls \in Seq(Name)
  BY DEF TypeOK
<1> DEFINE Before(n) == \E i \in DOMAIN decls : decls[i] = n
           After(n)  == \E i \in DOMAIN decls' : decls'[i] = n
<1>2. /\ decls' \in Seq(Name) /\ Head(decls) \in Name
      /\ \A n : Before(n) <=> n = Head(decls) \/ After(n)
  BY <1>1, QueueTail
<1>3. /\ \A x : x \in Unseen <=> x # NoPath /\ \E n : x = files.resolve[n] /\ Before(n)
      /\ \A x : x \in Unseen' <=> x # NoPath /\ \E n : x = files'.resolve[n] /\ After(n)
  BY DEF Unseen
<1>4. ASSUME UNCHANGED files
      PROVE  Unseen = Unseen' \cup ({files.resolve[Head(decls)]} \ {NoPath})
  <2> HIDE DEF Before, After
  <2> QED BY <1>2, <1>3, <1>4
<1> QED BY <1>2, <1>4

-----------------------------------------------------------------------------
(* What a call returns is a result. *)
LEMMA ReturnsResult ==
  ASSUME NEW n \in Name, NEW v \in {"ok", "failed"}, Returns(n, v)
  PROVE  (result \in Results)'
  BY DEF Returns, Results

(* The invariant holds before the first call. *)
LEMMA InitInv == Init => IInv
<1> SUFFICES ASSUME Init PROVE IInv
  OBVIOUS
<1> USE DEF Init, Empty, NoDeps
<1>1. TypeOK
  BY DEF TypeOK, NoCall, Results, NoName
<1>2. LoadedAcyclic /\ DepsAccountedFor
  BY DEF LoadedAcyclic, DepsAccountedFor, Graph!Acyclic
<1>3. PendingInv /\ GraphInv /\ EliminatedInv /\ WorkListInv /\ CleanInv
  BY DEF PendingInv, GraphInv, EliminatedInv, WorkListInv, CleanInv
<1> QED BY <1>1, <1>2, <1>3 DEF IInv

-----------------------------------------------------------------------------
(* Inside a call the frontend and the loaded modules do not change, and so *)
(* neither does what ModuleGraph derives from them.                        *)
LEMMA SameGraph ==
  ASSUME UNCHANGED <<files, m_modules>>
  PROVE  /\ Graph!Fresh' = Graph!Fresh
         /\ \A p : Graph!Parses(p)' = Graph!Parses(p)
         /\ \A p : Graph!Imports(p)' = Graph!Imports(p)
         /\ \A p : Graph!Deps(p)' = Graph!Deps(p)
         /\ \A r : Graph!Reached(r)' = Graph!Reached(r)
<1>1. /\ \A p : Graph!Parses(p)' = Graph!Parses(p)
      /\ \A p : Graph!Imports(p)' = Graph!Imports(p)
      /\ \A p : Graph!Deps(p)' = Graph!Deps(p)
  BY DEF Graph!Parses, Graph!Imports, Graph!Deps
<1>2. Graph!Fresh' = Graph!Fresh
  BY <1>1 DEF Graph!Fresh
<1>3. \A r, S : Graph!Closed(r, S)' = Graph!Closed(r, S)
  BY <1>1, <1>2, Zenon DEF Graph!Closed
<1>4. \A r : Graph!Reached(r)' = Graph!Reached(r)
  BY <1>2, <1>3, Zenon DEF Graph!Reached
<1> QED BY <1>1, <1>2, <1>4

(* The loaded modules, and what is known of them, stay as they are. *)
LEMMA SameModules ==
  ASSUME LoadedAcyclic, DepsAccountedFor, UNCHANGED <<files, m_modules>>
  PROVE  LoadedAcyclic' /\ DepsAccountedFor'
  BY DEF LoadedAcyclic, DepsAccountedFor, Graph!Acyclic, Graph!HasSource, Graph!Parses

(* A fresh file that the root, or a reached file, imports is reached. *)
LEMMA ReachedClosed ==
  ASSUME NEW r
  PROVE  /\ r \in Graph!Fresh => r \in Graph!Reached(r)
         /\ \A p \in Graph!Reached(r) :
              Graph!Deps(p) \cap Graph!Fresh \subseteq Graph!Reached(r)
  BY DEF Graph!Reached, Graph!Closed

(* Nothing else is: a closed set of fresh files holds all that is reached. *)
LEMMA ReachedLeast ==
  ASSUME NEW r, NEW S \in SUBSET Graph!Fresh, Graph!Closed(r, S)
  PROVE  Graph!Reached(r) \subseteq S
  BY DEF Graph!Reached

-----------------------------------------------------------------------------
(* One lemma per action: it preserves the inductive invariant.             *)

LEMMA RootUnresolvedInv ==
  ASSUME IInv, NEW n \in Name, RootUnresolved(n)
  PROVE  IInv'
<1> USE DEF IInv, RootUnresolved, local, graph
<1>1. TypeOK'
  <2>1. (result \in Results)'
    BY ReturnsResult
  <2> QED BY <2>1 DEF TypeOK, ErrorCode
<1>2. LoadedAcyclic' /\ DepsAccountedFor'
  BY SameModules
<1>3. PendingInv' /\ GraphInv' /\ EliminatedInv'
  BY SameGraph DEF PendingInv, GraphInv, EliminatedInv, Unseen, Graph!HasSource
<1>4. WorkListInv' /\ CleanInv'
  BY DEF WorkListInv, CleanInv
<1> QED BY <1>1, <1>2, <1>3, <1>4

LEMMA RootResolvedInv ==
  ASSUME IInv, NEW n \in Name, RootResolved(n)
  PROVE  IInv'
<1> USE DEF IInv, RootResolved, Enter, graph
<1>0. files.resolve[n] \in Path
  BY FilesType DEF TypeOK
<1>q. toResolve' \in Seq(Path) /\ \A p : Queued(p)' <=> p = root'
  BY <1>0 DEF Queued
<1>1. TypeOK'
  BY <1>0, <1>q DEF TypeOK
<1>2. LoadedAcyclic' /\ DepsAccountedFor'
  BY SameModules
<1>3. PendingInv' /\ EliminatedInv'
  BY SameGraph DEF PendingInv, GraphInv, EliminatedInv, Unseen
<1>4. GraphInv'
  BY DEF GraphInv, Empty
<1>5. WorkListInv'
  BY <1>q, SameGraph, ReachedClosed DEF WorkListInv, GraphInv
<1>6. CleanInv'
  BY SameGraph DEF CleanInv, GraphInv
<1> QED BY <1>1, <1>2, <1>3, <1>4, <1>5, <1>6

LEMMA SkipInv ==
  ASSUME IInv, Skip
  PROVE  IInv'
<1> USE DEF IInv, Skip, Pop, current, context, graph
<1>q. /\ toResolve' \in Seq(Path)
      /\ \A p : Queued(p) <=> p = Head(toResolve) \/ Queued(p)'
  BY PopQueue
<1>1. TypeOK'
  BY <1>q DEF TypeOK
<1>2. LoadedAcyclic' /\ DepsAccountedFor'
  BY SameModules
<1>3. PendingInv' /\ GraphInv' /\ EliminatedInv'
  BY SameGraph DEF PendingInv, GraphInv, EliminatedInv, Unseen, Graph!HasSource
<1>4. WorkListInv'
  BY <1>q, SameGraph DEF WorkListInv, AlreadyKnown, Graph!Fresh
<1>5. CleanInv'
  BY <1>q, SameGraph DEF CleanInv, AlreadyKnown
<1> QED BY <1>1, <1>2, <1>3, <1>4, <1>5

LEMMA ParseFailsInv ==
  ASSUME IInv, ParseFails
  PROVE  IInv'
<1> USE DEF IInv, ParseFails, Pop, current, graph
<1>q. /\ toResolve' \in Seq(Path)
      /\ \A p : Queued(p) <=> p = Head(toResolve) \/ Queued(p)'
  BY PopQueue
<1>1. TypeOK'
  BY <1>q DEF TypeOK, ErrorCode
<1>2. LoadedAcyclic' /\ DepsAccountedFor'
  BY SameModules
<1>3. PendingInv' /\ GraphInv' /\ EliminatedInv'
  BY SameGraph DEF PendingInv, GraphInv, EliminatedInv, Unseen, Graph!HasSource
<1>4. WorkListInv'
  BY <1>q, SameGraph DEF WorkListInv, Graph!Fresh
<1>5. CleanInv'
  BY DEF CleanInv
<1> QED BY <1>1, <1>2, <1>3, <1>4, <1>5

LEMMA ParseInv ==
  ASSUME IInv, Parse
  PROVE  IInv'
<1> USE DEF IInv, Parse, Pop, current, context
<1>q. /\ toResolve' \in Seq(Path) /\ Head(toResolve) \in Path
      /\ \A p : Queued(p) <=> p = Head(toResolve) \/ Queued(p)'
  BY PopQueue
<1>f. /\ Head(toResolve) \in Graph!Fresh /\ Head(toResolve) \notin pendingFiles
      /\ Head(toResolve) \in Graph!Reached(root)
  BY <1>q DEF AlreadyKnown, Graph!Fresh, WorkListInv, Queued
<1>d. /\ decls' \in Seq(Name)
      /\ Unseen' = Graph!Deps(Head(toResolve))
  BY <1>q, DepsType DEF TypeOK, Unseen, Graph!Deps, Graph!Imports
<1>1. TypeOK'
  BY <1>q, <1>d DEF TypeOK, WithNode
<1>2. LoadedAcyclic' /\ DepsAccountedFor'
  BY SameModules
<1>3. PendingInv'
  <2>1. pendingFiles \subseteq Path /\ importer \notin pendingFiles
    BY LoaderAssumption DEF PendingInv, TypeOK
  <2>2. \A p \in pendingFiles' :
          dependsOn[p] \cup (IF p = importer' THEN Unseen' ELSE {}) = Graph!Deps(p)
    BY <1>f, <1>d, <1>q, <2>1 DEF PendingInv
  <2> QED BY <1>f, <2>2, SameGraph DEF PendingInv
<1>4. GraphInv'
  BY <1>q, <1>f DEF GraphInv, WithNode, PendingInv, TypeOK
<1>5. EliminatedInv'
  BY DEF EliminatedInv
<1>6. WorkListInv'
  BY <1>q, <1>f, SameGraph DEF WorkListInv, PendingInv
<1>7. CleanInv'
  BY <1>q, <1>f, SameGraph DEF CleanInv, PendingInv, Graph!Imports
<1> QED BY <1>1, <1>2, <1>3, <1>4, <1>5, <1>6, <1>7

LEMMA ImportUnresolvedInv ==
  ASSUME IInv, ImportUnresolved
  PROVE  IInv'
<1> USE DEF IInv, ImportUnresolved, graph
<1>d. /\ decls' \in Seq(Name)
      /\ Unseen' = Unseen
  BY SeeDecl
<1>1. TypeOK'
  BY <1>d DEF TypeOK, ErrorCode
<1>2. LoadedAcyclic' /\ DepsAccountedFor'
  BY SameModules
<1>3. PendingInv' /\ GraphInv' /\ EliminatedInv'
  BY <1>d, SameGraph DEF PendingInv, GraphInv, EliminatedInv, Graph!HasSource
<1>4. WorkListInv'
  BY SameGraph DEF WorkListInv, Queued
<1>5. CleanInv'
  BY DEF CleanInv
<1> QED BY <1>1, <1>2, <1>3, <1>4, <1>5

LEMMA ImportResolvedInv ==
  ASSUME IInv, ImportResolved
  PROVE  IInv'
<1> DEFINE dep == files.resolve[Head(decls)]
<1> USE DEF IInv, ImportResolved, context
<1>d. /\ decls' \in Seq(Name) /\ Head(decls) \in Name
      /\ \A n : (\E i \in DOMAIN decls : decls[i] = n) <=>
                  n = Head(decls) \/ \E i \in DOMAIN decls' : decls'[i] = n
  BY SeeDecl
<1>p. dep \in Path /\ importer \in pendingFiles /\ pendingFiles \subseteq Path
  BY <1>d, FilesType DEF TypeOK
<1>u. Unseen = Unseen' \cup {dep}
  BY SeeDecl
<1>q. /\ toResolve' \in Seq(Path)
      /\ \A p : Queued(p)' <=> p = dep \/ Queued(p)
  <2>1. toResolve \in Seq(Path) /\ toResolve' = Append(toResolve, dep)
    BY DEF TypeOK
  <2>2. /\ Append(toResolve, dep) \in Seq(Path)
        /\ \A x : (\E i \in DOMAIN Append(toResolve, dep) :
                     Append(toResolve, dep)[i] = x) <=>
                    x = dep \/ \E i \in DOMAIN toResolve : toResolve[i] = x
    <3>1. dep \in Path /\ toResolve \in Seq(Path)
      BY <1>p, <2>1
    <3> HIDE DEF dep, IInv, ImportResolved, context
    <3> QED BY <3>1, QueueAppend
  <2> QED BY <2>1, <2>2 DEF Queued
<1>g. /\ DOMAIN dependedOnBy' = DOMAIN dependedOnBy \cup {dep}
      /\ \A d \in DOMAIN dependedOnBy' :
           dependedOnBy'[d] = (IF d \in DOMAIN dependedOnBy THEN dependedOnBy[d] ELSE {})
                              \cup (IF d = dep THEN {importer} ELSE {})
      /\ dependsOn' \in [Path -> SUBSET Path]
      /\ \A p \in Path : dependsOn'[p] =
           dependsOn[p] \cup (IF p = importer THEN {dep} ELSE {})
  BY <1>p DEF WithEdge, WithNode, TypeOK
<1>1. TypeOK'
  <2>1. dependedOnBy' \in [DOMAIN dependedOnBy' -> SUBSET Path]
    BY <1>g, <1>p DEF TypeOK, WithEdge, WithNode
  <2> QED BY <2>1, <1>d, <1>p, <1>q, <1>g DEF TypeOK
<1>2. LoadedAcyclic' /\ DepsAccountedFor'
  BY SameModules
<1>3. PendingInv'
  BY <1>u, <1>p, <1>g, SameGraph DEF PendingInv
<1>4. GraphInv'
  <2>1. DOMAIN dependedOnBy' =
          pendingFiles \cup UNION {dependsOn'[p] : p \in pendingFiles}
    BY <1>g, <1>p DEF GraphInv
  <2>2. ASSUME NEW d \in DOMAIN dependedOnBy'
        PROVE  dependedOnBy'[d] =
                 {p \in pendingFiles \cap DOMAIN dependedOnBy' : d \in dependsOn'[p]}
    BY <1>g, <1>p, <2>1 DEF GraphInv
  <2> QED BY <2>1, <2>2 DEF GraphInv
<1>5. EliminatedInv'
  BY DEF EliminatedInv
<1>6. WorkListInv'
  <2>1. dep \in Graph!Deps(importer)
    BY <1>u, <1>p DEF PendingInv
  <2>2. dep \in Graph!Fresh => dep \in Graph!Reached(root)
    BY <2>1, <1>p, ReachedClosed DEF WorkListInv
  <2> QED BY <2>2, <1>p, <1>q, <1>g, SameGraph DEF WorkListInv
<1>7. CleanInv'
  <2>1. SUFFICES ASSUME m_errors = {} PROVE CleanInv'
    BY DEF CleanInv
  <2>2. ASSUME NEW p \in pendingFiles, NEW d \in dependsOn'[p]
        PROVE  d \in DOMAIN m_modules \/ d \in pendingFiles \/ Queued(d)'
    BY <2>1, <2>2, <1>p, <1>q, <1>g DEF CleanInv
  <2>3. ASSUME NEW p \in pendingFiles, NEW n \in Graph!Imports(p)
        PROVE  \/ files.resolve[n] # NoPath
               \/ p = importer /\ \E i \in DOMAIN decls' : decls'[i] = n
    BY <2>1, <1>d DEF CleanInv
  <2> QED BY <2>1, <2>2, <2>3, SameGraph DEF CleanInv
<1> QED BY <1>1, <1>2, <1>3, <1>4, <1>5, <1>6, <1>7

LEMMA ImportsDoneInv ==
  ASSUME IInv, ImportsDone
  PROVE  IInv'
<1> USE DEF IInv, ImportsDone, context, graph
<1>1. TypeOK'
  BY DEF TypeOK
<1>2. LoadedAcyclic' /\ DepsAccountedFor'
  BY SameModules
<1>3. PendingInv'
  <2>1. Unseen = {} /\ Unseen' = {}
    BY DEF Unseen
  <2> QED BY <2>1, SameGraph DEF PendingInv
<1>4. GraphInv' /\ EliminatedInv'
  BY DEF GraphInv, EliminatedInv
<1>5. WorkListInv'
  BY SameGraph DEF WorkListInv, Queued
<1>6. CleanInv'
  BY SameGraph DEF CleanInv, Queued
<1> QED BY <1>1, <1>2, <1>3, <1>4, <1>5, <1>6

LEMMA GraphBuiltInv ==
  ASSUME IInv, GraphBuilt
  PROVE  IInv'
<1> USE DEF IInv, GraphBuilt, context, graph
<1>1. TypeOK'
  BY DEF TypeOK
<1>2. LoadedAcyclic' /\ DepsAccountedFor'
  BY SameModules
<1>3. PendingInv' /\ GraphInv'
  BY SameGraph DEF PendingInv, GraphInv, Unseen
<1>4. EliminatedInv'
  BY DEF EliminatedInv, GraphInv
<1>5. WorkListInv'
  BY SameGraph DEF WorkListInv, Queued
<1>6. CleanInv'
  BY SameGraph DEF CleanInv, Queued
<1> QED BY <1>1, <1>2, <1>3, <1>4, <1>5, <1>6

(* A set of parsed files that first reaches into the eliminated ones with  *)
(* p has no importer of p: all of those were eliminated before.            *)
LEMMA EliminateInv ==
  ASSUME IInv, NEW p \in Path, Eliminate(p)
  PROVE  IInv'
<1> USE DEF IInv, Eliminate, Free, context
<1>g. /\ DOMAIN dependedOnBy' = DOMAIN dependedOnBy \ {p}
      /\ \A q \in DOMAIN dependedOnBy' : dependedOnBy'[q] = dependedOnBy[q] \ {p}
  OBVIOUS
<1>1. TypeOK'
  BY <1>g DEF TypeOK
<1>2. LoadedAcyclic' /\ DepsAccountedFor'
  BY SameModules
<1>3. PendingInv'
  BY SameGraph DEF PendingInv, Unseen
<1>4. GraphInv'
  BY <1>g DEF GraphInv
<1>5. EliminatedInv'
  <2>1. ASSUME NEW S \in SUBSET pendingFiles, S \subseteq DOMAIN dependedOnBy, p \in S
        PROVE  \A q \in S : p \notin dependsOn[q]
    BY <2>1 DEF GraphInv
  <2>2. \A S \in SUBSET pendingFiles :
          S \subseteq DOMAIN dependedOnBy' \/ Graph!HasSource(S, dependsOn)
    BY <1>g, <2>1 DEF EliminatedInv, Graph!HasSource
  <2> QED BY <2>2 DEF EliminatedInv, Graph!HasSource
<1>6. WorkListInv'
  BY SameGraph DEF WorkListInv, Queued
<1>7. CleanInv'
  BY SameGraph DEF CleanInv, Queued
<1> QED BY <1>1, <1>2, <1>3, <1>4, <1>5, <1>6, <1>7

LEMMA ReportCycleInv ==
  ASSUME IInv, ReportCycle
  PROVE  IInv'
<1> USE DEF IInv, ReportCycle, Leave
<1>1. TypeOK'
  <2>1. (result \in Results)'
    BY ReturnsResult DEF TypeOK
  <2> QED BY <2>1 DEF TypeOK, ErrorCode, Empty, NoDeps
<1>2. LoadedAcyclic' /\ DepsAccountedFor'
  BY SameModules
<1>3. PendingInv'
  BY DEF PendingInv, NoDeps
<1>4. GraphInv' /\ EliminatedInv' /\ WorkListInv'
  BY DEF GraphInv, EliminatedInv, WorkListInv
<1>5. CleanInv'
  BY DEF CleanInv
<1> QED BY <1>1, <1>2, <1>3, <1>4, <1>5

(* When the elimination starts, the recorded imports are those of the      *)
(* files, and the parsed files are the reached ones.                       *)
LEMMA PendingIsReached ==
  ASSUME IInv, phase = "eliminating"
  PROVE  /\ \A p \in pendingFiles : dependsOn[p] = Graph!Deps(p)
         /\ pendingFiles = Graph!Reached(root)
<1> USE DEF IInv
<1>1. pendingFiles \subseteq Path /\ importer = NoPath /\ \A p : ~ Queued(p)
  BY DEF PendingInv, GraphInv, TypeOK, Queued
<1>2. \A p \in pendingFiles : dependsOn[p] = Graph!Deps(p)
  BY <1>1, LoaderAssumption DEF PendingInv
<1>3. Graph!Closed(root, pendingFiles)
  BY <1>1, <1>2 DEF WorkListInv, Graph!Closed
<1>4. Graph!Reached(root) \subseteq pendingFiles
  BY <1>3, ReachedLeast DEF PendingInv
<1> QED BY <1>2, <1>4 DEF WorkListInv

(* Nodes are left and none is free: each remaining node has a remaining    *)
(* importer, so the parsed files among them form a part without a source.  *)
LEMMA StuckMeansCyclic ==
  ASSUME IInv, phase = "eliminating", NoFreeNode, DOMAIN dependedOnBy # {}
  PROVE  \E S \in SUBSET pendingFiles : S # {} /\ ~ Graph!HasSource(S, dependsOn)
<1> DEFINE S == pendingFiles \cap DOMAIN dependedOnBy
<1>1. ASSUME NEW d \in DOMAIN dependedOnBy
      PROVE  \E p \in S : d \in dependsOn[p]
  BY DEF IInv, GraphInv, NoFreeNode, Free
<1>2. S # {}
  BY <1>1
<1>3. ~ Graph!HasSource(S, dependsOn)
  BY <1>1 DEF Graph!HasSource
<1> QED BY <1>2, <1>3

(* No node is left: every part of the parsed files has a source. *)
LEMMA EmptyMeansAcyclic ==
  ASSUME IInv, phase = "eliminating", DOMAIN dependedOnBy = {}
  PROVE  \A S \in SUBSET pendingFiles : S # {} => Graph!HasSource(S, dependsOn)
  BY DEF IInv, EliminatedInv

LEMMA CommitInv ==
  ASSUME IInv, Commit
  PROVE  IInv'
<1> USE DEF IInv, Commit, Leave
<1>m. /\ DOMAIN m_modules' = DOMAIN m_modules \cup pendingFiles
      /\ \A p \in pendingFiles : m_modules'[p] = Graph!Deps(p)
      /\ \A p \in DOMAIN m_modules : m_modules'[p] = m_modules[p]
  BY PendingIsReached DEF PendingInv, Graph!Fresh
<1>p. pendingFiles \subseteq Graph!Fresh /\ pendingFiles \subseteq Path
  BY DEF PendingInv, TypeOK
<1>1. TypeOK'
  <2>1. m_modules' \in [DOMAIN m_modules' -> SUBSET Path]
    BY <1>p DEF TypeOK
  <2>2. (result \in Results)'
    BY ReturnsResult DEF TypeOK
  <2> QED BY <2>1, <2>2, <1>m, <1>p DEF TypeOK, Empty, NoDeps
<1>2. LoadedAcyclic'
  <2> SUFFICES ASSUME NEW S \in SUBSET DOMAIN m_modules', S # {}
               PROVE  Graph!HasSource(S, m_modules')
    BY DEF LoadedAcyclic, Graph!Acyclic
  <2>1. CASE S \cap pendingFiles = {}
    <3>1. Graph!HasSource(S, m_modules)
      BY <2>1, <1>m DEF LoadedAcyclic, Graph!Acyclic
    <3> QED BY <3>1, <2>1, <1>m DEF Graph!HasSource
  <2>2. CASE S \cap pendingFiles # {}
    <3>1. PICK p \in S \cap pendingFiles :
            \A q \in S \cap pendingFiles : p \notin dependsOn[q]
      BY <2>2, EmptyMeansAcyclic DEF Graph!HasSource
    <3>2. ASSUME NEW q \in S PROVE p \notin m_modules'[q]
      <4>1. CASE q \in pendingFiles
        BY <4>1, <3>1, <1>m, PendingIsReached
      <4>2. CASE q \notin pendingFiles
        BY <4>2, <3>1, <1>m, <1>p DEF DepsAccountedFor, Graph!Fresh
      <4> QED BY <4>1, <4>2
    <3> QED BY <3>1, <3>2 DEF Graph!HasSource
  <2> QED BY <2>1, <2>2
<1>3. DepsAccountedFor'
  <2>1. \A p : Graph!Parses(p)' = Graph!Parses(p)
    BY DEF Graph!Parses
  <2>2. ASSUME NEW p \in pendingFiles, NEW d \in Graph!Deps(p)
        PROVE  d \in DOMAIN m_modules' \/ ~ Graph!Parses(d)
    <3>1. d \in Path
      BY <1>p, DepsType DEF TypeOK, Graph!Fresh
    <3> QED BY <3>1, <1>m, PendingIsReached, ReachedClosed DEF Graph!Fresh
  <2> QED BY <2>1, <2>2, <1>m, <1>p DEF DepsAccountedFor, Graph!Fresh
<1>4. PendingInv' /\ GraphInv' /\ EliminatedInv' /\ WorkListInv'
  BY DEF PendingInv, GraphInv, EliminatedInv, WorkListInv, NoDeps
<1>5. CleanInv'
  <2>1. ASSUME m_errors = {}, NEW p \in pendingFiles, NEW n \in Graph!Imports(p)
        PROVE  /\ files.resolve[n] \in m_modules'[p]
               /\ files.resolve[n] \in DOMAIN m_modules'
    <3>1. files.resolve[n] # NoPath
      BY <2>1 DEF CleanInv, PendingInv
    <3>2. files.resolve[n] \in dependsOn[p]
      BY <3>1, PendingIsReached DEF Graph!Deps
    <3>3. ~ Queued(files.resolve[n])
      BY DEF GraphInv, Queued
    <3> QED BY <2>1, <3>2, <3>3, <1>m, PendingIsReached DEF CleanInv
  <2>2. ASSUME m_errors = {}, NEW p \in DOMAIN m_modules, NEW n \in Graph!Imports(p)
        PROVE  /\ files.resolve[n] \in m_modules'[p]
               /\ files.resolve[n] \in DOMAIN m_modules'
    BY <2>2, <1>m DEF CleanInv
  <2>3. \A p : Graph!Imports(p)' = Graph!Imports(p)
    BY DEF Graph!Imports
  <2> QED BY <2>1, <2>2, <2>3, <1>m DEF CleanInv
<1> QED BY <1>1, <1>2, <1>3, <1>4, <1>5

-----------------------------------------------------------------------------
(* Every reachable state satisfies the inductive invariant. *)
THEOREM Invariance == Spec => []IInv
<1>1. IInv /\ [Next]_vars => IInv'
  <2> SUFFICES ASSUME IInv, [Next]_vars PROVE IInv'
    OBVIOUS
  <2>1. ASSUME NEW n \in Name, RootUnresolved(n) PROVE IInv'
    BY <2>1, RootUnresolvedInv
  <2>2. ASSUME NEW n \in Name, RootResolved(n) PROVE IInv'
    BY <2>2, RootResolvedInv
  <2>3. CASE Skip
    BY <2>3, SkipInv
  <2>4. CASE ParseFails
    BY <2>4, ParseFailsInv
  <2>5. CASE Parse
    BY <2>5, ParseInv
  <2>6. CASE ImportUnresolved
    BY <2>6, ImportUnresolvedInv
  <2>7. CASE ImportResolved
    BY <2>7, ImportResolvedInv
  <2>8. CASE ImportsDone
    BY <2>8, ImportsDoneInv
  <2>9. CASE GraphBuilt
    BY <2>9, GraphBuiltInv
  <2>10. ASSUME NEW p \in Path, Eliminate(p) PROVE IInv'
    BY <2>10, EliminateInv
  <2>11. CASE ReportCycle
    BY <2>11, ReportCycleInv
  <2>12. CASE Commit
    BY <2>12, CommitInv
  <2>13. CASE UNCHANGED vars
    <3>1. UNCHANGED <<files, m_modules, m_errors, result, calls, phase, moduleName, toResolve,
                      importer, decls, pendingFiles, dependedOnBy, dependsOn>>
      BY <2>13 DEF vars, context, local, graph
    <3>2. TypeOK' /\ LoadedAcyclic' /\ DepsAccountedFor'
      BY <3>1, SameModules DEF IInv, TypeOK
    <3>3. PendingInv' /\ GraphInv' /\ EliminatedInv'
      BY <3>1, SameGraph DEF IInv, PendingInv, GraphInv, EliminatedInv, Unseen, Graph!HasSource
    <3>4. WorkListInv' /\ CleanInv'
      BY <3>1, SameGraph DEF IInv, WorkListInv, CleanInv, Queued
    <3> QED BY <3>2, <3>3, <3>4 DEF IInv
  <2> QED BY <2>1, <2>2, <2>3, <2>4, <2>5, <2>6, <2>7, <2>8, <2>9, <2>10,
             <2>11, <2>12, <2>13 DEF Next, Step
<1> QED BY <1>1, InitInv, PTL DEF Spec

(* Every variable keeps its type. *)
THEOREM TypeCorrect == Spec => []TypeOK
<1>1. IInv => TypeOK
  BY DEF IInv
<1> QED BY <1>1, Invariance, PTL

(* The modules loaded so far never import each other in a cycle, whatever  *)
(* the order of the calls and of the eliminated nodes.                     *)
THEOREM ModulesAcyclic == Spec => []LoadedAcyclic
<1>1. IInv => LoadedAcyclic
  BY DEF IInv
<1> QED BY <1>1, Invariance, PTL

(* A dependency that is not loaded is one the frontend could not parse. *)
THEOREM DependenciesAccountedFor == Spec => []DepsAccountedFor
<1>1. IInv => DepsAccountedFor
  BY DEF IInv
<1> QED BY <1>1, Invariance, PTL

(* Between calls, an empty error list means that every import of every     *)
(* loaded module is a loaded module.                                       *)
THEOREM CleanIsComplete == Spec => []CleanMeansComplete
<1>1. IInv => CleanMeansComplete
  BY DEF IInv, CleanInv, CleanMeansComplete
<1> QED BY <1>1, Invariance, PTL

-----------------------------------------------------------------------------
(* What a step of the loader is, seen from ModuleGraph.                    *)

LEMMA CommitIsLoad ==
  ASSUME IInv, Commit
  PROVE  Graph!Next
<1> DEFINE E == [p \in Graph!Reached(root) |-> Graph!Deps(p)]
<1> USE DEF IInv, Commit
<1>1. pendingFiles = Graph!Reached(root)
      /\ \A p \in pendingFiles : dependsOn[p] = Graph!Deps(p)
  BY PendingIsReached
<1>2. Graph!Acyclic(Graph!Reached(root), E)
  <2>1. ASSUME NEW S \in SUBSET pendingFiles, S # {}
        PROVE  Graph!HasSource(S, E)
    BY <2>1, <1>1, EmptyMeansAcyclic DEF Graph!HasSource
  <2> QED BY <1>1, <2>1 DEF Graph!Acyclic
<1>3. m_modules' = [p \in DOMAIN m_modules \cup Graph!Reached(root) |->
                      IF p \in Graph!Reached(root) THEN E[p] ELSE m_modules[p]]
  BY <1>1
<1>4. Graph!Load(moduleName, root)
  BY <1>2, <1>3, Zenon DEF Graph!Load, Returns
<1>5. moduleName \in Name /\ root # NoPath
  BY DEF WorkListInv, TypeOK
<1> QED BY <1>4, <1>5 DEF Graph!Next, Graph!loadFile

LEMMA ReportCycleIsLoad ==
  ASSUME IInv, ReportCycle
  PROVE  Graph!Next
<1> DEFINE E == [p \in Graph!Reached(root) |-> Graph!Deps(p)]
<1> USE DEF IInv, ReportCycle
<1>1. pendingFiles = Graph!Reached(root)
      /\ \A p \in pendingFiles : dependsOn[p] = Graph!Deps(p)
  BY PendingIsReached
<1>2. ~ Graph!Acyclic(Graph!Reached(root), E)
  <2>1. PICK S \in SUBSET pendingFiles : S # {} /\ ~ Graph!HasSource(S, dependsOn)
    BY StuckMeansCyclic
  <2>2. ~ Graph!HasSource(S, E)
    BY <1>1, <2>1 DEF Graph!HasSource
  <2> QED BY <1>1, <2>1, <2>2 DEF Graph!Acyclic
<1>4. Graph!Load(moduleName, root)
  BY <1>2, Zenon DEF Graph!Load, Returns
<1>5. moduleName \in Name /\ root # NoPath
  BY DEF WorkListInv, TypeOK
<1> QED BY <1>4, <1>5 DEF Graph!Next, Graph!loadFile

(* All other steps leave what ModuleGraph sees as it is, or are the whole  *)
(* of a call whose root does not resolve.                                  *)
LEMMA StepRefines ==
  ASSUME IInv, [Next]_vars
  PROVE  [Graph!Next]_<<files, m_modules, result>>
<1>1. ASSUME NEW n \in Name, RootUnresolved(n) PROVE Graph!Next
  BY <1>1 DEF RootUnresolved, Returns, Graph!Next, Graph!loadFile
<1>2. ASSUME NEW n \in Name, RootResolved(n)
      PROVE  UNCHANGED <<files, m_modules, result>>
  BY <1>2 DEF RootResolved
<1>3. CASE Skip \/ ParseFails \/ Parse
  BY <1>3 DEF Skip, ParseFails, Parse, context
<1>4. CASE ImportUnresolved \/ ImportResolved \/ ImportsDone \/ GraphBuilt
  BY <1>4 DEF ImportUnresolved, ImportResolved, ImportsDone, GraphBuilt, context
<1>5. ASSUME NEW p \in Path, Eliminate(p)
      PROVE  UNCHANGED <<files, m_modules, result>>
  BY <1>5 DEF Eliminate, context
<1>6. CASE UNCHANGED vars
  BY <1>6 DEF vars, context
<1> QED BY <1>1, <1>2, <1>3, <1>4, <1>5, <1>6, CommitIsLoad, ReportCycleIsLoad
        DEF Next, Step

(* The loader implements ModuleGraph: a call loads all files the root      *)
(* reaches or none, and refuses exactly an unresolved root and a cycle.    *)
THEOREM LoaderImplementsGraph == Spec => ImplementsGraph
<1>1. Init => Graph!Init
  BY DEF Init, Empty, NoCall, NoName, Graph!Init
<1>2. IInv /\ [Next]_vars => [Graph!Next]_<<files, m_modules, result>>
  BY StepRefines
<1>3. Graph!vars = <<files, m_modules, result>>
  BY DEF Graph!vars
<1> QED BY <1>1, <1>2, <1>3, Invariance, PTL DEF Spec, ImplementsGraph, Graph!Spec, Graph!vars

(* No call takes a loaded module away or changes its dependencies. *)
THEOREM ModulesStable == Spec => LoadedIsStable
<1>1. IInv /\ [Next]_vars =>
        [\A p \in DOMAIN m_modules :
           p \in DOMAIN m_modules' /\ m_modules'[p] = m_modules[p]]_vars
  <2> SUFFICES ASSUME IInv, [Next]_vars
               PROVE  \A p \in DOMAIN m_modules :
                        p \in DOMAIN m_modules' /\ m_modules'[p] = m_modules[p]
    OBVIOUS
  <2>1. CASE Commit
    BY <2>1 DEF Commit, IInv, PendingInv, Graph!Fresh
  <2>2. CASE ~ Commit
    <3>1. UNCHANGED m_modules
      BY <2>2 DEF Next, Step, RootUnresolved, RootResolved, Skip, ParseFails, Parse,
                  ImportUnresolved, ImportResolved, ImportsDone, GraphBuilt, Eliminate,
                  ReportCycle, vars, context
    <3> QED BY <3>1
  <2> QED BY <2>1, <2>2
<1> QED BY <1>1, Invariance, PTL DEF Spec, LoadedIsStable

(* A cycle of loaded modules: each imports the next one, the last the      *)
(* first.                                                                  *)
IsCycle(s) == \A i \in DOMAIN s : s[(i % Len(s)) + 1] \in m_modules[s[i]]

(* What acyclic means for a reader: no loaded module imports itself,       *)
(* directly or through others, by however long a way                       *)
(* (SemanticContext.cpp:143-175). The modules of a cycle are a set in      *)
(* which each one is imported.                                             *)
THEOREM NoModuleImportsItself ==
  Spec => [](\A s \in Seq(DOMAIN m_modules) : s # <<>> => ~ IsCycle(s))
<1>1. IInv => \A s \in Seq(DOMAIN m_modules) : s # <<>> => ~ IsCycle(s)
  <2> SUFFICES ASSUME LoadedAcyclic, NEW s \in Seq(DOMAIN m_modules), s # <<>>, IsCycle(s)
               PROVE  FALSE
    BY DEF IInv
  <2> DEFINE S == {s[i] : i \in DOMAIN s}
  <2>1. Len(s) \in Nat \ {0} /\ DOMAIN s = 1..Len(s)
    OBVIOUS
  <2>2. S \in SUBSET DOMAIN m_modules /\ S # {}
    BY <2>1
  <2>3. PICK p \in S : \A q \in S : p \notin m_modules[q]
    BY <2>2 DEF LoadedAcyclic, Graph!Acyclic, Graph!HasSource
  <2>4. PICK i \in 1..Len(s) : p = s[i]
    BY <2>1, <2>3
  <2>5. PICK j \in 1..Len(s) : (j % Len(s)) + 1 = i
    <3>1. CASE i = 1
      <4>1. Len(s) % Len(s) = 0
        BY <2>1
      <4> QED
        BY <2>1, <3>1, <4>1
    <3>2. CASE i # 1
      <4>1. i - 1 \in 1..Len(s) /\ (i - 1) % Len(s) = i - 1
        BY <2>1, <3>2
      <4> QED
        BY <4>1
    <3> QED
      BY <3>1, <3>2
  <2>6. s[i] \in m_modules[s[j]]
    BY <2>1, <2>5 DEF IsCycle
  <2> QED
    BY <2>1, <2>3, <2>4, <2>6
<1> QED BY <1>1, Invariance, PTL
=============================================================================
