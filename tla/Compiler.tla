------------------------------- MODULE Compiler -------------------------------
(***************************************************************************)
(* aosl-compiler (cli/src/main.cpp): load the inputs one after the other,  *)
(* validate all that was loaded, generate the IR, open the four outputs    *)
(* and write them, and tell by the exit code how it went.                  *)
(*                                                                         *)
(* loadFile is one step, as ModuleGraph has it and ModuleLoader implements *)
(* it; the passes of validate are those of Validation; and generateIR is a *)
(* step for every symbol.                                                  *)
(***************************************************************************)
EXTENDS Directives, SchemaRules, IRMeaning

CONSTANTS
  Name, Path, NoPath, NoAst,   \* as in ModuleGraph
  Projects,                    \* what the compiler may be called on: file systems
                               \* of ModuleGraph, with the declarations of each path
                               \* (source), the modules to compile (inputs), and
                               \* the outputs that cannot be opened (unopenable)
  PackageOrder                 \* the package names, sorted

VARIABLES
  files, m_modules, result,                            \* as in ModuleGraph
  ast, packageName, m_errors, m_symbolTable,           \* as in Validation
  resolvedDef, globalMessages, order, pass, at, decl, validated,
  stage,           \* what main is doing
  inputs,          \* the inputs still to load
  orderedModules,  \* the modules still to generate, the first one begun
  irModule,        \* what that one has so far
  generated,       \* the symbols generated, in this order
  ctx,             \* the tables of the IR
  opened,          \* how many outputs it has tried to open
  outputs,         \* what is in each of them: "old", "empty" or "new"
  errs,            \* the errors of the back end
  exit             \* the exit code, Running until there is one

loading    == <<files, m_modules, result, inputs>>
validation == <<ast, packageName, m_errors, m_symbolTable, resolvedDef, globalMessages,
                order, pass, at, decl, validated>>
generation == <<orderedModules, irModule, generated, ctx>>
writing    == <<opened, outputs, errs>>

Graph == INSTANCE ModuleGraph WITH FileSystems <- Projects
Passes == INSTANCE Validation

vars == <<loading, validation, generation, writing, stage, exit>>

Running == -1
Crashed == 139    \* that of a segmentation fault

Go(next)   == stage' = next /\ UNCHANGED exit
Exits(code) == exit' = code /\ stage' = "exit"

Init ==
  /\ Graph!Init
  /\ inputs = files.inputs
  /\ ast = [p \in {} |-> <<>>] /\ m_errors = {} /\ Passes!ValidateInit
  /\ orderedModules = <<>> /\ generated = <<>> /\ ctx = NewContext("forward")
  /\ irModule = [moduleName |-> 0, messages |-> <<>>, enums |-> <<>>]
  /\ opened = 0 /\ outputs = <<"old", "old", "old", "old">> /\ errs = {}
  /\ stage = "load" /\ exit = Running

-----------------------------------------------------------------------------
(* All inputs are looked for before any is loaded. *)
MissingInput == \E i \in DOMAIN files.inputs : files.resolve[files.inputs[i]] = NoPath

NoInputs ==
  /\ stage = "load" /\ (files.inputs = <<>> \/ MissingInput)
  /\ Exits(2)
  /\ UNCHANGED <<loading, validation, generation, writing>>

(* What a call of loadFile reports, of a root that is there. *)
LoadErrors(n) ==
  LET root == files.resolve[n]
      new  == Graph!Reached(root)
      met  == {root} \cup UNION {Graph!Deps(p) : p \in new}
  IN  When(\E p \in new : \E i \in Graph!Imports(p) : files.resolve[i] = NoPath,
           "FAILED_TO_RESOLVE_IMPORT")
        \cup When(\E p \in met \ DOMAIN m_modules : ~ Graph!Parses(p), "SYNTAX_ERROR")
        \cup When(~ Graph!Acyclic(new, [p \in new |-> Graph!Deps(p)]), "CYCLICAL_IMPORT")

loadFile ==
  /\ stage = "load" /\ inputs # <<>> /\ ~ MissingInput
  /\ Graph!loadFile(Head(inputs))
  /\ m_errors' = m_errors \cup LoadErrors(Head(inputs))
  /\ Passes!Opened([p \in DOMAIN m_modules' |-> files.source[p]])
  /\ inputs' = Tail(inputs)
  /\ IF result'.value = "failed" THEN Exits(3)
     ELSE Go(IF inputs' = <<>> THEN "validate" ELSE "load")
  /\ UNCHANGED <<generation, writing>>

validate ==
  /\ stage = "validate" /\ validated = "none"
  /\ Passes!validate \/ Passes!ValidateStep
  /\ UNCHANGED <<files, result, inputs, generation, writing, stage, exit>>

(* An exception comes out at the end of main. *)
ValidationOver ==
  /\ stage = "validate" /\ validated # "none"
  /\ CASE validated = "threw"  -> Exits(1)
       [] validated = "failed" -> Exits(4)
       [] validated = "ok"     -> Go("generate")
  /\ UNCHANGED <<loading, validation, generation, writing>>

-----------------------------------------------------------------------------
(* A module begins with its name. *)
Begin(c, modules) ==
  IF modules = <<>> THEN ctx' = c /\ UNCHANGED irModule
  ELSE LET name == Got(c, "strings", packageName[modules[1]])
       IN  ctx' = name.ctx /\ irModule' = [moduleName |-> name.id, messages |-> <<>>, enums |-> <<>>]

Rank(p) == IdFor(PackageOrder, packageName[p])

(* The modules by package, those of one package in any order. *)
generateIR ==
  /\ stage = "generate"
  /\ \E s \in [1..Cardinality(DOMAIN m_modules) -> DOMAIN m_modules], hashed \in {"forward", "backward"} :
       /\ ToSet(s) = DOMAIN m_modules
       /\ \A i, j \in DOMAIN s : i < j => Rank(s[i]) <= Rank(s[j])
       /\ orderedModules' = s
       /\ Begin(NewContext(hashed), s)
  /\ Go("symbols")
  /\ UNCHANGED <<loading, validation, generated, writing>>

current == orderedModules[1]
Left    == Passes!Exports(current) \ ToSet(generated)
Qualified(id) == m_symbolTable[id].fqn[1] \o "." \o m_symbolTable[id].fqn[2]

(* messagesBySymbolId is a hash map: its symbols come in any order. *)
generateSymbol ==
  /\ stage = "symbols" /\ orderedModules # <<>>
  /\ \E id \in Left :
       LET node == ast[current][m_symbolTable[id].decl]
           def  == resolvedDef[current]
           made == IF node.is = "message" THEN GenMessage(ctx, def, node, Qualified(id), id)
                   ELSE GenEnum(ctx, node, Qualified(id), id)
       IN  /\ ctx' = made.ctx
           /\ generated' = Append(generated, id)
           /\ irModule' = IF node.is = "message"
                          THEN [irModule EXCEPT !.messages = Append(@, made.id)]
                          ELSE [irModule EXCEPT !.enums = Append(@, made.id)]
  /\ UNCHANGED <<loading, validation, orderedModules, writing, stage, exit>>

moduleGenerated ==
  /\ stage = "symbols" /\ orderedModules # <<>> /\ Left = {}
  /\ orderedModules' = Tail(orderedModules)
  /\ Begin(Got(ctx, "modules", irModule).ctx, Tail(orderedModules))
  /\ UNCHANGED <<loading, validation, generated, writing, stage, exit>>

irGenerated ==
  /\ stage = "symbols" /\ orderedModules = <<>>
  /\ IF ctx.errors # {} THEN Exits(5) ELSE Go("names")
  /\ UNCHANGED <<loading, validation, generation, writing>>

-----------------------------------------------------------------------------
(* generateTypeName: getCppBitWidth has no C++ type for more than 64 bits. *)
TooWide(type) == type.kind = "Scalar" /\ type.width > 64

(* A message that was referred to and never generated has no name to read  *)
(* in the table of strings: undefined, so that the compiler crashes or     *)
(* goes on with whatever is there.                                         *)
Unfilled == \E m \in DOMAIN ctx.messages : ctx.messages[m] = NoMessage

generateNames ==
  /\ stage = "names"
  /\ errs' = When(\E i \in DOMAIN ctx.types : TooWide(ctx.types[i]), "INTERNAL")
  /\ Go("write")
  /\ UNCHANGED <<loading, validation, generation, opened, outputs>>

NameOfNoMessage ==
  /\ stage = "names" /\ Unfilled
  /\ Exits(Crashed)
  /\ UNCHANGED <<loading, validation, generation, writing>>

(* The loader of main, for .h, .cpp, .aoir and .aoir.h one after the other *)
(* and whatever errors there are: a file that is opened is emptied.        *)
openOutput ==
  /\ stage = "write" /\ opened < Len(outputs)
  /\ opened' = opened + 1
  /\ IF opened' \in files.unopenable THEN errs' = errs \cup {"OTHER"} /\ UNCHANGED outputs
     ELSE outputs' = [outputs EXCEPT ![opened'] = "empty"] /\ UNCHANGED errs
  /\ UNCHANGED <<loading, validation, generation, stage, exit>>

(* Mutant: the errors of the loader are not looked at. *)
writeOutputsAnyway ==
  /\ stage = "write" /\ opened = Len(outputs)
  /\ Exits(0)
  /\ outputs' = [i \in DOMAIN outputs |-> IF outputs[i] = "empty" THEN "new" ELSE outputs[i]]
  /\ UNCHANGED <<loading, validation, generation, opened, errs>>

writeOutputs ==
  /\ stage = "write" /\ opened = Len(outputs)
  /\ IF errs = {} THEN Exits(0) /\ outputs' = [i \in DOMAIN outputs |-> "new"]
     ELSE Exits(8) /\ UNCHANGED outputs
  /\ UNCHANGED <<loading, validation, generation, opened, errs>>

Terminated == stage = "exit" /\ UNCHANGED vars

-----------------------------------------------------------------------------
Next ==
  \/ NoInputs
  \/ loadFile
  \/ validate
  \/ ValidationOver
  \/ generateIR
  \/ generateSymbol
  \/ moduleGenerated
  \/ irGenerated
  \/ generateNames
  \/ NameOfNoMessage
  \/ openOutput
  \/ writeOutputs
  \/ Terminated

Spec == Init /\ [][Next]_vars

(* One thread, which nothing waits for: weak fairness of Next. Next is     *)
(* enabled until there is an exit code, which the formula says without     *)
(* ENABLED; that a step is always possible until then is what the search   *)
(* for deadlocks shows.                                                    *)
FairSpec == Spec /\ ([]<><<Next>>_vars \/ <>(stage = "exit"))

-----------------------------------------------------------------------------
(* All inputs and all that they import was loaded. *)
Complete ==
  /\ \A i \in DOMAIN files.inputs : files.resolve[files.inputs[i]] \in DOMAIN m_modules
  /\ \A p \in DOMAIN m_modules : \A n \in Graph!Imports(p) : files.resolve[n] \in DOMAIN m_modules

(* However the hash map orders the modules, and whatever one pass found    *)
(* before the next one ran, validate accepts exactly the complete schemas  *)
(* that satisfy the rules (SemanticContext.h:46-51), names resolved to the *)
(* declarations they stand for. SchemaRules has the rules in full;         *)
(* Validation, of whose form of them there are proofs, has the same.       *)
AcceptsByTheRules ==
  /\ validated \in {"ok", "failed"} =>
       /\ validated = "ok" <=> Complete /\ WellFormed(ast, m_modules)
       /\ Complete => (Passes!ObeysRules <=> WellFormed(ast, m_modules))
  /\ Passes!RulesObeyed

(* On the fields of every block, at any depth, are in effect the defaults  *)
(* before them and their own directives, and none of a sibling's; nothing  *)
(* that names a declaration, or that a rule is about, changed on the way   *)
(* (ComputeDirectives.cpp:53-140).                                         *)
ScopedDirectives ==
  validated \in {"ok", "failed"} =>
    \A p \in DOMAIN ast :
      /\ FileScoped(ast[p])
      /\ Passes!SameDecls(files.source[p], ast[p]) /\ Passes!SameRules(files.source[p], ast[p])

IsMessage(d)    == DeclAt(ast, d).is = "message"
SymbolOf(d)     == CHOOSE id \in DOMAIN m_symbolTable :
                     m_symbolTable[id].module = d[1] /\ m_symbolTable[id].decl = d[2]
Denoted(p, n)   == CHOOSE d \in Defined(ast) : d[1] \in {p} \cup m_modules[p] /\ Denotes(ast, d, n)
UsedBy(d)       == {Denoted(d[1], t.name) : t \in {t \in TypesAt(ast, d) : t.type = "USER"}}
GeneratedAt(d)  == IdFor(generated, SymbolOf(d))
SlotOf(d)       == IdFor(ctx.messageKeys, SymbolOf(d))

(* An enum is one to those that are generated after it.                    *)
TypeFor(d, user) ==
  IF ~ IsMessage(d) /\ GeneratedAt(d) < GeneratedAt(user)
  THEN Enum(ctx.enumOf[SymbolOf(d)]) ELSE Message(SlotOf(d))
MeantFor(user) ==
  [n \in {t.name : t \in {t \in TypesAt(ast, user) : t.type = "USER"}} |->
     {TypeFor(Denoted(user[1], n), user)}]

(* In whatever order the symbols are generated, the tables of the IR say   *)
(* of every declaration what its source says: its fields with their types, *)
(* every name as the one declaration it stands for, and the directives in  *)
(* effect, though not their order (IR.cpp:31-442).                         *)
IRMeansSource ==
  stage = "names" =>
    /\ \A d \in Defined(ast) :
         IF IsMessage(d)
         THEN MessageMeans(ctx, SlotOf(d), DeclAt(ast, d), Qualified(SymbolOf(d)), MeantFor(d))
         ELSE EnumMeans(ctx, ctx.enumOf[SymbolOf(d)], DeclAt(ast, d), Qualified(SymbolOf(d)))
    /\ \A p \in DOMAIN ast : \E i \in DOMAIN ctx.modules :
         /\ ctx.strings[ctx.modules[i].moduleName] = packageName[p]
         /\ ToSet(ctx.modules[i].messages) = {SlotOf(d) : d \in {d \in Defined(ast) : d[1] = p /\ IsMessage(d)}}

(* An id stays what it is: tables grow at their end, a value in them is    *)
(* there once, and the slot of a message is filled once, with the message  *)
(* it was made for (ResourceCache.h:28-70).                                *)
IdsAreStable ==
  [][stage = "symbols" =>
       /\ \A table \in {"strings", "directiveSets", "oneOfs", "fields", "types", "enums",
                         "modules", "messageKeys"} :
            IsPrefix(ctx[table], ctx'[table]) /\ StoredOnce(ctx'[table])
       /\ \A m \in DOMAIN ctx'.messages :
            \/ ctx'.messages[m] = NoMessage
            \/ m \in DOMAIN ctx.messages /\ ctx'.messages[m] = ctx.messages[m]
            \/ /\ m \in DOMAIN ctx.messages => ctx.messages[m] = NoMessage
               /\ ctx'.messages[m].symbolId = ctx'.messageKeys[m]]_vars

(* A message has its place in the header from the first use of its name,   *)
(* which its own fields may be.                                            *)
UsedFirst(d) == \E u \in Defined(ast) : d \in UsedBy(u) /\ GeneratedAt(u) <= GeneratedAt(d)

(* In whatever order the symbols are generated, the header defines every   *)
(* type behind the aliases and structs that it needs; only of a message    *)
(* whose name was used before it was generated is this not so              *)
(* (CppBackend.cpp:451-456, which writes the types as IR.cpp left them).   *)
HeaderInOrder ==
  stage = "names" =>
    \A i \in DOMAIN ctx.types :
      \/ InOrder(ctx, i)
      \/ \E d \in Defined(ast) :
           IsMessage(d) /\ ctx.types[i] = Message(SlotOf(d)) /\ UsedFirst(d)

(* Success is a whole schema in all four files; a failure before the code  *)
(* generation leaves them as they were, one in it leaves none that looks   *)
(* new; an exception has a missing file or a literal behind it, and what   *)
(* validate accepts, generateIR never refuses (main.cpp:205-266).          *)
ExitTells ==
  /\ exit = 0 => Complete /\ WellFormed(ast, m_modules) /\ \A i \in DOMAIN outputs : outputs[i] = "new"
  /\ exit \notin {Running, 0, 8} => \A i \in DOMAIN outputs : outputs[i] = "old"
  /\ exit = 8 => \A i \in DOMAIN outputs : outputs[i] # "new"
  /\ exit = 1 => \/ ~ Complete
                 \/ \E d \in Defined(ast) : \E t \in TypesAt(ast, d) : \E p \in ToSet(t.properties) :
                      p.type = "INT" /\ p.number > IntMax
  /\ exit # 5
  /\ exit = Crashed => \E d \in Defined(ast) : \E u \in UsedBy(d) : ~ IsMessage(u)

(* Whatever is missing, cyclic or wrong, main comes to an end              *)
(* (main.cpp:117-274).                                                     *)
CompilerEnds == <>(exit # Running)

(* The type of an enum is an enum, wherever it is used: the round trip of  *)
(* enums in JSONCodecTests.cpp:805 and the fields of TestEnum in           *)
(* cli/tests/simple/messages.aosl rest on it (IR.cpp:193-206).             *)
EnumsStayEnums ==
  stage = "names" =>
    \A i \in DOMAIN ctx.types :
      ctx.types[i].kind = "Message" => ctx.messages[ctx.types[i].of] # NoMessage
=============================================================================
