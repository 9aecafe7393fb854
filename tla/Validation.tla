------------------------------ MODULE Validation ------------------------------
(***************************************************************************)
(* SemanticContext::validate (compiler/include/ao/schema/SemanticContext.h *)
(* :46-51) and the passes it runs over the loaded modules.                 *)
(*                                                                         *)
(* Every pass goes through m_modules, an unordered_map: through its paths  *)
(* in some order, the same for all of them. A step is one declaration      *)
(* where a pass has a table that modules share, and one module where it    *)
(* has not. All passes run, whatever the earlier ones found.               *)
(***************************************************************************)
EXTENDS TypeProperties

CONSTANTS
  TypesIn(_),         \* the types written in a block, at any depth
  NamedBlocks(_),     \* the blocks in it that validateFieldNames comes to
  WithDirectives(_)   \* the file, with the directives in effect filled in

VARIABLES
  m_modules,       \* path -> its dependencies, from loadFile
  ast,             \* path -> its file, for the loaded ones
  packageName,     \* path -> its package, Unnamed as long as it has none
  m_errors,        \* the codes of the errors so far, those of loadFile included
  m_symbolTable,   \* symbols by id, which counts from 0 in the code and from 1 here
  resolvedDef,     \* path -> written name -> the symbol it stands for
  globalMessages,  \* message ids seen by validateGlobalMessageIds
  order,           \* the paths, as the hash map has them
  pass, at, decl,  \* the pass, the module of order, and the declaration it is at
  validated        \* what validate returned: "none", "ok", "failed", "threw"

Unnamed == ""   \* the name of a package that is not known yet

cursor == <<pass, at, decl>>
tables == <<packageName, m_symbolTable, resolvedDef, globalMessages>>
vars   == <<m_modules, ast, m_errors, tables, order, cursor, validated>>

Passes ==
  <<"exportSymbols", "resolveModuleSymbols", "validateGlobalMessageIds",
    "validateFieldNumbers", "validateFieldNames", "computeDirectives",
    "validateAstTypeProperties">>

Run(name)   == pass \in DOMAIN Passes /\ Passes[pass] = name /\ at <= Len(order)
path        == order[at]
Report(es)  == m_errors' = m_errors \cup es
NextModule  == at' = at + 1 /\ decl' = 1 /\ UNCHANGED pass
NextDecl    == decl' = decl + 1 /\ UNCHANGED <<pass, at>>

-----------------------------------------------------------------------------
validate ==
  /\ pass = 0 /\ validated = "none"
  /\ order' \in {s \in [1..Cardinality(DOMAIN m_modules) -> DOMAIN m_modules] :
                   ToSet(s) = DOMAIN m_modules}
  /\ pass' = 1 /\ at' = 1 /\ decl' = 1
  /\ UNCHANGED <<m_modules, ast, m_errors, tables, validated>>

(* Mutant: a pass that reports something is run again. *)
PassEndsOrRepeats ==
  /\ pass \in DOMAIN Passes /\ at > Len(order)
  /\ pass' = (IF m_errors = {} THEN pass + 1 ELSE pass) /\ at' = 1 /\ decl' = 1
  /\ UNCHANGED <<m_modules, ast, m_errors, tables, order, validated>>

PassEnds ==
  /\ pass \in DOMAIN Passes /\ at > Len(order)
  /\ pass' = pass + 1 /\ at' = 1 /\ decl' = 1
  /\ UNCHANGED <<m_modules, ast, m_errors, tables, order, validated>>

(* Each of the three parts returns whether the list of errors is empty     *)
(* when it ends; it only grows, so the last of them decides.               *)
validateReturns ==
  /\ pass = Len(Passes) + 1
  /\ validated' = IF m_errors = {} THEN "ok" ELSE "failed"
  /\ pass' = 0
  /\ UNCHANGED <<m_modules, ast, m_errors, tables, order, at, decl>>

-----------------------------------------------------------------------------
Packages(file) == Only(file, {"package"})

(* setPackageName: the first package declaration counts. *)
setPackageName ==
  /\ Run("exportSymbols") /\ decl = 1 /\ packageName[path] = Unnamed
  /\ LET declared == Packages(ast[path])
     IN  /\ Report(When(Len(declared) > 1, "MULTIPLE_PACKAGE_DECLARATION")
                     \cup When(declared = <<>>, "MISSING_PACKAGE_DECLARATION"))
         /\ IF declared = <<>> THEN NextModule /\ UNCHANGED packageName
            ELSE /\ packageName' = [packageName EXCEPT ![path] = declared[1].name]
                 /\ UNCHANGED cursor
  /\ UNCHANGED <<m_modules, ast, m_symbolTable, resolvedDef, globalMessages, order, validated>>

Symbol(fqn, p, i) == [fqn |-> fqn, module |-> p, decl |-> i]
Known(fqn)        == \E id \in DOMAIN m_symbolTable : m_symbolTable[id].fqn = fqn

(* populateFromQualifiedId, for the next message or enum of the module. A  *)
(* symbol that is refused is not exported.                                 *)
exportSymbols ==
  /\ Run("exportSymbols") /\ packageName[path] # Unnamed
  /\ IF decl > Len(ast[path]) THEN NextModule /\ UNCHANGED <<m_symbolTable, m_errors>>
     ELSE /\ NextDecl
          /\ LET fqn == <<packageName[path], ast[path][decl].name>>
             IN  IF ast[path][decl].is \notin {"message", "enum"}
                 THEN UNCHANGED <<m_symbolTable, m_errors>>
                 ELSE IF Known(fqn)
                 THEN Report({"MULTIPLY_DEFINED_SYMBOL"}) /\ UNCHANGED m_symbolTable
                 ELSE /\ m_symbolTable' = Append(m_symbolTable, Symbol(fqn, path, decl))
                      /\ UNCHANGED m_errors
  /\ UNCHANGED <<m_modules, ast, packageName, resolvedDef, globalMessages, order, validated>>

-----------------------------------------------------------------------------
Exports(p) == {id \in DOMAIN m_symbolTable : m_symbolTable[id].module = p}

(* A symbol answers to its qualified and to its unqualified name. *)
Answers(id, name) == name \in {m_symbolTable[id].fqn, <<"", m_symbolTable[id].fqn[2]>>}

(* The candidates for a name, and those the first of them may be: one of   *)
(* the module's own, else that of whichever dependency comes first.        *)
Candidates(p, name) ==
  {id \in Exports(p) \cup UNION {Exports(d) : d \in m_modules[p]} : Answers(id, name)}
FirstOf(p, name) ==
  IF Candidates(p, name) \cap Exports(p) # {} THEN Candidates(p, name) \cap Exports(p)
  ELSE Candidates(p, name)

TypesOfFile(file) == UNION {TypesIn(m.block) : m \in ToSet(Only(file, {"message"}))}
UsedIn(file)      == {t.name : t \in {t \in TypesOfFile(file) : t.type = "USER"}}
Arity(type)       == IF type \in {"ARRAY", "OPTIONAL"} THEN 1 ELSE 0
Applied(file)     == \A t \in TypesOfFile(file) : Len(t.subtypes) = Arity(t.type)

(* allModules.at(dep) *)
DependencyMissing ==
  /\ Run("resolveModuleSymbols") /\ ~ m_modules[path] \subseteq DOMAIN m_modules
  /\ validated' = "threw" /\ pass' = 0
  /\ UNCHANGED <<m_modules, ast, m_errors, tables, order, at, decl>>

(* resolveTypeName for every type of the module. *)
resolveModuleSymbols ==
  /\ Run("resolveModuleSymbols") /\ m_modules[path] \subseteq DOMAIN m_modules
  /\ LET used  == UsedIn(ast[path])
         found == {n \in used : Candidates(path, n) # {}}
     IN  /\ Report(When(~ Applied(ast[path]), "INVALID_TYPE_ARGS")
                     \cup When(found # used, "SYMBOL_NOT_DEFINED")
                     \cup When(\E n \in found : Cardinality(Candidates(path, n)) > 1,
                               "SYMBOL_AMBIGUOUS"))
         /\ \E def \in [found -> DOMAIN m_symbolTable] :
              /\ \A n \in found : def[n] \in FirstOf(path, n)
              /\ resolvedDef' = [resolvedDef EXCEPT ![path] = def]
  /\ NextModule
  /\ UNCHANGED <<m_modules, ast, packageName, m_symbolTable, globalMessages, order, validated>>

-----------------------------------------------------------------------------
(* Mutant: the table of ids is that of a module. *)
validateModuleMessageIds ==
  /\ Run("validateGlobalMessageIds")
  /\ IF decl > Len(ast[path]) THEN NextModule /\ globalMessages' = {} /\ UNCHANGED m_errors
     ELSE /\ NextDecl
          /\ IF ast[path][decl].is # "message" THEN UNCHANGED <<m_errors, globalMessages>>
             ELSE LET msgId == ast[path][decl].messageId
                  IN  /\ Report(When(msgId \cap globalMessages # {}, "MULTIPLY_DEFINED_MESSAGE_ID"))
                      /\ globalMessages' = globalMessages \cup msgId
  /\ UNCHANGED <<m_modules, ast, packageName, m_symbolTable, resolvedDef, order, validated>>

(* validateGlobalMessageIds, for the next declaration of the module. *)
validateGlobalMessageIds ==
  /\ Run("validateGlobalMessageIds")
  /\ IF decl > Len(ast[path]) THEN NextModule /\ UNCHANGED <<m_errors, globalMessages>>
     ELSE /\ NextDecl
          /\ IF ast[path][decl].is # "message" THEN UNCHANGED <<m_errors, globalMessages>>
             ELSE LET msgId == ast[path][decl].messageId
                  IN  /\ Report(When(msgId \cap globalMessages # {}, "MULTIPLY_DEFINED_MESSAGE_ID"))
                      /\ globalMessages' = globalMessages \cup msgId
  /\ UNCHANGED <<m_modules, ast, packageName, m_symbolTable, resolvedDef, order, validated>>

Same(entries, key(_)) ==
  \E i, j \in DOMAIN entries : i # j /\ key(entries[i]) = key(entries[j])

Reserved(block) == UNION {ToSet(r.fieldNumbers) : r \in ToSet(Only(block, {"reserved"}))}
Numbered(block) == Only(block, {"field", "value"})

(* fieldsByFieldId takes the reserved numbers first, and then one entry    *)
(* for each field or value.                                                *)
NumbersClash(block) ==
  \/ Same(Numbered(block), LAMBDA f : f.fieldNumber)
  \/ \E f \in ToSet(Numbered(block)) : f.fieldNumber \in Reserved(block)

NamesClash(block) == Same(Numbered(block), LAMBDA f : f.name)

BlocksIn(block)  == {block} \cup {t.block : t \in TypesIn(block)}
Blocks(file, in(_)) ==
  UNION {IF d.is = "message" THEN in(d.block) ELSE {d.block} : d \in ToSet(Definitions(file))}

NumbersClashIn(file) == \E block \in Blocks(file, BlocksIn) : NumbersClash(block)
NamesClashIn(file)   == \E block \in Blocks(file, NamedBlocks) : NamesClash(block)

validateFieldNumbers ==
  /\ Run("validateFieldNumbers")
  /\ Report(When(NumbersClashIn(ast[path]), "MULTIPLY_DEFINED_FIELD_ID"))
  /\ NextModule
  /\ UNCHANGED <<m_modules, ast, tables, order, validated>>

validateFieldNames ==
  /\ Run("validateFieldNames")
  /\ Report(When(NamesClashIn(ast[path]), "MULTIPLY_DEFINED_SYMBOL"))
  /\ NextModule
  /\ UNCHANGED <<m_modules, ast, tables, order, validated>>

computeDirectives ==
  /\ Run("computeDirectives")
  /\ ast' = [ast EXCEPT ![path] = WithDirectives(@)]
  /\ NextModule
  /\ UNCHANGED <<m_modules, m_errors, tables, order, validated>>

-----------------------------------------------------------------------------
validateAstTypeProperties ==
  /\ Run("validateAstTypeProperties")
  /\ \A t \in TypesOfFile(ast[path]) : ~ Properties(t).threw
  /\ Report(UNION {Properties(t).errors : t \in TypesOfFile(ast[path])})
  /\ NextModule
  /\ UNCHANGED <<m_modules, ast, tables, order, validated>>

(* std::stoi of a literal that is no int. *)
LiteralTooLarge ==
  /\ Run("validateAstTypeProperties")
  /\ \E t \in TypesOfFile(ast[path]) : Properties(t).threw
  /\ validated' = "threw" /\ pass' = 0
  /\ UNCHANGED <<m_modules, ast, m_errors, tables, order, at, decl>>

-----------------------------------------------------------------------------
Nothing == [name \in {} |-> 0]

(* A SemanticContext before validate: of its modules nothing is known yet. *)
ValidateInit ==
  /\ packageName = [p \in DOMAIN ast |-> Unnamed]
  /\ resolvedDef = [p \in DOMAIN ast |-> Nothing]
  /\ m_symbolTable = <<>>
  /\ globalMessages = {}
  /\ order = <<>> /\ pass = 0 /\ at = 1 /\ decl = 1
  /\ validated = "none"

(* loadFile adds modules, so that these are the files. *)
Opened(file) ==
  /\ ast' = file
  /\ packageName' = [p \in DOMAIN file |-> Unnamed]
  /\ resolvedDef' = [p \in DOMAIN file |-> Nothing]
  /\ UNCHANGED <<m_symbolTable, globalMessages, order, cursor, validated>>

ValidateStep ==
  \/ PassEnds
  \/ validateReturns
  \/ setPackageName
  \/ exportSymbols
  \/ DependencyMissing
  \/ resolveModuleSymbols
  \/ validateGlobalMessageIds
  \/ validateFieldNumbers
  \/ validateFieldNames
  \/ computeDirectives
  \/ validateAstTypeProperties
  \/ LiteralTooLarge
-----------------------------------------------------------------------------
(* The declarations are the same ones, by kind, name and message number.   *)
SameDecls(file, new) ==
  /\ Len(new) = Len(file)
  /\ \A i \in DOMAIN file :
       /\ new[i].is = file[i].is
       /\ file[i].is \in {"message", "enum"} =>
            new[i].name = file[i].name /\ new[i].messageId = file[i].messageId

(* And the file obeys those rules of the passes that it did. *)
SameRules(file, new) ==
  /\ Packages(new) = Packages(file)
  /\ UsedIn(new) = UsedIn(file)
  /\ Applied(new) <=> Applied(file)
  /\ NumbersClashIn(new) <=> NumbersClashIn(file)
  /\ NamesClashIn(new) <=> NamesClashIn(file)

(* What is accepted has no two declarations with a full name in common and *)
(* no two messages with a number in common, in one module or in two, in    *)
(* whatever order the modules were gone through (populateFromQualifiedId,  *)
(* SemanticContext.cpp:18-36, and AstValidateIds.cpp:10-50).               *)
Apart(package, d, other, e) ==
  /\ d.is \in {"message", "enum"} /\ e.is \in {"message", "enum"} =>
       <<package, d.name>> # <<other, e.name>>
  /\ d.is = "message" /\ e.is = "message" => d.messageId \cap e.messageId = {}

AcceptedIdsUnique ==
  validated = "ok" =>
    \A p, q \in DOMAIN ast : \A i \in DOMAIN ast[p], j \in DOMAIN ast[q] :
      <<p, i>> # <<q, j>> => Apart(packageName[p], ast[p][i], packageName[q], ast[q][j])

(* The rules that the passes are for, said of the files alone: a file is   *)
(* of one package, types have their arguments and properties, no block has *)
(* a number or a name twice, declarations are apart, and a name stands for *)
(* one of them.                                                            *)
PackageOf(p) == Packages(ast[p])[1].name

StandsFor(p, name, q, i) ==
  /\ q \in {p} \cup m_modules[p] /\ q \in DOMAIN ast /\ i \in DOMAIN ast[q]
  /\ ast[q][i].is \in {"message", "enum"}
  /\ name \in {<<PackageOf(q), ast[q][i].name>>, <<"", ast[q][i].name>>}

FileRules(p) ==
  /\ Packages(ast[p]) # <<>> /\ ~ Len(Packages(ast[p])) > 1
  /\ m_modules[p] \subseteq DOMAIN ast
  /\ Applied(ast[p]) /\ ~ NumbersClashIn(ast[p]) /\ ~ NamesClashIn(ast[p])

StandsForOne(p, name) ==
  \E q \in DOMAIN ast : \E i \in DOMAIN ast[q] :
    /\ StandsFor(p, name, q, i)
    /\ \A r \in DOMAIN ast : \A j \in DOMAIN ast[r] : StandsFor(p, name, r, j) => r = q /\ j = i

Encoded(file) ==
  \A t \in TypesOfFile(file) : Properties(t).errors = {} /\ ~ Properties(t).threw

NamingRules ==
  /\ \A p \in DOMAIN ast : FileRules(p)
  /\ \A p \in DOMAIN ast : \A name \in UsedIn(ast[p]) : StandsForOne(p, name)
  /\ \A p, q \in DOMAIN ast : \A i \in DOMAIN ast[p], j \in DOMAIN ast[q] :
       <<p, i>> # <<q, j>> => Apart(PackageOf(p), ast[p][i], PackageOf(q), ast[q][j])

ObeysRules == NamingRules /\ \A p \in DOMAIN ast : Encoded(ast[p])

(* What is accepted obeys the rules (SemanticContext.h:46-51), although    *)
(* the passes go on after errors and over modules that others refused; and *)
(* a name was resolved to the declaration that it stands for.              *)
RulesObeyed ==
  validated = "ok" =>
    /\ ObeysRules
    /\ \A p \in DOMAIN ast : \A name \in UsedIn(ast[p]) :
         LET id == resolvedDef[p][name]
         IN  id \in DOMAIN m_symbolTable
             /\ StandsFor(p, name, m_symbolTable[id].module, m_symbolTable[id].decl)

(* What is refused, with modules that were loaded without an error, breaks *)
(* a rule, and what an exception ends does.                                *)
RefusedForAReason == validated \in {"failed", "threw"} => ~ ObeysRules
=============================================================================
