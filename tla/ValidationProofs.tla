-------------------------- MODULE ValidationProofs --------------------------
(***************************************************************************)
(* validate on any modules, in any order: it accepts what obeys the rules  *)
(* and, when they were loaded without an error, refuses nothing that does. *)
(* The passes share tables, and a pass goes on after an error; the         *)
(* invariants say what the tables hold of the declarations that a pass has *)
(* behind it, as long as nothing was reported.                             *)
(***************************************************************************)
EXTENDS Validation, FiniteSetTheorems, TLAPS

CONSTANT Decls    \* what may stand in a file

(* The modules that loadFile left, and the errors it found. *)
Init ==
  /\ IsFiniteSet(DOMAIN m_modules)
  /\ ast \in [DOMAIN m_modules -> Seq(Decls)]
  /\ ValidateInit

Next == validate \/ ValidateStep
Spec == Init /\ [][Next]_vars

-----------------------------------------------------------------------------
(* computeDirectives fills in what is in effect and nothing else. *)
FillsInOnly ==
  \A file \in Seq(Decls) : WithDirectives(file) \in Seq(Decls) /\ SameDecls(file, WithDirectives(file))

IsASeq(s) == \E T : s \in Seq(T)

Typed ==
  /\ IsFiniteSet(DOMAIN m_modules)
  /\ ast \in [DOMAIN m_modules -> Seq(Decls)]
  /\ packageName = [p \in DOMAIN m_modules |-> packageName[p]]
  /\ IsASeq(m_symbolTable)
  /\ pass \in 0..8 /\ at \in Nat \ {0} /\ decl \in Nat \ {0}
  /\ validated # "none" => pass = 0
  /\ pass # 0 =>
       /\ order \in Seq(DOMAIN m_modules)
       /\ \A p \in DOMAIN m_modules : \E n \in DOMAIN order : order[n] = p

(* Pass k has declaration i of the n-th module behind it. *)
Behind(k, n, i) == pass > k \/ (pass = k /\ (n < at \/ (n = at /\ i < decl)))
Clean           == pass # 0 /\ m_errors = {}

DeclOf(n, i) == ast[order[n]][i]
SymbolAt(n, i) == Symbol(<<packageName[order[n]], DeclOf(n, i).name>>, order[n], i)

Exported ==
  Clean => \A n \in DOMAIN order : \A i \in DOMAIN ast[order[n]] :
    Behind(1, n, i) /\ DeclOf(n, i).is \in {"message", "enum"} =>
      /\ packageName[order[n]] # Unnamed
      /\ \E id \in DOMAIN m_symbolTable : m_symbolTable[id] = SymbolAt(n, i)

SymbolsUnique ==
  \A a, b \in DOMAIN m_symbolTable : m_symbolTable[a].fqn = m_symbolTable[b].fqn => a = b

Seen ==
  Clean => \A n \in DOMAIN order : \A i \in DOMAIN ast[order[n]] :
    Behind(3, n, i) /\ DeclOf(n, i).is = "message" => DeclOf(n, i).messageId \subseteq globalMessages

NumbersApart ==
  Clean => \A m, n \in DOMAIN order : \A i \in DOMAIN ast[order[m]], j \in DOMAIN ast[order[n]] :
    /\ Behind(3, m, i) /\ DeclOf(m, i).is = "message"
    /\ Behind(3, n, j) /\ DeclOf(n, j).is = "message"
    /\ <<order[m], i>> # <<order[n], j>>
    => DeclOf(m, i).messageId \cap DeclOf(n, j).messageId = {}

IInv ==
  Typed /\ Exported /\ SymbolsUnique /\ Seen /\ NumbersApart /\ AcceptedIdsUnique

-----------------------------------------------------------------------------
LEMMA AppendToSeq ==
  ASSUME NEW s, NEW e, IsASeq(s)
  PROVE  /\ IsASeq(Append(s, e))
         /\ Len(s) \in Nat /\ DOMAIN s = 1..Len(s)
         /\ DOMAIN Append(s, e) = 1..(Len(s) + 1)
         /\ \A i \in 1..Len(s) : Append(s, e)[i] = s[i]
         /\ Append(s, e)[Len(s) + 1] = e
<1>1. PICK T : s \in Seq(T)
  BY DEF IsASeq
<1>2. s \in Seq(T \cup {e}) /\ e \in T \cup {e}
  BY <1>1
<1>3. Append(s, e) \in Seq(T \cup {e})
  BY <1>2
<1> QED
  BY <1>2, <1>3 DEF IsASeq

LEMMA WhichPass ==
  ASSUME NEW name, Run(name)
  PROVE  /\ pass \in 1..7 /\ at <= Len(order)
         /\ name = "exportSymbols" => pass = 1
         /\ name = "resolveModuleSymbols" => pass = 2
         /\ name = "validateGlobalMessageIds" => pass = 3
         /\ name = "validateFieldNumbers" => pass = 4
         /\ name = "validateFieldNames" => pass = 5
         /\ name = "computeDirectives" => pass = 6
         /\ name = "validateAstTypeProperties" => pass = 7
BY DEF Run, Passes

LEMMA EmptyIsASeq == IsASeq(<<>>)
<1>1. <<>> \in Seq(Decls)
  OBVIOUS
<1> QED BY <1>1 DEF IsASeq

LEMMA Initially == Init => IInv
<1> SUFFICES ASSUME Init PROVE IInv
  OBVIOUS
<1>1. Typed
  <2>1. packageName = [p \in DOMAIN m_modules |-> packageName[p]]
    BY DEF Init, ValidateInit
  <2>2. IsASeq(m_symbolTable)
    BY EmptyIsASeq DEF Init, ValidateInit
  <2>3. pass = 0 /\ at = 1 /\ decl = 1 /\ validated = "none"
    BY DEF Init, ValidateInit
  <2> QED BY <2>1, <2>2, <2>3 DEF Typed, Init
<1>2. DOMAIN m_symbolTable = {}
  <2>1. m_symbolTable = <<>>
    BY DEF Init, ValidateInit
  <2>2. <<>> \in Seq(Decls) /\ Len(<<>>) = 0
    OBVIOUS
  <2> QED BY <2>1, <2>2
<1>3. ~ Clean /\ validated # "ok"
  BY DEF Init, ValidateInit, Clean
<1> QED
  BY <1>1, <1>2, <1>3 DEF IInv, Exported, SymbolsUnique, Seen, NumbersApart, AcceptedIdsUnique

(* What a step keeps that neither adds to what pass 1 or 3 has behind it   *)
(* nor touches what these two passes note.                                 *)
LEMMA Elsewhere ==
  ASSUME IInv, pass # 0, pass' \in 1..8, at' \in Nat \ {0}, decl' \in Nat \ {0},
         UNCHANGED <<m_modules, packageName, m_symbolTable, globalMessages, order, validated>>,
         ast' \in [DOMAIN m_modules -> Seq(Decls)],
         \A p \in DOMAIN m_modules : SameDecls(ast[p], ast'[p]),
         m_errors \subseteq m_errors',
         \A n \in DOMAIN order : \A i \in DOMAIN ast[order[n]] :
           /\ DeclOf(n, i).is \in {"message", "enum"} /\ Behind(1, n, i)' => Behind(1, n, i)
           /\ DeclOf(n, i).is = "message" /\ Behind(3, n, i)' => Behind(3, n, i)
  PROVE  IInv'
<1>1. Typed'
  BY DEF IInv, Typed
<1>2. Clean' => Clean
  BY DEF Clean
<1>3. \A n \in DOMAIN order :
        /\ DOMAIN ast'[order[n]] = DOMAIN ast[order[n]]
        /\ \A i \in DOMAIN ast[order[n]] :
             /\ DeclOf(n, i)'.is = DeclOf(n, i).is
             /\ DeclOf(n, i).is \in {"message", "enum"} =>
                  /\ DeclOf(n, i)'.name = DeclOf(n, i).name
                  /\ DeclOf(n, i)'.messageId = DeclOf(n, i).messageId
  <2> TAKE n \in DOMAIN order
  <2>1. order[n] \in DOMAIN m_modules
    BY DEF IInv, Typed
  <2>2. ast[order[n]] \in Seq(Decls) /\ ast'[order[n]] \in Seq(Decls)
    BY <2>1 DEF IInv, Typed
  <2>3. SameDecls(ast[order[n]], ast'[order[n]])
    BY <2>1
  <2> QED BY <2>2, <2>3 DEF SameDecls, DeclOf
<1>4. Exported'
  <2> SUFFICES ASSUME Clean', NEW n \in DOMAIN order, NEW i \in DOMAIN ast'[order[n]],
                      Behind(1, n, i)', DeclOf(n, i)'.is \in {"message", "enum"}
               PROVE  /\ packageName[order[n]] # Unnamed
                      /\ \E id \in DOMAIN m_symbolTable : m_symbolTable[id] = SymbolAt(n, i)'
    BY DEF Exported
  <2>1. i \in DOMAIN ast[order[n]]
    BY <1>3
  <2>2. Behind(1, n, i) /\ DeclOf(n, i).is \in {"message", "enum"}
    BY <1>3, <2>1
  <2>3. SymbolAt(n, i)' = SymbolAt(n, i)
    BY <1>3, <2>1, <2>2 DEF SymbolAt
  <2> QED BY <1>2, <2>1, <2>2, <2>3 DEF IInv, Exported
<1>5. SymbolsUnique'
  BY DEF IInv, SymbolsUnique
<1>6. Seen'
  BY <1>2, <1>3 DEF IInv, Seen
<1>7. NumbersApart'
  <2> SUFFICES ASSUME Clean', NEW m \in DOMAIN order, NEW n \in DOMAIN order,
                      NEW i \in DOMAIN ast'[order[m]], NEW j \in DOMAIN ast'[order[n]],
                      Behind(3, m, i)', DeclOf(m, i)'.is = "message",
                      Behind(3, n, j)', DeclOf(n, j)'.is = "message",
                      <<order[m], i>> # <<order[n], j>>
               PROVE  DeclOf(m, i)'.messageId \cap DeclOf(n, j)'.messageId = {}
    BY DEF NumbersApart
  <2>1. i \in DOMAIN ast[order[m]] /\ j \in DOMAIN ast[order[n]]
    BY <1>3
  <2>2. /\ DeclOf(m, i).is = "message" /\ DeclOf(n, j).is = "message"
        /\ DeclOf(m, i)'.messageId = DeclOf(m, i).messageId
        /\ DeclOf(n, j)'.messageId = DeclOf(n, j).messageId
    BY <1>3, <2>1
  <2>3. Behind(3, m, i) /\ Behind(3, n, j)
    BY <2>1, <2>2
  <2> QED BY <1>2, <2>1, <2>2, <2>3 DEF IInv, NumbersApart
<1>8. AcceptedIdsUnique'
  BY DEF IInv, Typed, AcceptedIdsUnique
<1> QED
  BY <1>1, <1>4, <1>5, <1>6, <1>7, <1>8 DEF IInv

(* A pass that threw has told nobody that the modules are in order. *)
LEMMA Threw ==
  ASSUME IInv, pass' = 0, validated' = "threw",
         UNCHANGED <<m_modules, ast, m_errors, tables, order, at, decl>>
  PROVE  IInv'
<1>1. Typed'
  BY DEF IInv, Typed, tables
<1>2. SymbolsUnique'
  BY DEF IInv, SymbolsUnique, tables
<1>3. ~ Clean' /\ validated' # "ok"
  BY DEF Clean
<1> QED
  BY <1>1, <1>2, <1>3 DEF IInv, Exported, Seen, NumbersApart, AcceptedIdsUnique

(* The end of a module, of a pass, and a step of the passes that neither   *)
(* the names nor the numbers depend on.                                    *)
LEMMA Frames ==
  ASSUME IInv, pass \in 1..7, UNCHANGED <<m_modules, ast, packageName, m_symbolTable,
                                         globalMessages, order, validated>>,
         m_errors \subseteq m_errors',
         \/ NextModule /\ pass \notin {1, 3}
         \/ NextModule /\ at <= Len(order) /\ decl > Len(ast[order[at]])
         \/ at > Len(order) /\ pass' = pass + 1 /\ at' = 1 /\ decl' = 1
  PROVE  IInv'
<1>1. pass' \in 1..8 /\ at' \in Nat \ {0} /\ decl' \in Nat \ {0}
  BY DEF IInv, Typed, NextModule
<1>2. ast' \in [DOMAIN m_modules -> Seq(Decls)]
  BY DEF IInv, Typed
<1>3. \A q \in DOMAIN m_modules : SameDecls(ast[q], ast'[q])
  BY DEF SameDecls
<1>4. \A n \in DOMAIN order : \A i \in DOMAIN ast[order[n]] :
        /\ n \in 1..Len(order) /\ Len(order) \in Nat
        /\ i \in 1..Len(ast[order[n]]) /\ Len(ast[order[n]]) \in Nat
  <2> TAKE n \in DOMAIN order
  <2>1. order \in Seq(DOMAIN m_modules)
    BY DEF IInv, Typed
  <2>2. ast[order[n]] \in Seq(Decls)
    BY <2>1 DEF IInv, Typed
  <2> QED BY <2>1, <2>2
<1>5. \A n \in DOMAIN order : \A i \in DOMAIN ast[order[n]] :
        /\ Behind(1, n, i)' => Behind(1, n, i)
        /\ Behind(3, n, i)' => Behind(3, n, i)
  <2>1. CASE NextModule /\ pass \notin {1, 3}
    BY <1>4, <2>1 DEF Behind, NextModule
  <2>2. CASE NextModule /\ at <= Len(order) /\ decl > Len(ast[order[at]])
    <3> TAKE n \in DOMAIN order
    <3> TAKE i \in DOMAIN ast[order[n]]
    <3>1. n \in Nat /\ i \in Nat /\ i <= Len(ast[order[n]]) /\ Len(ast[order[n]]) \in Nat
      BY <1>4
    <3>2. at \in Nat /\ decl \in Nat /\ at' = at + 1 /\ decl' = 1 /\ pass' = pass
      BY <2>2 DEF NextModule, IInv, Typed
    <3>3. n = at => i < decl
      BY <2>2, <3>1, <3>2
    <3> QED BY <3>1, <3>2, <3>3 DEF Behind
  <2>3. CASE at > Len(order) /\ pass' = pass + 1 /\ at' = 1 /\ decl' = 1
    BY <1>4, <2>3 DEF Behind, IInv, Typed
  <2> QED BY <2>1, <2>2, <2>3
<1> QED
  BY <1>1, <1>2, <1>3, <1>5, Elsewhere

LEMMA Starts == ASSUME IInv, validate PROVE IInv'
<1>1. order' \in Seq(DOMAIN m_modules) /\ \A q \in DOMAIN m_modules : \E n \in DOMAIN order' : order'[n] = q
  <2>1. Cardinality(DOMAIN m_modules) \in Nat
    BY FS_CardinalityType DEF IInv, Typed
  <2>2. PICK s \in [1..Cardinality(DOMAIN m_modules) -> DOMAIN m_modules] :
          ToSet(s) = DOMAIN m_modules /\ order' = s
    BY DEF validate
  <2>3. s \in Seq(DOMAIN m_modules)
    BY <2>1, <2>2
  <2> QED BY <2>2, <2>3 DEF ToSet
<1>2. Typed'
  BY <1>1 DEF IInv, Typed, validate, tables
<1>3. \A n \in DOMAIN order', i \in Nat \ {0} : ~ Behind(1, n, i)' /\ ~ Behind(3, n, i)'
  BY <1>1 DEF Behind, validate
<1>4. \A n \in DOMAIN order' : DOMAIN ast'[order'[n]] \subseteq Nat \ {0}
  <2> TAKE n \in DOMAIN order'
  <2>1. order'[n] \in DOMAIN m_modules
    BY <1>1
  <2>2. ast' = ast /\ ast \in [DOMAIN m_modules -> Seq(Decls)]
    BY DEF validate, IInv, Typed
  <2>3. ast'[order'[n]] \in Seq(Decls)
    BY <2>1, <2>2
  <2> QED BY <2>3
<1>5. Exported' /\ Seen' /\ NumbersApart'
  BY <1>3, <1>4 DEF Exported, Seen, NumbersApart
<1>6. SymbolsUnique' /\ AcceptedIdsUnique'
  BY DEF IInv, SymbolsUnique, AcceptedIdsUnique, validate, tables
<1> QED
  BY <1>2, <1>5, <1>6 DEF IInv

(* The last pass is over: all declarations are behind passes 1 and 3.      *)
LEMMA Returns == ASSUME IInv, validateReturns PROVE IInv'
<1>1. Typed'
  BY DEF IInv, Typed, validateReturns, tables
<1>2. SymbolsUnique' /\ ~ Clean'
  BY DEF IInv, SymbolsUnique, validateReturns, tables, Clean
<1>3. AcceptedIdsUnique'
  <2> SUFFICES ASSUME m_errors = {},
                      NEW p \in DOMAIN ast, NEW q \in DOMAIN ast,
                      NEW i \in DOMAIN ast[p], NEW j \in DOMAIN ast[q], <<p, i>> # <<q, j>>
               PROVE  Apart(packageName[p], ast[p][i], packageName[q], ast[q][j])
    BY DEF AcceptedIdsUnique, validateReturns, tables, Apart
  <2>1. pass = 8 /\ Clean
    BY DEF validateReturns, Clean, Passes
  <2>2. PICK m \in DOMAIN order, n \in DOMAIN order : order[m] = p /\ order[n] = q
    BY <2>1 DEF IInv, Typed
  <2>3. /\ Behind(1, m, i) /\ Behind(1, n, j) /\ Behind(3, m, i) /\ Behind(3, n, j)
        /\ DeclOf(m, i) = ast[p][i] /\ DeclOf(n, j) = ast[q][j]
    BY <2>1, <2>2 DEF Behind, DeclOf
  <2>4. ASSUME ast[p][i].is \in {"message", "enum"}, ast[q][j].is \in {"message", "enum"},
               <<packageName[p], ast[p][i].name>> = <<packageName[q], ast[q][j].name>>
        PROVE  FALSE
    <3>1. PICK a \in DOMAIN m_symbolTable : m_symbolTable[a] = SymbolAt(m, i)
      BY <2>1, <2>2, <2>3, <2>4 DEF IInv, Exported
    <3>2. PICK b \in DOMAIN m_symbolTable : m_symbolTable[b] = SymbolAt(n, j)
      BY <2>1, <2>2, <2>3, <2>4 DEF IInv, Exported
    <3>3. SymbolAt(m, i) = SymbolAt(n, j)
      BY <2>2, <2>3, <2>4, <3>1, <3>2 DEF IInv, SymbolsUnique, SymbolAt, Symbol
    <3> QED BY <2>2, <3>3 DEF SymbolAt, Symbol
  <2>5. ASSUME ast[p][i].is = "message", ast[q][j].is = "message"
        PROVE  ast[p][i].messageId \cap ast[q][j].messageId = {}
    BY <2>1, <2>2, <2>3, <2>5 DEF IInv, NumbersApart
  <2> QED BY <2>4, <2>5 DEF Apart
<1> QED
  BY <1>1, <1>2, <1>3 DEF IInv, Exported, Seen, NumbersApart

LEMMA Here ==
  ASSUME IInv, pass \in 1..7, at <= Len(order)
  PROVE  /\ IsFiniteSet(DOMAIN m_modules)
         /\ ast \in [DOMAIN m_modules -> Seq(Decls)]
         /\ order \in Seq(DOMAIN m_modules) /\ DOMAIN order = 1..Len(order) /\ Len(order) \in Nat
         /\ at \in DOMAIN order /\ at \in Nat \ {0} /\ decl \in Nat \ {0}
         /\ path \in DOMAIN m_modules /\ ast[path] \in Seq(Decls) /\ Len(ast[path]) \in Nat
         /\ validated = "none" /\ IsASeq(m_symbolTable)
         /\ \A n \in DOMAIN order : DOMAIN ast[order[n]] \subseteq Nat \ {0}
<1>1. order \in Seq(DOMAIN m_modules) /\ at \in Nat \ {0} /\ decl \in Nat \ {0}
  BY DEF IInv, Typed
<1>2. DOMAIN order = 1..Len(order) /\ Len(order) \in Nat
  BY <1>1
<1>3. at \in DOMAIN order
  BY <1>1, <1>2
<1>4. path \in DOMAIN m_modules
  BY <1>1, <1>3 DEF path
<1>5. ast \in [DOMAIN m_modules -> Seq(Decls)]
  BY DEF IInv, Typed
<1>6. \A n \in DOMAIN order : DOMAIN ast[order[n]] \subseteq Nat \ {0}
  <2> TAKE n \in DOMAIN order
  <2>1. order[n] \in DOMAIN m_modules
    BY <1>1
  <2>2. ast[order[n]] \in Seq(Decls)
    BY <1>5, <2>1
  <2> QED BY <2>2
<1>7. validated = "none" /\ IsASeq(m_symbolTable) /\ IsFiniteSet(DOMAIN m_modules)
  BY DEF IInv, Typed
<1>8. ast[path] \in Seq(Decls)
  BY <1>4, <1>5
<1> QED
  BY <1>1, <1>2, <1>3, <1>4, <1>5, <1>6, <1>7, <1>8

(* A step within a pass that changes neither modules nor packages. *)
LEMMA StaysTyped ==
  ASSUME IInv, pass \in 1..7, at <= Len(order), pass' = pass, at' \in Nat \ {0}, decl' \in Nat \ {0},
         UNCHANGED <<m_modules, ast, packageName, order, validated>>, IsASeq(m_symbolTable')
  PROVE  Typed' /\ AcceptedIdsUnique' /\ validated' # "ok"
<1>1. Typed
  BY DEF IInv
<1>2. validated' = "none"
  BY Here
<1>3. AcceptedIdsUnique' /\ validated' # "ok"
  BY <1>2 DEF AcceptedIdsUnique
<1>4. Typed'
  <2>1. IsFiniteSet(DOMAIN m_modules') /\ ast' \in [DOMAIN m_modules' -> Seq(Decls)]
    BY <1>1 DEF Typed
  <2>2. packageName' = [p \in DOMAIN m_modules' |-> packageName'[p]]
    BY <1>1 DEF Typed
  <2>3. /\ order' \in Seq(DOMAIN m_modules')
        /\ \A p \in DOMAIN m_modules' : \E n \in DOMAIN order' : order'[n] = p
    BY <1>1 DEF Typed
  <2> QED BY <1>2, <2>1, <2>2, <2>3 DEF Typed
<1> QED BY <1>3, <1>4

LEMMA Names == ASSUME IInv, setPackageName PROVE IInv'
<1> DEFINE declared == Packages(ast[path])
<1>1. pass = 1 /\ at <= Len(order) /\ decl = 1 /\ packageName[path] = Unnamed
  BY WhichPass DEF setPackageName
<1>2. path \in DOMAIN m_modules /\ order \in Seq(DOMAIN m_modules) /\ at \in Nat \ {0}
  BY <1>1, Here
<1>3. validated = "none"
  BY <1>1, Here
<1>4. Typed'
  <2>1. packageName' = [p \in DOMAIN m_modules' |-> packageName'[p]]
    BY DEF IInv, Typed, setPackageName
  <2>2. pass' = pass /\ at' \in Nat \ {0} /\ decl' \in Nat \ {0}
    BY <1>1, <1>2 DEF setPackageName, NextModule, cursor
  <2>3. UNCHANGED <<m_modules, ast, m_symbolTable, order, validated>>
    BY DEF setPackageName
  <2> QED BY <1>1, <1>3, <2>1, <2>2, <2>3 DEF IInv, Typed
<1>5. SymbolsUnique' /\ AcceptedIdsUnique'
  BY <1>3 DEF IInv, SymbolsUnique, AcceptedIdsUnique, setPackageName
<1>6. CASE declared = <<>>
  <2>1. "MISSING_PACKAGE_DECLARATION" \in m_errors'
    BY <1>6 DEF setPackageName, Report, When
  <2>2. ~ Clean'
    BY <2>1 DEF Clean
  <2> QED BY <1>4, <1>5, <2>2 DEF IInv, Exported, Seen, NumbersApart
<1>7. CASE declared # <<>>
  <2>1. /\ UNCHANGED cursor /\ UNCHANGED <<m_modules, ast, m_symbolTable, globalMessages, order>>
        /\ packageName' = [packageName EXCEPT ![path] = declared[1].name]
        /\ m_errors \subseteq m_errors'
    BY <1>7 DEF setPackageName, Report
  <2>2. Clean' => Clean
    BY <2>1 DEF Clean, cursor
  <2>3. \A k, n, i : Behind(k, n, i)' <=> Behind(k, n, i)
    BY <2>1 DEF Behind, cursor
  <2>4. Exported'
    <3> SUFFICES ASSUME Clean', NEW n \in DOMAIN order, NEW i \in DOMAIN ast[order[n]],
                        Behind(1, n, i), DeclOf(n, i).is \in {"message", "enum"}
                 PROVE  /\ packageName'[order[n]] # Unnamed
                        /\ \E id \in DOMAIN m_symbolTable : m_symbolTable[id] = SymbolAt(n, i)'
      BY <2>1, <2>3 DEF Exported, DeclOf
    <3>1. packageName[order[n]] # Unnamed
      BY <2>2 DEF IInv, Exported
    <3>2. packageName'[order[n]] = packageName[order[n]]
      <4>1. order[n] # path /\ order[n] \in DOMAIN m_modules
        BY <1>1, <1>2, <3>1
      <4>2. DOMAIN packageName = DOMAIN m_modules
        BY DEF IInv, Typed
      <4> QED BY <2>1, <4>1, <4>2
    <3>3. SymbolAt(n, i)' = SymbolAt(n, i)
      BY <2>1, <3>2 DEF SymbolAt, DeclOf
    <3> QED BY <2>2, <3>1, <3>2, <3>3 DEF IInv, Exported
  <2>5. Seen' /\ NumbersApart'
    BY <2>1, <2>2, <2>3 DEF IInv, Seen, NumbersApart, DeclOf
  <2> QED BY <1>4, <1>5, <2>4, <2>5 DEF IInv
<1> QED BY <1>6, <1>7

LEMMA Symbols == ASSUME IInv, exportSymbols PROVE IInv'
<1> DEFINE d   == ast[path][decl]
           fqn == <<packageName[path], d.name>>
<1>1. pass = 1 /\ at <= Len(order) /\ packageName[path] # Unnamed
  BY WhichPass DEF exportSymbols
<1>2. /\ order \in Seq(DOMAIN m_modules) /\ path \in DOMAIN m_modules /\ ast[path] \in Seq(Decls)
      /\ IsASeq(m_symbolTable) /\ at \in Nat \ {0} /\ decl \in Nat \ {0}
      /\ \A n \in DOMAIN order : n \in Nat /\ DOMAIN ast[order[n]] \subseteq Nat
  BY <1>1, Here
<1>3. UNCHANGED <<m_modules, ast, packageName, globalMessages, order, validated>>
  BY DEF exportSymbols
<1>4. CASE decl > Len(ast[path])
  <2>1. NextModule /\ UNCHANGED <<m_symbolTable, m_errors>>
    BY <1>4 DEF exportSymbols
  <2>2. m_errors \subseteq m_errors' /\ decl > Len(ast[order[at]])
    BY <1>4, <2>1 DEF path
  <2> QED BY <1>1, <1>3, <2>1, <2>2, Frames
<1>5. CASE ~ (decl > Len(ast[path]))
  <2>1. /\ pass' = pass /\ at' = at /\ decl' = decl + 1
        /\ IF d.is \notin {"message", "enum"} THEN UNCHANGED <<m_symbolTable, m_errors>>
           ELSE IF Known(fqn) THEN Report({"MULTIPLY_DEFINED_SYMBOL"}) /\ UNCHANGED m_symbolTable
           ELSE m_symbolTable' = Append(m_symbolTable, Symbol(fqn, path, decl)) /\ UNCHANGED m_errors
    BY <1>5 DEF exportSymbols, NextDecl
  <2>2. \A n \in DOMAIN order : \A i \in DOMAIN ast[order[n]] :
          /\ Behind(1, n, i)' => Behind(1, n, i) \/ (n = at /\ i = decl)
          /\ ~ Behind(3, n, i)'
    <3> TAKE n \in DOMAIN order
    <3> TAKE i \in DOMAIN ast[order[n]]
    <3>1. n \in Nat /\ i \in Nat
      BY <1>2
    <3>2. pass' = 1 /\ at' = at /\ decl' = decl + 1
      BY <1>1, <2>1
    <3> QED BY <1>1, <1>2, <3>1, <3>2 DEF Behind
  <2>3. CASE d.is \notin {"message", "enum"}
    <3>1. UNCHANGED <<m_symbolTable, m_errors>>
      BY <2>1, <2>3
    <3>2. \A n \in DOMAIN order : \A i \in DOMAIN ast[order[n]] :
            /\ DeclOf(n, i).is \in {"message", "enum"} /\ Behind(1, n, i)' => Behind(1, n, i)
            /\ DeclOf(n, i).is = "message" /\ Behind(3, n, i)' => Behind(3, n, i)
      BY <2>2, <2>3 DEF DeclOf, path
    <3>3. ast' \in [DOMAIN m_modules -> Seq(Decls)] /\ \A q \in DOMAIN m_modules : SameDecls(ast[q], ast'[q])
      BY <1>3 DEF IInv, Typed, SameDecls
    <3>4. pass # 0 /\ pass' \in 1..8 /\ at' \in Nat \ {0} /\ decl' \in Nat \ {0} /\ m_errors \subseteq m_errors'
      BY <1>1, <1>2, <2>1, <3>1
    <3> QED BY <1>3, <3>1, <3>2, <3>3, <3>4, Elsewhere
  <2>4. CASE d.is \in {"message", "enum"} /\ Known(fqn)
    <3>1. Report({"MULTIPLY_DEFINED_SYMBOL"}) /\ UNCHANGED m_symbolTable
      BY <2>1, <2>4
    <3>2. ~ Clean'
      BY <3>1 DEF Report, Clean
    <3>3. at' \in Nat \ {0} /\ decl' \in Nat \ {0} /\ IsASeq(m_symbolTable')
      BY <1>2, <2>1, <3>1
    <3>4. Typed' /\ AcceptedIdsUnique'
      BY <1>1, <1>3, <2>1, <3>3, StaysTyped
    <3>5. SymbolsUnique'
      BY <3>1 DEF IInv, SymbolsUnique
    <3> QED BY <3>2, <3>4, <3>5 DEF IInv, Exported, Seen, NumbersApart
  <2>5. CASE d.is \in {"message", "enum"} /\ ~ Known(fqn)
    <3> DEFINE new == Symbol(fqn, path, decl)
    <3>1. m_symbolTable' = Append(m_symbolTable, new) /\ UNCHANGED m_errors
      BY <2>1, <2>5
    <3>2. /\ IsASeq(m_symbolTable') /\ Len(m_symbolTable) \in Nat
          /\ DOMAIN m_symbolTable = 1..Len(m_symbolTable)
          /\ DOMAIN m_symbolTable' = 1..(Len(m_symbolTable) + 1)
          /\ \A id \in DOMAIN m_symbolTable : m_symbolTable'[id] = m_symbolTable[id]
          /\ m_symbolTable'[Len(m_symbolTable) + 1] = new
      BY <1>2, <3>1, AppendToSeq
    <3>3. Typed' /\ AcceptedIdsUnique'
      <4>1. at' \in Nat \ {0} /\ decl' \in Nat \ {0}
        BY <1>2, <2>1
      <4> QED BY <1>1, <1>3, <2>1, <3>2, <4>1, StaysTyped
    <3>4. SymbolsUnique'
      <4>1. new.fqn = fqn
        BY DEF Symbol
      <4>2. \A id \in DOMAIN m_symbolTable : m_symbolTable[id].fqn # fqn
        BY <2>5 DEF Known
      <4> QED BY <3>2, <4>1, <4>2 DEF IInv, SymbolsUnique
    <3>5. Exported'
      <4> SUFFICES ASSUME Clean', NEW n \in DOMAIN order, NEW i \in DOMAIN ast[order[n]],
                          Behind(1, n, i)', DeclOf(n, i).is \in {"message", "enum"}
                   PROVE  /\ packageName[order[n]] # Unnamed
                          /\ \E id \in DOMAIN m_symbolTable' : m_symbolTable'[id] = SymbolAt(n, i)
        BY <1>3 DEF Exported, DeclOf, SymbolAt
      <4>1. CASE Behind(1, n, i)
        <5>1. Clean
          <6>1. m_errors' = m_errors /\ pass # 0
            BY <1>1, <3>1
          <6> QED BY <6>1 DEF Clean
        <5>2. PICK id \in DOMAIN m_symbolTable : m_symbolTable[id] = SymbolAt(n, i)
          BY <4>1, <5>1 DEF IInv, Exported
        <5>3. id \in DOMAIN m_symbolTable' /\ m_symbolTable'[id] = SymbolAt(n, i)
          BY <3>2, <5>2
        <5>4. packageName[order[n]] # Unnamed
          BY <4>1, <5>1 DEF IInv, Exported
        <5> QED BY <5>3, <5>4
      <4>2. CASE n = at /\ i = decl
        <5>1. new = SymbolAt(n, i) /\ packageName[order[n]] # Unnamed
          BY <1>1, <4>2 DEF SymbolAt, DeclOf, path
        <5> QED BY <3>2, <5>1
      <4> QED BY <2>2, <4>1, <4>2
    <3>6. Seen' /\ NumbersApart'
      BY <1>3, <2>2 DEF Seen, NumbersApart, DeclOf
    <3> QED BY <3>3, <3>4, <3>5, <3>6 DEF IInv
  <2> QED BY <2>3, <2>4, <2>5
<1> QED BY <1>4, <1>5

LEMMA Numbers == ASSUME IInv, validateGlobalMessageIds PROVE IInv'
<1> DEFINE d == ast[path][decl]
<1>1. pass = 3 /\ at <= Len(order)
  BY WhichPass DEF validateGlobalMessageIds
<1>2. /\ at \in Nat \ {0} /\ decl \in Nat \ {0} /\ IsASeq(m_symbolTable)
      /\ ast \in [DOMAIN m_modules -> Seq(Decls)]
      /\ \A n \in DOMAIN order : n \in Nat /\ DOMAIN ast[order[n]] \subseteq Nat \ {0}
  BY <1>1, Here
<1>3. UNCHANGED <<m_modules, ast, packageName, m_symbolTable, order, validated>>
  BY DEF validateGlobalMessageIds
<1>4. CASE decl > Len(ast[path])
  <2>1. NextModule /\ UNCHANGED <<m_errors, globalMessages>>
    BY <1>4 DEF validateGlobalMessageIds
  <2>2. m_errors \subseteq m_errors' /\ decl > Len(ast[order[at]])
    BY <1>4, <2>1 DEF path
  <2> QED BY <1>1, <1>3, <2>1, <2>2, Frames
<1>5. CASE ~ (decl > Len(ast[path]))
  <2>1. pass' = pass /\ at' = at /\ decl' = decl + 1
    BY <1>5 DEF validateGlobalMessageIds, NextDecl
  <2>2. \A n \in DOMAIN order : \A i \in DOMAIN ast[order[n]] :
          /\ Behind(1, n, i)' /\ Behind(1, n, i)
          /\ Behind(3, n, i)' => Behind(3, n, i) \/ (n = at /\ i = decl)
    <3> TAKE n \in DOMAIN order
    <3> TAKE i \in DOMAIN ast[order[n]]
    <3>1. n \in Nat /\ i \in Nat
      BY <1>2
    <3>2. pass' = 3 /\ at' = at /\ decl' = decl + 1
      BY <1>1, <2>1
    <3> QED BY <1>1, <1>2, <3>1, <3>2 DEF Behind
  <2>3. CASE d.is # "message"
    <3>1. UNCHANGED <<m_errors, globalMessages>>
      BY <1>5, <2>3 DEF validateGlobalMessageIds
    <3>2. \A n \in DOMAIN order : \A i \in DOMAIN ast[order[n]] :
            /\ DeclOf(n, i).is \in {"message", "enum"} /\ Behind(1, n, i)' => Behind(1, n, i)
            /\ DeclOf(n, i).is = "message" /\ Behind(3, n, i)' => Behind(3, n, i)
      BY <2>2, <2>3 DEF DeclOf, path
    <3>3. ast' \in [DOMAIN m_modules -> Seq(Decls)] /\ \A q \in DOMAIN m_modules : SameDecls(ast[q], ast'[q])
      BY <1>2, <1>3 DEF SameDecls
    <3>4. pass # 0 /\ pass' \in 1..8 /\ at' \in Nat \ {0} /\ decl' \in Nat \ {0} /\ m_errors \subseteq m_errors'
      BY <1>1, <1>2, <2>1, <3>1
    <3> QED BY <1>3, <3>1, <3>2, <3>3, <3>4, Elsewhere
  <2>4. CASE d.is = "message"
    <3> DEFINE msgId == d.messageId
    <3>1. /\ m_errors' = m_errors \cup When(msgId \cap globalMessages # {}, "MULTIPLY_DEFINED_MESSAGE_ID")
          /\ globalMessages' = globalMessages \cup msgId
      BY <1>5, <2>4 DEF validateGlobalMessageIds, Report
    <3>2. Clean' => Clean /\ msgId \cap globalMessages = {}
      <4>1. pass # 0
        BY <1>1
      <4>2. msgId \cap globalMessages # {} => "MULTIPLY_DEFINED_MESSAGE_ID" \in m_errors'
        BY <3>1 DEF When
      <4>3. m_errors \subseteq m_errors'
        BY <3>1
      <4> QED BY <4>1, <4>2, <4>3 DEF Clean
    <3>3. Typed' /\ AcceptedIdsUnique'
      <4>1. at' \in Nat \ {0} /\ decl' \in Nat \ {0}
        BY <1>2, <2>1
      <4> QED BY <1>1, <1>2, <1>3, <2>1, <4>1, StaysTyped
    <3>4. SymbolsUnique'
      BY <1>3 DEF IInv, SymbolsUnique
    <3>5. Exported'
      BY <1>3, <2>2, <3>2 DEF IInv, Exported, DeclOf, SymbolAt
    <3>6. Seen'
      <4> SUFFICES ASSUME Clean', NEW n \in DOMAIN order, NEW i \in DOMAIN ast[order[n]],
                          Behind(3, n, i)', DeclOf(n, i).is = "message"
                   PROVE  DeclOf(n, i).messageId \subseteq globalMessages'
        BY <1>3 DEF Seen, DeclOf
      <4>1. CASE Behind(3, n, i)
        <5>1. DeclOf(n, i).messageId \subseteq globalMessages
          BY <3>2, <4>1 DEF IInv, Seen
        <5> QED BY <3>1, <5>1
      <4>2. CASE n = at /\ i = decl
        BY <3>1, <4>2 DEF DeclOf, path
      <4> QED BY <2>2, <4>1, <4>2
    <3>7. NumbersApart'
      <4> SUFFICES ASSUME Clean', NEW m \in DOMAIN order, NEW n \in DOMAIN order,
                          NEW i \in DOMAIN ast[order[m]], NEW j \in DOMAIN ast[order[n]],
                          Behind(3, m, i)', DeclOf(m, i).is = "message",
                          Behind(3, n, j)', DeclOf(n, j).is = "message",
                          <<order[m], i>> # <<order[n], j>>
                   PROVE  DeclOf(m, i).messageId \cap DeclOf(n, j).messageId = {}
        BY <1>3 DEF NumbersApart, DeclOf
      <4>1. Clean /\ msgId \cap globalMessages = {}
        BY <3>2
      <4>2. CASE Behind(3, m, i) /\ Behind(3, n, j)
        BY <4>1, <4>2 DEF IInv, NumbersApart
      <4>3. CASE Behind(3, m, i) /\ n = at /\ j = decl
        <5>1. DeclOf(m, i).messageId \subseteq globalMessages
          BY <4>1, <4>3 DEF IInv, Seen
        <5>2. DeclOf(n, j).messageId = msgId
          BY <4>3 DEF DeclOf, path
        <5> QED BY <4>1, <5>1, <5>2
      <4>4. CASE Behind(3, n, j) /\ m = at /\ i = decl
        <5>1. DeclOf(n, j).messageId \subseteq globalMessages
          BY <4>1, <4>4 DEF IInv, Seen
        <5>2. DeclOf(m, i).messageId = msgId
          BY <4>4 DEF DeclOf, path
        <5> QED BY <4>1, <5>1, <5>2
      <4>5. ~ (m = at /\ i = decl /\ n = at /\ j = decl)
        OBVIOUS
      <4> QED BY <2>2, <4>2, <4>3, <4>4, <4>5
    <3> QED BY <3>3, <3>4, <3>5, <3>6, <3>7 DEF IInv
  <2> QED BY <2>3, <2>4
<1> QED BY <1>4, <1>5

(* computeDirectives writes to the file, but not to what names and numbers *)
(* the declarations in it.                                                 *)
LEMMA Directed == ASSUME IInv, FillsInOnly, computeDirectives PROVE IInv'
<1>1. pass = 6 /\ at <= Len(order)
  BY WhichPass DEF computeDirectives
<1>2. /\ at \in Nat \ {0} /\ ast \in [DOMAIN m_modules -> Seq(Decls)] /\ path \in DOMAIN m_modules
      /\ \A n \in DOMAIN order : DOMAIN ast[order[n]] \subseteq Nat \ {0}
  BY <1>1, Here
<1>3. /\ UNCHANGED <<m_modules, m_errors, packageName, m_symbolTable, globalMessages, order, validated>>
      /\ ast' = [ast EXCEPT ![path] = WithDirectives(ast[path])]
      /\ pass' = pass /\ at' = at + 1 /\ decl' = 1
  BY DEF computeDirectives, tables, NextModule
<1>4. \A q \in DOMAIN m_modules : ast'[q] \in Seq(Decls) /\ SameDecls(ast[q], ast'[q])
  <2> TAKE q \in DOMAIN m_modules
  <2>1. ast[q] \in Seq(Decls)
    BY <1>2
  <2>2. CASE q = path
    BY <1>2, <1>3, <2>1, <2>2 DEF FillsInOnly
  <2>3. CASE q # path
    BY <1>2, <1>3, <2>1, <2>3 DEF SameDecls
  <2> QED BY <2>2, <2>3
<1>5. ast' \in [DOMAIN m_modules -> Seq(Decls)]
  BY <1>2, <1>3, <1>4
<1>6. \A k, n, i : k \in {1, 3} => Behind(k, n, i)
  BY <1>1 DEF Behind
<1>7. pass # 0 /\ pass' \in 1..8 /\ at' \in Nat \ {0} /\ decl' \in Nat \ {0} /\ m_errors \subseteq m_errors'
  BY <1>1, <1>2, <1>3
<1> QED BY <1>3, <1>4, <1>5, <1>6, <1>7, Elsewhere

LEMMA Step == ASSUME IInv, FillsInOnly, Next PROVE IInv'
<1>1. CASE validate
  BY <1>1, Starts
<1>2. CASE PassEnds
  BY <1>2, Frames DEF PassEnds, tables, Passes
<1>3. CASE validateReturns
  BY <1>3, Returns
<1>4. CASE setPackageName
  BY <1>4, Names
<1>5. CASE exportSymbols
  BY <1>5, Symbols
<1>6. CASE DependencyMissing
  BY <1>6, Threw DEF DependencyMissing
<1>7. CASE resolveModuleSymbols
  <2>1. pass = 2
    BY <1>7, WhichPass DEF resolveModuleSymbols
  <2>2. \E es : m_errors' = m_errors \cup es
    BY <1>7 DEF resolveModuleSymbols, Report
  <2>3. NextModule /\ UNCHANGED <<m_modules, ast, packageName, m_symbolTable, globalMessages, order, validated>>
    BY <1>7 DEF resolveModuleSymbols
  <2> QED BY <2>1, <2>2, <2>3, Frames
<1>8. CASE validateGlobalMessageIds
  BY <1>8, Numbers
<1>9. CASE validateFieldNumbers
  <2>1. pass = 4
    BY <1>9, WhichPass DEF validateFieldNumbers
  <2>2. \E es : m_errors' = m_errors \cup es
    BY <1>9 DEF validateFieldNumbers, Report
  <2>3. NextModule /\ UNCHANGED <<m_modules, ast, packageName, m_symbolTable, globalMessages, order, validated>>
    BY <1>9 DEF validateFieldNumbers, tables
  <2> QED BY <2>1, <2>2, <2>3, Frames
<1>10. CASE validateFieldNames
  <2>1. pass = 5
    BY <1>10, WhichPass DEF validateFieldNames
  <2>2. \E es : m_errors' = m_errors \cup es
    BY <1>10 DEF validateFieldNames, Report
  <2>3. NextModule /\ UNCHANGED <<m_modules, ast, packageName, m_symbolTable, globalMessages, order, validated>>
    BY <1>10 DEF validateFieldNames, tables
  <2> QED BY <2>1, <2>2, <2>3, Frames
<1>11. CASE computeDirectives
  BY <1>11, Directed
<1>12. CASE validateAstTypeProperties
  BY <1>12, WhichPass, Frames DEF validateAstTypeProperties, Report, tables
<1>13. CASE LiteralTooLarge
  BY <1>13, Threw DEF LiteralTooLarge
<1> QED
  BY <1>1, <1>2, <1>3, <1>4, <1>5, <1>6, <1>7, <1>8, <1>9, <1>10, <1>11, <1>12, <1>13
     DEF Next, ValidateStep

LEMMA Stutter == ASSUME IInv, UNCHANGED vars PROVE IInv'
<1>1. UNCHANGED <<m_modules, ast, packageName, m_errors, m_symbolTable, globalMessages, order,
                  pass, at, decl, validated>>
  BY DEF vars, tables, cursor
<1>2. Clean' = Clean /\ \A k, n, i : Behind(k, n, i)' <=> Behind(k, n, i)
  BY <1>1 DEF Clean, Behind
<1>3. \A n, i : DeclOf(n, i)' = DeclOf(n, i) /\ SymbolAt(n, i)' = SymbolAt(n, i)
  BY <1>1 DEF DeclOf, SymbolAt
<1>4. Typed'
  BY <1>1 DEF IInv, Typed
<1>5. Exported' /\ SymbolsUnique'
  BY <1>1, <1>2, <1>3 DEF IInv, Exported, SymbolsUnique
<1>6. Seen' /\ NumbersApart'
  BY <1>1, <1>2, <1>3 DEF IInv, Seen, NumbersApart
<1>7. AcceptedIdsUnique'
  BY <1>1 DEF IInv, AcceptedIdsUnique, Apart
<1> QED BY <1>4, <1>5, <1>6, <1>7 DEF IInv

(* What validate accepts has no two declarations with a full name in       *)
(* common and no two messages with a number in common, for any set of      *)
(* modules with any declarations and in whatever order the hash map has    *)
(* them (SemanticContext.h:46-51).                                         *)
THEOREM AcceptedAreUnique ==
  ASSUME FillsInOnly
  PROVE  Spec => []AcceptedIdsUnique
<1>1. IInv /\ [Next]_vars => IInv'
  BY Step, Stutter
<1>2. IInv => AcceptedIdsUnique
  BY DEF IInv
<1> QED
  BY Initially, <1>1, <1>2, PTL DEF Spec

-----------------------------------------------------------------------------
(* The other rules. The file that computeDirectives leaves obeys those of  *)
(* the passes before that the file it found did.                           *)
KeepsRules == \A file \in Seq(Decls) : SameRules(file, WithDirectives(file))

(* Pass k has the n-th module behind it. *)
Over(k, n) == pass > k \/ (pass = k /\ n < at)

(* Every name that is written in p has one candidate, its definition. *)
Resolved(p) ==
  /\ m_modules[p] \subseteq DOMAIN m_modules
  /\ \A name \in UsedIn(ast[p]) :
       /\ resolvedDef[p][name] \in Candidates(p, name)
       /\ \A a, b \in Candidates(p, name) : a = b

(* What a pass that found nothing says of a module. *)
Passed(k, p) ==
  /\ k = 1 => packageName[p] # Unnamed
  /\ k = 2 => Resolved(p) /\ Applied(ast[p])
  /\ k = 4 => ~ NumbersClashIn(ast[p])
  /\ k = 5 => ~ NamesClashIn(ast[p])
  /\ k = 7 => Encoded(ast[p])

Checked == Clean => \A n \in DOMAIN order : \A k \in 1..7 : Over(k, n) => Passed(k, order[n])

OnePackage(file) == Packages(file) # <<>> /\ ~ Len(Packages(file)) > 1
NamedOnce ==
  m_errors = {} => \A p \in DOMAIN m_modules : packageName[p] # Unnamed => OnePackage(ast[p])

(* The symbols are those of declarations. *)
Declared(s) ==
  \E q \in DOMAIN m_modules : \E i \in DOMAIN ast[q] :
    /\ packageName[q] # Unnamed /\ ast[q][i].is \in {"message", "enum"}
    /\ s = Symbol(<<packageName[q], ast[q][i].name>>, q, i)
SymbolsSound == \A id \in DOMAIN m_symbolTable : Declared(m_symbolTable[id])

PackageNamed ==
  \A p \in DOMAIN m_modules : packageName[p] # Unnamed => packageName[p] = PackageOf(p)

RulesInv ==
  /\ resolvedDef = [p \in DOMAIN m_modules |-> resolvedDef[p]]
  /\ PackageNamed /\ SymbolsSound /\ NamedOnce /\ Checked /\ RulesObeyed

LEMMA RInitially == Init => RulesInv
<1> SUFFICES ASSUME Init PROVE RulesInv
  OBVIOUS
<1>1. resolvedDef = [p \in DOMAIN m_modules |-> resolvedDef[p]]
  BY DEF Init, ValidateInit
<1>2. DOMAIN m_symbolTable = {}
  <2>1. m_symbolTable = <<>>
    BY DEF Init, ValidateInit
  <2>2. <<>> \in Seq(Decls) /\ Len(<<>>) = 0
    OBVIOUS
  <2> QED
    BY <2>1, <2>2
<1>3. ~ Clean /\ validated # "ok"
  BY DEF Init, ValidateInit, Clean
<1>4. NamedOnce /\ PackageNamed
  BY DEF Init, ValidateInit, NamedOnce, PackageNamed
<1> QED
  BY <1>1, <1>2, <1>3, <1>4 DEF RulesInv, SymbolsSound, Checked, RulesObeyed

(* The modules that a pass has behind it: at most one more after a step.   *)
LEMMA OneMore ==
  ASSUME IInv, pass \in 1..7, UNCHANGED order,
         \/ NextModule
         \/ pass' = pass /\ at' = at
         \/ at > Len(order) /\ pass' = pass + 1 /\ at' = 1
  PROVE  \A n \in DOMAIN order : \A k \in 1..7 :
           Over(k, n)' => Over(k, n) \/ (NextModule /\ k = pass /\ n = at)
<1> TAKE n \in DOMAIN order
<1> TAKE k \in 1..7
<1>1. n \in 1..Len(order) /\ Len(order) \in Nat /\ at \in Nat
  BY DEF IInv, Typed
<1>2. CASE NextModule
  BY <1>1, <1>2 DEF Over, NextModule
<1>3. CASE pass' = pass /\ at' = at
  BY <1>1, <1>3 DEF Over
<1>4. CASE at > Len(order) /\ pass' = pass + 1 /\ at' = 1
  BY <1>1, <1>4 DEF Over
<1> QED
  BY <1>2, <1>3, <1>4

(* What is said of a module stays true of it. *)
LEMMA PassedStays ==
  ASSUME UNCHANGED <<m_modules, packageName, m_symbolTable>>,
         NEW p, resolvedDef'[p] = resolvedDef[p],
         ast'[p] = ast[p] \/ (pass = 6 /\ SameRules(ast[p], ast'[p])),
         NEW k \in 1..7, Passed(k, p), k = 7 => pass # 6
  PROVE  Passed(k, p)'
<1>1. /\ Applied(ast[p]) <=> Applied(ast'[p])
      /\ NumbersClashIn(ast[p]) <=> NumbersClashIn(ast'[p])
      /\ NamesClashIn(ast[p]) <=> NamesClashIn(ast'[p])
      /\ UsedIn(ast[p]) = UsedIn(ast'[p])
  BY DEF SameRules
<1>2. k = 7 => ast'[p] = ast[p]
  OBVIOUS
<1>3. \A name : Candidates(p, name)' = Candidates(p, name)
  BY DEF Candidates, Exports, Answers
<1>4. k = 2 => Resolved(p)'
  BY <1>1, <1>3 DEF Passed, Resolved
<1> QED
  BY <1>1, <1>2, <1>4 DEF Passed

(* A step of a pass that touches neither packages nor symbols: it has to   *)
(* say of the module that it ends what its pass says of one.               *)
LEMMA Keeps ==
  ASSUME IInv, RulesInv, pass \in 1..7,
         UNCHANGED <<m_modules, packageName, m_symbolTable, order, validated>>,
         m_errors \subseteq m_errors',
         \/ NextModule /\ at <= Len(order)
         \/ pass' = pass /\ at' = at
         \/ at > Len(order) /\ pass' = pass + 1 /\ at' = 1,
         resolvedDef' = [p \in DOMAIN m_modules |-> resolvedDef'[p]],
         ast' \in [DOMAIN m_modules -> Seq(Decls)],
         \A p \in DOMAIN m_modules :
           /\ resolvedDef'[p] = resolvedDef[p] \/ (NextModule /\ pass = 2 /\ p = path)
           /\ \/ ast'[p] = ast[p]
              \/ pass = 6 /\ SameDecls(ast[p], ast'[p]) /\ SameRules(ast[p], ast'[p]),
         NEW here, here = path, NEW now, now = pass,
         Clean' /\ NextModule => Passed(now, here)'
  PROVE  RulesInv'
<1>1. validated' # "ok" /\ (Clean' => Clean) /\ (m_errors' = {} => m_errors = {})
  BY DEF IInv, Typed, Clean
<1>2. ASSUME NEW p \in DOMAIN m_modules
      PROVE  /\ Packages(ast'[p]) = Packages(ast[p])
             /\ DOMAIN ast'[p] = DOMAIN ast[p]
             /\ \A i \in DOMAIN ast[p] : ast[p][i].is \in {"message", "enum"} =>
                  ast'[p][i].is = ast[p][i].is /\ ast'[p][i].name = ast[p][i].name
  <2>1. ast[p] \in Seq(Decls) /\ ast'[p] \in Seq(Decls)
    BY DEF IInv, Typed
  <2>2. CASE ast'[p] = ast[p]
    BY <2>2
  <2>3. CASE SameDecls(ast[p], ast'[p]) /\ SameRules(ast[p], ast'[p])
    BY <2>1, <2>3 DEF SameDecls, SameRules
  <2> QED BY <2>2, <2>3
<1>3. SymbolsSound'
  <2> SUFFICES ASSUME NEW id \in DOMAIN m_symbolTable PROVE Declared(m_symbolTable[id])'
    BY DEF SymbolsSound
  <2>1. PICK q \in DOMAIN m_modules : \E i \in DOMAIN ast[q] :
          /\ packageName[q] # Unnamed /\ ast[q][i].is \in {"message", "enum"}
          /\ m_symbolTable[id] = Symbol(<<packageName[q], ast[q][i].name>>, q, i)
    BY DEF RulesInv, SymbolsSound, Declared
  <2>2. PICK i \in DOMAIN ast[q] :
          /\ packageName[q] # Unnamed /\ ast[q][i].is \in {"message", "enum"}
          /\ m_symbolTable[id] = Symbol(<<packageName[q], ast[q][i].name>>, q, i)
    BY <2>1
  <2>3. i \in DOMAIN ast'[q] /\ ast'[q][i].is = ast[q][i].is /\ ast'[q][i].name = ast[q][i].name
    BY <1>2, <2>2
  <2> QED BY <2>2, <2>3 DEF Declared
<1>4. NamedOnce'
  BY <1>1, <1>2 DEF RulesInv, NamedOnce, OnePackage
<1>5. Checked'
  <2> SUFFICES ASSUME Clean', NEW n \in DOMAIN order, NEW k \in 1..7, Over(k, n)'
               PROVE  Passed(k, order[n])'
    BY DEF Checked
  <2>1. order[n] \in DOMAIN m_modules /\ n \in Nat
    BY DEF IInv, Typed
  <2>2. CASE NextModule /\ k = pass /\ order[n] = path
    BY <2>2
  <2>3. CASE Over(k, n) /\ ~ (NextModule /\ k = pass /\ order[n] = path)
    <3>1. Passed(k, order[n])
      BY <1>1, <2>3 DEF RulesInv, Checked
    <3>2. CASE resolvedDef'[order[n]] = resolvedDef[order[n]]
      <4>1. k = 7 => pass # 6
        BY <2>3, <2>1 DEF Over
      <4>2. ast'[order[n]] = ast[order[n]] \/ (pass = 6 /\ SameRules(ast[order[n]], ast'[order[n]]))
        BY <2>1
      <4> QED BY <2>1, <3>1, <3>2, <4>1, <4>2, PassedStays
    <3>3. CASE NextModule /\ pass = 2 /\ order[n] = path
      <4>1. k = 1
        BY <2>1, <2>3, <3>3 DEF Over
      <4> QED BY <3>1, <4>1 DEF Passed
    <3> QED BY <2>1, <3>2, <3>3
  <2>4. Over(k, n) \/ (NextModule /\ k = pass /\ n = at)
    BY OneMore
  <2> QED BY <2>2, <2>3, <2>4 DEF path
<1>6. RulesObeyed'
  BY <1>1 DEF RulesObeyed
<1>7. PackageNamed'
  BY <1>2 DEF RulesInv, PackageNamed, PackageOf
<1> QED
  BY <1>3, <1>4, <1>5, <1>6, <1>7 DEF RulesInv

LEMMA OneCandidate ==
  ASSUME NEW p, NEW name, IsASeq(m_symbolTable), ~ Cardinality(Candidates(p, name)) > 1,
         NEW a \in Candidates(p, name), NEW b \in Candidates(p, name)
  PROVE  a = b
<1>1. IsFiniteSet(DOMAIN m_symbolTable)
  <2>1. PICK T : m_symbolTable \in Seq(T)
    BY DEF IsASeq
  <2>2. DOMAIN m_symbolTable = 1..Len(m_symbolTable) /\ Len(m_symbolTable) \in Int
    BY <2>1
  <2> QED BY <2>2, FS_Interval
<1>2. Candidates(p, name) \in SUBSET DOMAIN m_symbolTable
  BY DEF Candidates, Exports
<1>3. IsFiniteSet(Candidates(p, name)) /\ Cardinality(Candidates(p, name)) \in Nat
  BY <1>1, <1>2, FS_Subset, FS_CardinalityType
<1>4. ASSUME a # b PROVE Cardinality({a, b}) = 2
  <2>1. IsFiniteSet({a}) /\ Cardinality({a}) = 1
    BY FS_Singleton
  <2>2. {a, b} = {a} \cup {b} /\ b \notin {a}
    BY <1>4
  <2> QED BY <2>1, <2>2, FS_AddElement
<1>5. Cardinality({a, b}) <= Cardinality(Candidates(p, name))
  BY <1>3, FS_Subset
<1> QED BY <1>3, <1>4, <1>5

(* resolveModuleSymbols that found nothing has one candidate for a name. *)
LEMMA Resolves == ASSUME IInv, RulesInv, resolveModuleSymbols PROVE RulesInv'
<1>1. pass = 2 /\ at <= Len(order)
  BY WhichPass DEF resolveModuleSymbols
<1>2. path \in DOMAIN m_modules /\ IsASeq(m_symbolTable) /\ ast \in [DOMAIN m_modules -> Seq(Decls)]
  BY <1>1, Here
<1>3. NextModule /\ UNCHANGED <<m_modules, ast, packageName, m_symbolTable, order, validated>>
  BY DEF resolveModuleSymbols
<1> DEFINE used  == UsedIn(ast[path])
           found == {n \in used : Candidates(path, n) # {}}
<1>4. PICK def \in [found -> DOMAIN m_symbolTable] :
        /\ \A n \in found : def[n] \in FirstOf(path, n)
        /\ resolvedDef' = [resolvedDef EXCEPT ![path] = def]
  BY DEF resolveModuleSymbols
<1>5. m_errors' = m_errors \cup (When(~ Applied(ast[path]), "INVALID_TYPE_ARGS")
                     \cup When(found # used, "SYMBOL_NOT_DEFINED")
                     \cup When(\E n \in found : Cardinality(Candidates(path, n)) > 1,
                               "SYMBOL_AMBIGUOUS"))
  BY DEF resolveModuleSymbols, Report
<1>6. ASSUME Clean'
      PROVE  /\ Applied(ast[path]) /\ found = used
             /\ \A n \in found : ~ Cardinality(Candidates(path, n)) > 1
  <2>1. m_errors' = {}
    BY <1>6 DEF Clean
  <2> QED BY <1>5, <2>1 DEF When
<1>7. /\ resolvedDef = [p \in DOMAIN m_modules |-> resolvedDef[p]]
      /\ resolvedDef'[path] = def
      /\ resolvedDef' = [p \in DOMAIN m_modules |-> resolvedDef'[p]]
      /\ \A p \in DOMAIN m_modules : p # path => resolvedDef'[p] = resolvedDef[p]
  BY <1>2, <1>4 DEF RulesInv
<1>8. PICK here, now : here = path /\ now = pass
  OBVIOUS
<1>9. Clean' => Passed(now, here)'
  <2> SUFFICES ASSUME Clean' PROVE Passed(2, here)'
    BY <1>1, <1>8
  <2>1. \A name : Candidates(here, name)' = Candidates(here, name)
    <3>1. m_modules' = m_modules /\ m_symbolTable' = m_symbolTable
      BY <1>3
    <3>3. Exports(here)' = Exports(here) /\ \A d : Exports(d)' = Exports(d)
      BY <3>1 DEF Exports
    <3> QED BY <3>1, <3>3 DEF Candidates, Answers
  <2>2. ASSUME NEW name \in UsedIn(ast[path])
        PROVE  /\ resolvedDef'[path][name] \in Candidates(path, name)
               /\ \A a, b \in Candidates(path, name) : a = b
    <3>1. name \in found /\ ~ Cardinality(Candidates(path, name)) > 1
      BY <1>6, <2>2
    <3>2. def[name] \in Candidates(path, name)
      BY <1>4, <3>1 DEF FirstOf
    <3> QED BY <1>2, <1>7, <3>1, <3>2, OneCandidate
  <2>3. m_modules[path] \subseteq DOMAIN m_modules
    BY DEF resolveModuleSymbols
  <2>4. Resolved(here)'
    BY <1>3, <1>8, <2>1, <2>2, <2>3 DEF Resolved
  <2>5. Applied(ast[here])'
    BY <1>3, <1>6, <1>8
  <2> QED BY <2>4, <2>5 DEF Passed
<1>10. m_errors \subseteq m_errors'
  BY <1>5
<1> QED
  BY <1>1, <1>2, <1>3, <1>7, <1>8, <1>9, <1>10, Keeps

(* A module or a pass ends of which nothing is said, or a declaration. *)
LEMMA Moves ==
  ASSUME IInv, RulesInv, pass \in 1..7,
         UNCHANGED <<m_modules, ast, packageName, m_symbolTable, resolvedDef, order, validated>>,
         m_errors \subseteq m_errors',
         \/ NextModule /\ at <= Len(order)
         \/ pass' = pass /\ at' = at
         \/ at > Len(order) /\ pass' = pass + 1 /\ at' = 1,
         NEW here, here = path, NEW now, now = pass,
         Clean' /\ NextModule => Passed(now, here)'
  PROVE  RulesInv'
<1>1. ast' \in [DOMAIN m_modules -> Seq(Decls)]
  BY DEF IInv, Typed
<1>2. resolvedDef' = [p \in DOMAIN m_modules |-> resolvedDef'[p]]
  BY DEF RulesInv
<1> QED
  BY <1>1, <1>2, Keeps

LEMMA PassOver == ASSUME IInv, RulesInv, PassEnds PROVE RulesInv'
<1>1. PICK here, now : here = path /\ now = pass
  OBVIOUS
<1>2. pass \in 1..7 /\ at > Len(order) /\ pass' = pass + 1 /\ at' = 1
  BY DEF PassEnds, Passes
<1>3. ~ NextModule
  BY <1>2 DEF NextModule
<1>4. UNCHANGED <<m_modules, ast, m_errors, packageName, m_symbolTable, resolvedDef, order, validated>>
  BY DEF PassEnds, tables
<1> QED
  BY <1>1, <1>2, <1>3, <1>4, Moves

LEMMA FieldsChecked ==
  ASSUME IInv, RulesInv, validateFieldNumbers \/ validateFieldNames PROVE RulesInv'
<1>1. PICK here, now : here = path /\ now = pass
  OBVIOUS
<1>2. /\ NextModule /\ at <= Len(order) /\ pass \in {4, 5}
      /\ UNCHANGED <<m_modules, ast, packageName, m_symbolTable, resolvedDef, order, validated>>
  BY WhichPass DEF validateFieldNumbers, validateFieldNames, tables
<1>3. m_errors \subseteq m_errors'
  BY DEF validateFieldNumbers, validateFieldNames, Report
<1>4. Clean' => Passed(now, here)'
  <2>1. CASE validateFieldNumbers
    <3>1. pass = 4
      BY <2>1, WhichPass DEF validateFieldNumbers
    <3>2. Clean' => ~ NumbersClashIn(ast[path])
      BY <2>1 DEF validateFieldNumbers, Report, When, Clean
    <3> QED BY <1>1, <1>2, <3>1, <3>2 DEF Passed
  <2>2. CASE validateFieldNames
    <3>1. pass = 5
      BY <2>2, WhichPass DEF validateFieldNames
    <3>2. Clean' => ~ NamesClashIn(ast[path])
      BY <2>2 DEF validateFieldNames, Report, When, Clean
    <3> QED BY <1>1, <1>2, <3>1, <3>2 DEF Passed
  <2> QED BY <2>1, <2>2
<1> QED
  BY <1>1, <1>2, <1>3, <1>4, Moves

LEMMA PropertiesChecked == ASSUME IInv, RulesInv, validateAstTypeProperties PROVE RulesInv'
<1>1. PICK here, now : here = path /\ now = pass
  OBVIOUS
<1>2. /\ NextModule /\ at <= Len(order) /\ pass = 7
      /\ UNCHANGED <<m_modules, ast, packageName, m_symbolTable, resolvedDef, order, validated>>
  BY WhichPass DEF validateAstTypeProperties, tables
<1>3. m_errors' = m_errors \cup UNION {Properties(t).errors : t \in TypesOfFile(ast[path])}
  BY DEF validateAstTypeProperties, Report
<1>4. Clean' => Encoded(ast[path])
  BY <1>3 DEF Clean, Encoded, validateAstTypeProperties
<1>5. Clean' => Passed(now, here)'
  BY <1>1, <1>2, <1>4 DEF Passed, Encoded
<1> QED
  BY <1>1, <1>2, <1>3, <1>5, Moves

LEMMA NumbersRead == ASSUME IInv, RulesInv, validateGlobalMessageIds PROVE RulesInv'
<1>1. PICK here, now : here = path /\ now = pass
  OBVIOUS
<1>2. /\ at <= Len(order) /\ pass = 3
      /\ UNCHANGED <<m_modules, ast, packageName, m_symbolTable, resolvedDef, order, validated>>
  BY WhichPass DEF validateGlobalMessageIds
<1>3. m_errors \subseteq m_errors' /\ (NextModule \/ NextDecl)
  BY DEF validateGlobalMessageIds, Report
<1>4. Passed(now, here)'
  BY <1>1, <1>2 DEF Passed
<1> QED
  BY <1>1, <1>2, <1>3, <1>4, Moves DEF NextDecl

LEMMA DirectivesKeep ==
  ASSUME FillsInOnly, KeepsRules, IInv, RulesInv, computeDirectives PROVE RulesInv'
<1>1. PICK here, now : here = path /\ now = pass
  OBVIOUS
<1>2. at <= Len(order) /\ pass = 6
  BY WhichPass DEF computeDirectives
<1>3. ast \in [DOMAIN m_modules -> Seq(Decls)] /\ path \in DOMAIN m_modules
  BY <1>2, Here
<1>4. /\ NextModule /\ ast' = [ast EXCEPT ![path] = WithDirectives(ast[path])]
      /\ UNCHANGED <<m_modules, m_errors, packageName, m_symbolTable, resolvedDef, order, validated>>
  BY DEF computeDirectives, tables
<1>5. /\ WithDirectives(ast[path]) \in Seq(Decls)
      /\ SameDecls(ast[path], WithDirectives(ast[path]))
      /\ SameRules(ast[path], WithDirectives(ast[path]))
  BY <1>3 DEF FillsInOnly, KeepsRules
<1>6. \A p \in DOMAIN m_modules :
        \/ ast'[p] = ast[p]
        \/ SameDecls(ast[p], ast'[p]) /\ SameRules(ast[p], ast'[p])
  BY <1>3, <1>4, <1>5
<1>7. ast' \in [DOMAIN m_modules -> Seq(Decls)]
  BY <1>3, <1>4, <1>5
<1>8. resolvedDef' = [p \in DOMAIN m_modules |-> resolvedDef'[p]]
  BY <1>4 DEF RulesInv
<1>9. Passed(now, here)'
  BY <1>1, <1>2 DEF Passed
<1> QED
  BY <1>1, <1>2, <1>4, <1>6, <1>7, <1>8, <1>9, Keeps

(* A package gets its name, which no symbol has yet. *)
LEMMA Packaged == ASSUME IInv, RulesInv, setPackageName PROVE RulesInv'
<1>1. pass = 1 /\ at <= Len(order) /\ packageName[path] = Unnamed
  BY WhichPass DEF setPackageName
<1>2. /\ path \in DOMAIN m_modules /\ order \in Seq(DOMAIN m_modules) /\ at \in Nat
      /\ validated = "none"
  BY <1>1, Here
<1>3. UNCHANGED <<m_modules, ast, m_symbolTable, resolvedDef, globalMessages, order, validated>>
  BY DEF setPackageName
<1>4. RulesObeyed'
  BY <1>2, <1>3 DEF RulesObeyed
<1>5. resolvedDef' = [p \in DOMAIN m_modules' |-> resolvedDef'[p]]
  BY <1>3 DEF RulesInv
<1>6. CASE Packages(ast[path]) = <<>>
  <2>1. "MISSING_PACKAGE_DECLARATION" \in m_errors' /\ UNCHANGED packageName
    BY <1>6 DEF setPackageName, Report, When
  <2>2. ~ Clean' /\ m_errors' # {}
    BY <2>1 DEF Clean
  <2>3. SymbolsSound'
    BY <1>3, <2>1 DEF RulesInv, SymbolsSound, Declared
  <2>4. PackageNamed'
    BY <1>3, <2>1 DEF RulesInv, PackageNamed, PackageOf
  <2> QED BY <1>4, <1>5, <2>2, <2>3, <2>4 DEF RulesInv, Checked, NamedOnce
<1>7. CASE Packages(ast[path]) # <<>>
  <2>1. /\ UNCHANGED cursor /\ m_errors \subseteq m_errors'
        /\ packageName' = [packageName EXCEPT ![path] = Packages(ast[path])[1].name]
        /\ m_errors' = {} => ~ Len(Packages(ast[path])) > 1
    BY <1>7 DEF setPackageName, Report, When
  <2>2. \A p \in DOMAIN m_modules : p # path => packageName'[p] = packageName[p]
    BY <2>1 DEF IInv, Typed
  <2>3. SymbolsSound'
    <3> SUFFICES ASSUME NEW id \in DOMAIN m_symbolTable PROVE Declared(m_symbolTable[id])'
      BY <1>3 DEF SymbolsSound
    <3>1. PICK q \in DOMAIN m_modules : \E i \in DOMAIN ast[q] :
            /\ packageName[q] # Unnamed /\ ast[q][i].is \in {"message", "enum"}
            /\ m_symbolTable[id] = Symbol(<<packageName[q], ast[q][i].name>>, q, i)
      BY DEF RulesInv, SymbolsSound, Declared
    <3>2. packageName'[q] = packageName[q]
      BY <1>1, <2>2, <3>1
    <3> QED BY <1>3, <3>1, <3>2 DEF Declared
  <2>4. NamedOnce'
    <3> SUFFICES ASSUME m_errors' = {}, NEW p \in DOMAIN m_modules, packageName'[p] # Unnamed
                 PROVE  OnePackage(ast[p])
      BY <1>3 DEF NamedOnce
    <3>1. CASE p = path
      BY <1>7, <2>1, <3>1 DEF OnePackage
    <3>2. CASE p # path
      <4>1. m_errors = {} /\ packageName[p] # Unnamed
        BY <2>1, <2>2, <3>2
      <4> QED BY <4>1 DEF RulesInv, NamedOnce
    <3> QED BY <3>1, <3>2
  <2>5. Checked'
    <3> SUFFICES ASSUME Clean', NEW n \in DOMAIN order, NEW k \in 1..7, Over(k, n)'
                 PROVE  Passed(k, order[n])'
      BY <1>3 DEF Checked
    <3>1. Clean /\ Over(k, n)
      BY <1>3, <2>1 DEF Clean, Over, cursor
    <3>2. k = 1
      BY <1>1, <3>1 DEF Over
    <3>3. packageName[order[n]] # Unnamed
      BY <3>1, <3>2 DEF RulesInv, Checked, Passed
    <3>4. order[n] \in DOMAIN m_modules /\ order[n] # path
      BY <1>1, <1>2, <3>3
    <3>5. packageName'[order[n]] # Unnamed
      BY <2>2, <3>3, <3>4
    <3> QED BY <1>3, <3>2, <3>5 DEF Passed
  <2>6. PackageNamed'
    <3> SUFFICES ASSUME NEW p \in DOMAIN m_modules, packageName'[p] # Unnamed
                 PROVE  packageName'[p] = PackageOf(p)
      BY <1>3 DEF PackageNamed, PackageOf
    <3>1. CASE p = path
      BY <2>1, <3>1 DEF PackageOf, IInv, Typed
    <3>2. CASE p # path
      BY <2>2, <3>2 DEF RulesInv, PackageNamed
    <3> QED BY <3>1, <3>2
  <2> QED BY <1>4, <1>5, <2>3, <2>4, <2>5, <2>6 DEF RulesInv
<1> QED BY <1>6, <1>7

(* A symbol is that of the declaration that exportSymbols is at. *)
LEMMA SymbolsExported == ASSUME IInv, RulesInv, exportSymbols PROVE RulesInv'
<1> DEFINE d   == ast[path][decl]
           fqn == <<packageName[path], d.name>>
<1>1. PICK here, now : here = path /\ now = pass
  OBVIOUS
<1>2. pass = 1 /\ at <= Len(order) /\ packageName[path] # Unnamed
  BY WhichPass DEF exportSymbols
<1>3. /\ path \in DOMAIN m_modules /\ IsASeq(m_symbolTable) /\ validated = "none"
      /\ decl \in Nat \ {0} /\ ast[path] \in Seq(Decls)
  BY <1>2, Here
<1>4. UNCHANGED <<m_modules, ast, packageName, resolvedDef, order, validated>>
  BY DEF exportSymbols
<1>5. m_errors \subseteq m_errors' /\ (NextModule \/ NextDecl)
  BY DEF exportSymbols, Report
<1>6. Passed(now, here)'
  BY <1>1, <1>2, <1>4 DEF Passed
<1>7. CASE m_symbolTable' = m_symbolTable
  BY <1>1, <1>2, <1>4, <1>5, <1>6, <1>7, Moves DEF NextDecl
<1>8. CASE m_symbolTable' # m_symbolTable
  <2>1. /\ ~ decl > Len(ast[path]) /\ NextDecl
        /\ d.is \in {"message", "enum"}
        /\ m_symbolTable' = Append(m_symbolTable, Symbol(fqn, path, decl))
        /\ m_errors' = m_errors
    BY <1>8 DEF exportSymbols
  <2>2. decl \in DOMAIN ast[path]
    BY <1>3, <2>1
  <2>3. SymbolsSound'
    <3>1. \A s : Declared(s) => Declared(s)'
      BY <1>4 DEF Declared
    <3>2. /\ Len(m_symbolTable) \in Nat /\ DOMAIN m_symbolTable = 1..Len(m_symbolTable)
          /\ DOMAIN m_symbolTable' = 1..(Len(m_symbolTable) + 1)
          /\ \A i \in 1..Len(m_symbolTable) : m_symbolTable'[i] = m_symbolTable[i]
          /\ m_symbolTable'[Len(m_symbolTable) + 1] = Symbol(fqn, path, decl)
      BY <1>3, <2>1, AppendToSeq
    <3>3. Declared(Symbol(fqn, path, decl))
      BY <1>2, <1>3, <2>1, <2>2 DEF Declared
    <3>4. \A id \in DOMAIN m_symbolTable' : \E s : s = m_symbolTable'[id] /\ Declared(s)
      <4> TAKE id \in DOMAIN m_symbolTable'
      <4>1. CASE id \in DOMAIN m_symbolTable
        BY <3>2, <4>1 DEF RulesInv, SymbolsSound
      <4>2. CASE id = Len(m_symbolTable) + 1
        BY <3>2, <3>3, <4>2
      <4> QED BY <3>2, <4>1, <4>2
    <3> QED BY <3>1, <3>4 DEF SymbolsSound
  <2>4. NamedOnce'
    BY <1>4, <2>1 DEF RulesInv, NamedOnce
  <2>5. Checked'
    <3> SUFFICES ASSUME Clean', NEW n \in DOMAIN order, NEW k \in 1..7, Over(k, n)'
                 PROVE  Passed(k, order[n])'
      BY <1>4 DEF Checked
    <3>1. Clean /\ Over(k, n)
      BY <1>2, <1>4, <2>1 DEF Clean, Over, NextDecl
    <3>2. k = 1
      BY <1>2, <3>1 DEF Over
    <3>3. packageName[order[n]] # Unnamed
      BY <3>1, <3>2 DEF RulesInv, Checked, Passed
    <3> QED BY <1>4, <3>2, <3>3 DEF Passed
  <2>6. RulesObeyed'
    BY <1>3, <1>4 DEF RulesObeyed
  <2>7. resolvedDef' = [p \in DOMAIN m_modules' |-> resolvedDef'[p]]
    BY <1>4 DEF RulesInv
  <2>8. PackageNamed'
    BY <1>4 DEF RulesInv, PackageNamed, PackageOf
  <2> QED BY <2>3, <2>4, <2>5, <2>6, <2>7, <2>8 DEF RulesInv
<1> QED BY <1>7, <1>8

(* validate begins, and nothing is behind it; or it has thrown. *)
LEMMA BeginsOrThrows ==
  ASSUME IInv, RulesInv,
         UNCHANGED <<m_modules, ast, m_errors, tables>>,
         \/ validated' # "ok" /\ pass' = 0
         \/ UNCHANGED validated /\ validated = "none" /\ pass' = 1 /\ at' = 1 /\ DOMAIN order' \subseteq Nat \ {0}
  PROVE  RulesInv'
<1>1. UNCHANGED <<packageName, m_symbolTable, resolvedDef>>
  BY DEF tables
<1>2. SymbolsSound'
  BY <1>1 DEF RulesInv, SymbolsSound, Declared
<1>3. NamedOnce' /\ PackageNamed'
  BY <1>1 DEF RulesInv, NamedOnce, PackageNamed, PackageOf
<1>4. Checked'
  <2>1. Clean' => \A n \in DOMAIN order' : \A k \in 1..7 : ~ Over(k, n)'
    BY DEF Clean, Over
  <2> QED BY <2>1 DEF Checked
<1>5. RulesObeyed'
  BY DEF RulesObeyed
<1>6. resolvedDef' = [p \in DOMAIN m_modules' |-> resolvedDef'[p]]
  BY <1>1 DEF RulesInv
<1> QED BY <1>2, <1>3, <1>4, <1>5, <1>6 DEF RulesInv

(* The last pass is over, without an error: all that the passes say holds  *)
(* of every module, and the candidate for a name is its one declaration.   *)
LEMMA RulesFollow ==
  ASSUME IInv, RulesInv, pass = 8, m_errors = {}, NEW p \in DOMAIN ast
  PROVE  /\ OnePackage(ast[p]) /\ Applied(ast[p]) /\ Encoded(ast[p]) /\ Resolved(p)
         /\ ~ NumbersClashIn(ast[p]) /\ ~ NamesClashIn(ast[p])
         /\ packageName[p] = PackageOf(p)
<1>1. Clean /\ p \in DOMAIN m_modules
  BY DEF Clean, IInv, Typed
<1>2. PICK n \in DOMAIN order : order[n] = p
  BY <1>1 DEF IInv, Typed
<1>3. \A k \in 1..7 : Passed(k, p)
  BY <1>1, <1>2 DEF RulesInv, Checked, Over
<1>4. Passed(1, p) /\ Passed(2, p) /\ Passed(4, p) /\ Passed(5, p) /\ Passed(7, p)
  BY <1>3
<1>5. packageName[p] # Unnamed
  BY <1>4 DEF Passed
<1> QED
  BY <1>1, <1>4, <1>5 DEF Passed, RulesInv, NamedOnce, PackageNamed

LEMMA OneMeaning ==
  ASSUME IInv, RulesInv, pass = 8, m_errors = {}, NEW p \in DOMAIN ast, NEW name \in UsedIn(ast[p])
  PROVE  LET id == resolvedDef[p][name]
         IN  /\ StandsForOne(p, name) /\ id \in DOMAIN m_symbolTable
             /\ StandsFor(p, name, m_symbolTable[id].module, m_symbolTable[id].decl)
<1> DEFINE a == resolvedDef[p][name]
<1>1. /\ a \in Candidates(p, name)
      /\ \A b, c \in Candidates(p, name) : b = c
  BY RulesFollow DEF Resolved
<1>2. DOMAIN ast = DOMAIN m_modules
  BY DEF IInv, Typed
<1>3. a \in DOMAIN m_symbolTable /\ m_symbolTable[a].module \in {p} \cup m_modules[p] /\ Answers(a, name)
  BY <1>1 DEF Candidates, Exports
<1>4. PICK q \in DOMAIN m_modules : \E i \in DOMAIN ast[q] :
        /\ packageName[q] # Unnamed /\ ast[q][i].is \in {"message", "enum"}
        /\ m_symbolTable[a] = Symbol(<<packageName[q], ast[q][i].name>>, q, i)
  BY <1>3 DEF RulesInv, SymbolsSound, Declared
<1>5. PICK i \in DOMAIN ast[q] :
        /\ ast[q][i].is \in {"message", "enum"}
        /\ m_symbolTable[a] = Symbol(<<packageName[q], ast[q][i].name>>, q, i)
  BY <1>4
<1>6. /\ m_symbolTable[a].fqn = <<packageName[q], ast[q][i].name>>
      /\ m_symbolTable[a].module = q /\ m_symbolTable[a].decl = i
      /\ m_symbolTable[a].fqn[2] = ast[q][i].name
  BY <1>5 DEF Symbol
<1>7. packageName[q] = PackageOf(q)
  BY <1>2, RulesFollow
<1>8. StandsFor(p, name, q, i)
  BY <1>2, <1>3, <1>5, <1>6, <1>7 DEF StandsFor, Answers
<1>9. ASSUME NEW r \in DOMAIN ast, NEW j \in DOMAIN ast[r], StandsFor(p, name, r, j)
      PROVE  r = q /\ j = i
  <2>1. PICK n \in DOMAIN order : order[n] = r
    BY <1>2 DEF IInv, Typed
  <2>2. Clean /\ Behind(1, n, j) /\ DeclOf(n, j) = ast[r][j]
    BY <2>1 DEF Clean, Behind, DeclOf
  <2>3. PICK b \in DOMAIN m_symbolTable : m_symbolTable[b] = SymbolAt(n, j)
    BY <1>9, <2>1, <2>2 DEF IInv, Exported, StandsFor
  <2>4. /\ m_symbolTable[b].fqn = <<packageName[r], ast[r][j].name>>
        /\ m_symbolTable[b].module = r /\ m_symbolTable[b].decl = j
        /\ m_symbolTable[b].fqn[2] = ast[r][j].name
    BY <2>1, <2>2, <2>3 DEF SymbolAt, Symbol
  <2>5. b \in Candidates(p, name)
    <3>1. b \in Exports(p) \cup UNION {Exports(e) : e \in m_modules[p]}
      <4>1. r \in {p} \cup m_modules[p]
        BY <1>9 DEF StandsFor
      <4>2. b \in Exports(r)
        BY <2>3, <2>4 DEF Exports
      <4> QED BY <4>1, <4>2
    <3>2. Answers(b, name)
      <4>1. packageName[r] = PackageOf(r)
        BY RulesFollow
      <4> QED BY <1>9, <2>4, <4>1 DEF Answers, StandsFor
    <3> QED BY <3>1, <3>2 DEF Candidates
  <2> QED BY <1>1, <1>6, <2>4, <2>5
<1>10. StandsForOne(p, name)
  BY <1>2, <1>8, <1>9 DEF StandsForOne
<1> QED BY <1>3, <1>6, <1>8, <1>10

(* The rules are about the files alone. *)
LEMMA RulesOnly ==
  ASSUME m_modules' = m_modules, ast' = ast PROVE ObeysRules' <=> ObeysRules
<1>1. \A p : PackageOf(p)' = PackageOf(p) /\ (FileRules(p)' <=> FileRules(p))
  BY DEF PackageOf, FileRules
<1>2. \A p, name, q, i : StandsFor(p, name, q, i)' <=> StandsFor(p, name, q, i)
  BY DEF StandsFor, PackageOf
<1>3. \A p, name : StandsForOne(p, name)' <=> StandsForOne(p, name)
  BY <1>2 DEF StandsForOne
<1> QED
  BY <1>1, <1>3 DEF ObeysRules, NamingRules

LEMMA RulesReturned == ASSUME IInv, RulesInv, validateReturns PROVE RulesInv'
<1>1. /\ pass = 8 /\ pass' = 0 /\ UNCHANGED <<m_modules, ast, m_errors, tables>>
      /\ validated' = "ok" => m_errors = {}
  BY DEF validateReturns, Passes
<1>2. UNCHANGED <<packageName, m_symbolTable, resolvedDef>>
  BY <1>1 DEF tables
<1>3. m_modules' = m_modules /\ ast' = ast
  BY <1>1
<1>4. /\ SymbolsSound' /\ NamedOnce' /\ PackageNamed' /\ Checked'
      /\ resolvedDef' = [p \in DOMAIN m_modules' |-> resolvedDef'[p]]
  BY <1>1, <1>2 DEF RulesInv, SymbolsSound, Declared, NamedOnce, PackageNamed, PackageOf, Checked, Clean
<1>5. ASSUME validated' = "ok" PROVE ObeysRules
  <2>1. m_errors = {}
    BY <1>1, <1>5
  <2>2. ASSUME NEW p \in DOMAIN ast PROVE FileRules(p) /\ Encoded(ast[p]) /\ packageName[p] = PackageOf(p)
    BY <1>1, <2>1, RulesFollow DEF FileRules, Resolved, OnePackage, IInv, Typed
  <2>3. ASSUME NEW p \in DOMAIN ast, NEW name \in UsedIn(ast[p]) PROVE StandsForOne(p, name)
    BY <1>1, <2>1, OneMeaning
  <2>4. ASSUME NEW p \in DOMAIN ast, NEW q \in DOMAIN ast,
               NEW i \in DOMAIN ast[p], NEW j \in DOMAIN ast[q], <<p, i>> # <<q, j>>
        PROVE  Apart(PackageOf(p), ast[p][i], PackageOf(q), ast[q][j])
    <3>1. AcceptedIdsUnique'
      BY Returns DEF IInv
    <3>2. Apart(packageName[p], ast[p][i], packageName[q], ast[q][j])
      BY <1>2, <1>3, <1>5, <2>4, <3>1 DEF AcceptedIdsUnique
    <3> QED BY <2>2, <3>2
  <2> QED BY <2>2, <2>3, <2>4 DEF ObeysRules, NamingRules
<1>6. ASSUME validated' = "ok", NEW p \in DOMAIN ast, NEW name \in UsedIn(ast[p])
      PROVE  LET id == resolvedDef[p][name]
             IN  /\ id \in DOMAIN m_symbolTable
                 /\ StandsFor(p, name, m_symbolTable[id].module, m_symbolTable[id].decl)
  BY <1>1, <1>6, OneMeaning
<1>7. RulesObeyed'
  <2>1. ObeysRules' <=> ObeysRules
    BY <1>3, RulesOnly
  <2>2. \A p, name, q, i : StandsFor(p, name, q, i)' <=> StandsFor(p, name, q, i)
    BY <1>3 DEF StandsFor, PackageOf
  <2> QED BY <1>2, <1>3, <1>5, <1>6, <2>1, <2>2 DEF RulesObeyed
<1> QED BY <1>4, <1>7 DEF RulesInv

LEMMA RulesStep == ASSUME FillsInOnly, KeepsRules, IInv, RulesInv, Next PROVE RulesInv'
<1>1. CASE validate
  <2>1. DOMAIN order' \subseteq Nat \ {0}
    <3>1. PICK s \in [1..Cardinality(DOMAIN m_modules) -> DOMAIN m_modules] : order' = s
      BY <1>1 DEF validate
    <3> QED BY <3>1
  <2> QED BY <1>1, <2>1, BeginsOrThrows DEF validate
<1>2. CASE PassEnds
  BY <1>2, PassOver
<1>3. CASE validateReturns
  BY <1>3, RulesReturned
<1>4. CASE setPackageName
  BY <1>4, Packaged
<1>5. CASE exportSymbols
  BY <1>5, SymbolsExported
<1>6. CASE DependencyMissing \/ LiteralTooLarge
  BY <1>6, BeginsOrThrows DEF DependencyMissing, LiteralTooLarge
<1>7. CASE resolveModuleSymbols
  BY <1>7, Resolves
<1>8. CASE validateGlobalMessageIds
  BY <1>8, NumbersRead
<1>9. CASE validateFieldNumbers \/ validateFieldNames
  BY <1>9, FieldsChecked
<1>10. CASE computeDirectives
  BY <1>10, DirectivesKeep
<1>11. CASE validateAstTypeProperties
  BY <1>11, PropertiesChecked
<1> QED
  BY <1>1, <1>2, <1>3, <1>4, <1>5, <1>6, <1>7, <1>8, <1>9, <1>10, <1>11 DEF Next, ValidateStep

LEMMA RulesStutter == ASSUME IInv, RulesInv, UNCHANGED vars PROVE RulesInv'
<1>1. UNCHANGED <<m_modules, ast, packageName, m_errors, m_symbolTable, resolvedDef, order,
                  pass, at, validated>>
  BY DEF vars, tables, cursor
<1>2. Clean' = Clean /\ \A k, n : Over(k, n)' <=> Over(k, n)
  BY <1>1 DEF Clean, Over
<1>3. SymbolsSound' /\ NamedOnce' /\ PackageNamed'
  BY <1>1 DEF RulesInv, SymbolsSound, Declared, NamedOnce, PackageNamed, PackageOf
<1>4. \A p : Resolved(p)' <=> Resolved(p)
  <2>1. \A p, name : Candidates(p, name)' = Candidates(p, name)
    BY <1>1 DEF Candidates, Exports, Answers
  <2> QED BY <1>1, <2>1 DEF Resolved
<1>5. \A k, p : Passed(k, p)' <=> Passed(k, p)
  BY <1>1, <1>4 DEF Passed
<1>6. Checked'
  BY <1>1, <1>2, <1>5 DEF RulesInv, Checked
<1>7. \A p, name, q, i : StandsFor(p, name, q, i)' <=> StandsFor(p, name, q, i)
  BY <1>1 DEF StandsFor, PackageOf
<1>8. RulesObeyed'
  BY <1>1, <1>7, RulesOnly DEF RulesInv, RulesObeyed
<1>9. resolvedDef' = [p \in DOMAIN m_modules' |-> resolvedDef'[p]]
  BY <1>1 DEF RulesInv
<1> QED BY <1>3, <1>6, <1>8, <1>9 DEF RulesInv

(* What validate accepts obeys the rules of all its passes, for any set of *)
(* modules with any declarations and in whatever order the hash map has    *)
(* them, if filling in the directives disturbs none of them                *)
(* (SemanticContext.h:46-51).                                              *)
THEOREM AcceptedObeyRules ==
  ASSUME FillsInOnly, KeepsRules
  PROVE  Spec => []RulesObeyed
<1>1. (IInv /\ RulesInv) /\ [Next]_vars => (IInv /\ RulesInv)'
  BY Step, Stutter, RulesStep, RulesStutter
<1>2. IInv /\ RulesInv => RulesObeyed
  BY DEF RulesInv
<1> QED
  BY Initially, RInitially, <1>1, <1>2, PTL DEF Spec

-----------------------------------------------------------------------------
(* The other direction. When loadFile found no errors, the first error     *)
(* that a pass reports is one of the files: until then the tables hold     *)
(* nothing but what is behind the passes that fill them.                   *)
OnceInOrder ==
  pass # 0 => \A m, n \in DOMAIN order : order[m] = order[n] => m = n

SymbolsBehind ==
  Clean => \A id \in DOMAIN m_symbolTable :
    \E n \in DOMAIN order :
      order[n] = m_symbolTable[id].module /\ Behind(1, n, m_symbolTable[id].decl)

SeenBehind ==
  Clean => \A number \in globalMessages :
    \E n \in DOMAIN order : \E i \in DOMAIN ast[order[n]] :
      Behind(3, n, i) /\ DeclOf(n, i).is = "message" /\ number \in DeclOf(n, i).messageId

NothingYet ==
  pass = 0 /\ validated = "none" => DOMAIN m_symbolTable = {} /\ globalMessages = {}

BreaksEncoding == \E p \in DOMAIN ast : ~ Encoded(ast[p])
HasReason      == ~ NamingRules \/ (pass \in {7, 8} /\ BreaksEncoding)
ErrorsHaveReasons == m_errors # {} => HasReason

ReasonsInv ==
  /\ OnceInOrder /\ SymbolsBehind /\ SeenBehind /\ NothingYet
  /\ (validated = "none" => ErrorsHaveReasons) /\ RefusedForAReason

LEMMA ReasonInitially == ASSUME Init, m_errors = {} PROVE ReasonsInv
<1>1. pass = 0 /\ validated = "none" /\ m_symbolTable = <<>> /\ globalMessages = {}
  BY DEF Init, ValidateInit
<1>2. DOMAIN m_symbolTable = {}
  <2>1. <<>> \in Seq(Decls) /\ Len(<<>>) = 0
    OBVIOUS
  <2> QED BY <1>1, <2>1
<1> QED
  BY <1>1, <1>2 DEF ReasonsInv, OnceInOrder, SymbolsBehind, SeenBehind, NothingYet, ErrorsHaveReasons,
                    RefusedForAReason, Clean

LEMMA NamingRulesOnly ==
  ASSUME m_modules' = m_modules, ast' = ast
  PROVE  (NamingRules' <=> NamingRules) /\ (BreaksEncoding' <=> BreaksEncoding)
<1>1. \A p : PackageOf(p)' = PackageOf(p) /\ (FileRules(p)' <=> FileRules(p))
  BY DEF PackageOf, FileRules
<1>2. \A p, name, q, i : StandsFor(p, name, q, i)' <=> StandsFor(p, name, q, i)
  BY DEF StandsFor, PackageOf
<1>3. \A p, name : StandsForOne(p, name)' <=> StandsForOne(p, name)
  BY <1>2 DEF StandsForOne
<1> QED
  BY <1>1, <1>3 DEF NamingRules, BreaksEncoding

LEMMA BehindStays ==
  ASSUME IInv, pass \in 1..7,
         \/ NextModule
         \/ NextDecl
         \/ UNCHANGED cursor
         \/ pass' = pass + 1 /\ at' = 1 /\ decl' = 1,
         NEW k \in {1, 3}, NEW n \in Nat, NEW i \in Nat, Behind(k, n, i)
  PROVE  Behind(k, n, i)'
<1>1. at \in Nat /\ decl \in Nat
  BY DEF IInv, Typed
<1> QED
  BY <1>1 DEF Behind, NextModule, NextDecl, cursor

LEMMA Places ==
  ASSUME IInv, pass # 0, NEW n \in DOMAIN order
  PROVE  order[n] \in DOMAIN m_modules /\ n \in Nat /\ DOMAIN ast[order[n]] \subseteq Nat
<1>1. order \in Seq(DOMAIN m_modules) /\ ast \in [DOMAIN m_modules -> Seq(Decls)]
  BY DEF IInv, Typed
<1>2. order[n] \in DOMAIN m_modules /\ n \in Nat
  BY <1>1
<1>3. ast[order[n]] \in Seq(Decls)
  BY <1>1, <1>2
<1> QED BY <1>2, <1>3

(* A step that fills no table: what it reports first has a reason. *)
LEMMA Carries ==
  ASSUME IInv, RulesInv, ReasonsInv, pass \in 1..7,
         UNCHANGED <<m_modules, ast, m_symbolTable, globalMessages, order, validated>>,
         \/ NextModule
         \/ NextDecl
         \/ UNCHANGED cursor
         \/ pass' = pass + 1 /\ at' = 1 /\ decl' = 1,
         m_errors \subseteq m_errors',
         m_errors = {} /\ m_errors' # {} => HasReason
  PROVE  ReasonsInv'
<1>1. /\ validated = "none" /\ pass' \in 1..8 /\ (pass \in {7, 8} => pass' \in {7, 8})
      /\ Clean' => Clean
  BY DEF IInv, Typed, NextModule, NextDecl, cursor, Clean
<1>2. OnceInOrder' /\ NothingYet' /\ RefusedForAReason'
  BY <1>1 DEF ReasonsInv, OnceInOrder, NothingYet, RefusedForAReason
<1>3. SymbolsBehind'
  <2> SUFFICES ASSUME Clean', NEW id \in DOMAIN m_symbolTable
               PROVE  \E n \in DOMAIN order :
                        order[n] = m_symbolTable[id].module /\ Behind(1, n, m_symbolTable[id].decl)'
    BY DEF SymbolsBehind
  <2>1. PICK n \in DOMAIN order :
          order[n] = m_symbolTable[id].module /\ Behind(1, n, m_symbolTable[id].decl)
    BY <1>1 DEF ReasonsInv, SymbolsBehind
  <2>2. PICK q \in DOMAIN m_modules : \E i \in DOMAIN ast[q] :
          m_symbolTable[id] = Symbol(<<packageName[q], ast[q][i].name>>, q, i)
    BY DEF RulesInv, SymbolsSound, Declared
  <2>3. PICK j : j = m_symbolTable[id].decl
    OBVIOUS
  <2>4. j \in DOMAIN ast[q] /\ q = order[n]
    BY <2>1, <2>2, <2>3 DEF Symbol
  <2>5. Behind(1, n, j)'
    BY <2>1, <2>3, <2>4, Places, BehindStays
  <2> QED BY <2>1, <2>3, <2>5
<1>4. SeenBehind'
  <2> SUFFICES ASSUME Clean', NEW number \in globalMessages
               PROVE  \E n \in DOMAIN order : \E i \in DOMAIN ast[order[n]] :
                        Behind(3, n, i)' /\ DeclOf(n, i).is = "message" /\ number \in DeclOf(n, i).messageId
    BY DEF SeenBehind, DeclOf
  <2>1. PICK n \in DOMAIN order : \E i \in DOMAIN ast[order[n]] :
          Behind(3, n, i) /\ DeclOf(n, i).is = "message" /\ number \in DeclOf(n, i).messageId
    BY <1>1 DEF ReasonsInv, SeenBehind
  <2>2. PICK i \in DOMAIN ast[order[n]] :
          Behind(3, n, i) /\ DeclOf(n, i).is = "message" /\ number \in DeclOf(n, i).messageId
    BY <2>1
  <2>3. Behind(3, n, i)'
    BY <2>2, Places, BehindStays
  <2> QED BY <2>2, <2>3
<1>5. ErrorsHaveReasons'
  <2>1. HasReason => HasReason'
    BY <1>1, NamingRulesOnly DEF HasReason
  <2> QED BY <1>1, <2>1 DEF ReasonsInv, ErrorsHaveReasons
<1> QED BY <1>2, <1>3, <1>4, <1>5 DEF ReasonsInv

(* An order of all the modules has each of them once. *)
LEMMA EachOnce ==
  ASSUME NEW S, IsFiniteSet(S), NEW s \in [1..Cardinality(S) -> S], ToSet(s) = S,
         NEW m \in 1..Cardinality(S), NEW n \in 1..Cardinality(S), s[m] = s[n]
  PROVE  m = n
<1>1. Cardinality(S) \in Nat
  BY FS_CardinalityType
<1>2. IsFiniteSet(1..Cardinality(S)) /\ Cardinality(1..Cardinality(S)) = Cardinality(S)
  BY <1>1, FS_Interval
<1>3. s \in Surjection(1..Cardinality(S), S)
  <2>1. DOMAIN s = 1..Cardinality(S) /\ \A y \in S : \E x \in 1..Cardinality(S) : s[x] = y
    BY DEF ToSet
  <2> QED BY <2>1 DEF Surjection
<1>4. s \in Injection(1..Cardinality(S), S)
  BY <1>2, <1>3, FS_SurjSameCardinalityImpliesInj
<1> QED BY <1>4 DEF Injection, IsInjective

LEMMA ReasonStarts == ASSUME IInv, ReasonsInv, validate PROVE ReasonsInv'
<1>1. /\ pass = 0 /\ validated = "none" /\ pass' = 1
      /\ UNCHANGED <<m_modules, ast, m_errors, m_symbolTable, globalMessages, validated>>
  BY DEF validate, tables
<1>2. OnceInOrder'
  <2>1. IsFiniteSet(DOMAIN m_modules)
    BY DEF IInv, Typed
  <2>2. PICK s \in [1..Cardinality(DOMAIN m_modules) -> DOMAIN m_modules] :
          ToSet(s) = DOMAIN m_modules /\ order' = s
    BY DEF validate
  <2>3. \A m, n \in DOMAIN s : s[m] = s[n] => m = n
    BY <2>1, <2>2, EachOnce
  <2> QED BY <2>2, <2>3 DEF OnceInOrder
<1>3. SymbolsBehind' /\ SeenBehind'
  BY <1>1 DEF ReasonsInv, NothingYet, SymbolsBehind, SeenBehind
<1>4. NothingYet' /\ RefusedForAReason'
  BY <1>1 DEF NothingYet, RefusedForAReason
<1>5. ErrorsHaveReasons'
  BY <1>1, NamingRulesOnly DEF ReasonsInv, ErrorsHaveReasons, HasReason
<1> QED BY <1>2, <1>3, <1>4, <1>5 DEF ReasonsInv

LEMMA ReasonEnds == ASSUME IInv, RulesInv, ReasonsInv, PassEnds PROVE ReasonsInv'
<1>1. pass \in 1..7 /\ pass' = pass + 1 /\ at' = 1 /\ decl' = 1
  BY DEF PassEnds, Passes
<1>2. UNCHANGED <<m_modules, ast, m_errors, m_symbolTable, globalMessages, order, validated>>
  BY DEF PassEnds, tables
<1> QED BY <1>1, <1>2, Carries

(* A file without a package, or with two. *)
LEMMA ReasonPackages == ASSUME IInv, RulesInv, ReasonsInv, setPackageName PROVE ReasonsInv'
<1>1. pass = 1 /\ at <= Len(order)
  BY WhichPass DEF setPackageName
<1>2. path \in DOMAIN ast
  BY <1>1, Here
<1>3. UNCHANGED <<m_modules, ast, m_symbolTable, globalMessages, order, validated>>
  BY DEF setPackageName
<1>4. m_errors \subseteq m_errors' /\ (NextModule \/ UNCHANGED cursor)
  BY DEF setPackageName, Report
<1>5. ASSUME m_errors = {}, m_errors' # {} PROVE HasReason
  <2>1. Packages(ast[path]) = <<>> \/ Len(Packages(ast[path])) > 1
    BY <1>5 DEF setPackageName, Report, When
  <2>2. ~ FileRules(path)
    BY <2>1 DEF FileRules
  <2> QED BY <1>2, <2>2 DEF HasReason, NamingRules
<1> QED BY <1>1, <1>3, <1>4, <1>5, Carries

(* A field number, or a name, that a block has twice. *)
LEMMA ReasonFields ==
  ASSUME IInv, RulesInv, ReasonsInv, validateFieldNumbers \/ validateFieldNames PROVE ReasonsInv'
<1>1. /\ NextModule /\ at <= Len(order) /\ pass \in {4, 5}
      /\ UNCHANGED <<m_modules, ast, m_symbolTable, globalMessages, order, validated>>
  BY WhichPass DEF validateFieldNumbers, validateFieldNames, tables
<1>2. m_errors \subseteq m_errors'
  BY DEF validateFieldNumbers, validateFieldNames, Report
<1>3. path \in DOMAIN ast
  BY <1>1, Here
<1>4. ASSUME m_errors = {}, m_errors' # {} PROVE HasReason
  <2>1. NumbersClashIn(ast[path]) \/ NamesClashIn(ast[path])
    BY <1>4 DEF validateFieldNumbers, validateFieldNames, Report, When
  <2>2. ~ FileRules(path)
    BY <2>1 DEF FileRules
  <2> QED BY <1>3, <2>2 DEF HasReason, NamingRules
<1> QED BY <1>1, <1>2, <1>4, Carries

(* A property that is none, or does not fit. *)
LEMMA ReasonProperties == ASSUME IInv, RulesInv, ReasonsInv, validateAstTypeProperties PROVE ReasonsInv'
<1>1. /\ NextModule /\ at <= Len(order) /\ pass = 7
      /\ UNCHANGED <<m_modules, ast, m_symbolTable, globalMessages, order, validated>>
  BY WhichPass DEF validateAstTypeProperties, tables
<1>2. m_errors' = m_errors \cup UNION {Properties(t).errors : t \in TypesOfFile(ast[path])}
  BY DEF validateAstTypeProperties, Report
<1>3. path \in DOMAIN ast
  BY <1>1, Here
<1>4. ASSUME m_errors = {}, m_errors' # {} PROVE HasReason
  <2>1. \E t \in TypesOfFile(ast[path]) : Properties(t).errors # {}
    BY <1>2, <1>4
  <2>2. ~ Encoded(ast[path])
    BY <2>1 DEF Encoded
  <2> QED BY <1>1, <1>3, <2>2 DEF HasReason, BreaksEncoding
<1> QED BY <1>1, <1>2, <1>4, Carries

(* The declaration of a symbol, which is behind the export pass. *)
LEMMA SymbolIsBehind ==
  ASSUME IInv, RulesInv, ReasonsInv, Clean, NEW id \in DOMAIN m_symbolTable
  PROVE  \E n \in DOMAIN order : \E i \in DOMAIN ast[order[n]] :
           /\ Behind(1, n, i) /\ m_symbolTable[id] = SymbolAt(n, i)
           /\ DeclOf(n, i).is \in {"message", "enum"} /\ order[n] \in DOMAIN ast
           /\ packageName[order[n]] = PackageOf(order[n])
<1>1. PICK n \in DOMAIN order :
        order[n] = m_symbolTable[id].module /\ Behind(1, n, m_symbolTable[id].decl)
  BY DEF ReasonsInv, SymbolsBehind
<1>2. PICK q \in DOMAIN m_modules : \E i \in DOMAIN ast[q] :
        /\ packageName[q] # Unnamed /\ ast[q][i].is \in {"message", "enum"}
        /\ m_symbolTable[id] = Symbol(<<packageName[q], ast[q][i].name>>, q, i)
  BY DEF RulesInv, SymbolsSound, Declared
<1>3. PICK i \in DOMAIN ast[q] :
        /\ ast[q][i].is \in {"message", "enum"}
        /\ m_symbolTable[id] = Symbol(<<packageName[q], ast[q][i].name>>, q, i)
  BY <1>2
<1>4. order[n] = q /\ m_symbolTable[id].decl = i
  BY <1>1, <1>3 DEF Symbol
<1>5. packageName[q] = PackageOf(q) /\ q \in DOMAIN ast
  BY <1>2 DEF RulesInv, PackageNamed, IInv, Typed
<1> QED BY <1>1, <1>3, <1>4, <1>5 DEF SymbolAt, DeclOf

(* A name that is known is that of another declaration. *)
LEMMA ReasonSymbols == ASSUME IInv, RulesInv, ReasonsInv, exportSymbols PROVE ReasonsInv'
<1> DEFINE d   == ast[path][decl]
           fqn == <<packageName[path], d.name>>
<1>1. pass = 1 /\ at <= Len(order) /\ packageName[path] # Unnamed
  BY WhichPass DEF exportSymbols
<1>2. /\ path \in DOMAIN m_modules /\ IsASeq(m_symbolTable) /\ validated = "none"
      /\ decl \in Nat \ {0} /\ ast[path] \in Seq(Decls) /\ at \in DOMAIN order /\ at \in Nat
      /\ DOMAIN ast = DOMAIN m_modules
  BY <1>1, Here
<1>3. UNCHANGED <<m_modules, ast, packageName, globalMessages, order, validated>>
  BY DEF exportSymbols
<1>4. m_errors \subseteq m_errors' /\ (NextModule \/ NextDecl)
  BY DEF exportSymbols, Report
<1>5. ASSUME m_errors = {}, m_errors' # {} PROVE HasReason
  <2>1. /\ ~ decl > Len(ast[path]) /\ d.is \in {"message", "enum"} /\ Known(fqn)
    BY <1>5 DEF exportSymbols
  <2>2. decl \in DOMAIN ast[path]
    BY <1>2, <2>1
  <2>3. Clean
    BY <1>1, <1>5 DEF Clean
  <2>4. PICK id \in DOMAIN m_symbolTable : m_symbolTable[id].fqn = fqn
    BY <2>1 DEF Known
  <2>5. PICK n \in DOMAIN order : \E i \in DOMAIN ast[order[n]] :
           /\ Behind(1, n, i) /\ m_symbolTable[id] = SymbolAt(n, i)
           /\ DeclOf(n, i).is \in {"message", "enum"} /\ order[n] \in DOMAIN ast
           /\ packageName[order[n]] = PackageOf(order[n])
    BY <2>3, SymbolIsBehind
  <2>6. PICK i \in DOMAIN ast[order[n]] :
           /\ Behind(1, n, i) /\ m_symbolTable[id] = SymbolAt(n, i)
           /\ DeclOf(n, i).is \in {"message", "enum"} /\ order[n] \in DOMAIN ast
           /\ packageName[order[n]] = PackageOf(order[n])
    BY <2>5
  <2>7. packageName[path] = PackageOf(path)
    BY <1>1, <1>2 DEF RulesInv, PackageNamed
  <2>8. <<PackageOf(order[n]), ast[order[n]][i].name>> = <<PackageOf(path), d.name>>
    BY <2>4, <2>6, <2>7 DEF SymbolAt, Symbol, DeclOf
  <2>9. <<order[n], i>> # <<path, decl>>
    <3>1. ASSUME order[n] = path, i = decl PROVE FALSE
      <4>1. n = at
        BY <1>1, <1>2, <3>1 DEF ReasonsInv, OnceInOrder, path
      <4> QED BY <1>1, <1>2, <2>6, <3>1, <4>1 DEF Behind
    <3> QED BY <3>1
  <2>10. ~ Apart(PackageOf(order[n]), ast[order[n]][i], PackageOf(path), ast[path][decl])
    BY <2>1, <2>6, <2>8 DEF Apart, DeclOf
  <2>11. ~ NamingRules
    BY <1>2, <2>2, <2>6, <2>9, <2>10 DEF NamingRules
  <2> QED BY <2>11 DEF HasReason
<1>6. CASE m_symbolTable' = m_symbolTable
  BY <1>1, <1>3, <1>4, <1>5, <1>6, Carries
<1>7. CASE m_symbolTable' # m_symbolTable
  <2>1. /\ NextDecl /\ m_symbolTable' = Append(m_symbolTable, Symbol(fqn, path, decl))
        /\ m_errors' = m_errors
    BY <1>7 DEF exportSymbols
  <2>2. SymbolsBehind'
    <3>1. /\ Len(m_symbolTable) \in Nat /\ DOMAIN m_symbolTable = 1..Len(m_symbolTable)
          /\ DOMAIN m_symbolTable' = 1..(Len(m_symbolTable) + 1)
          /\ \A k \in 1..Len(m_symbolTable) : m_symbolTable'[k] = m_symbolTable[k]
          /\ m_symbolTable'[Len(m_symbolTable) + 1] = Symbol(fqn, path, decl)
      BY <1>2, <2>1, AppendToSeq
    <3> SUFFICES ASSUME Clean', NEW id \in DOMAIN m_symbolTable'
                 PROVE  \E n \in DOMAIN order : \E i :
                          /\ order[n] = m_symbolTable'[id].module /\ i = m_symbolTable'[id].decl
                          /\ Behind(1, n, i)'
      BY <1>3 DEF SymbolsBehind
    <3>2. CASE id \in DOMAIN m_symbolTable
      <4>1. Clean /\ m_symbolTable'[id] = m_symbolTable[id]
        BY <1>1, <2>1, <3>1, <3>2 DEF Clean
      <4>2. PICK n \in DOMAIN order : \E i \in DOMAIN ast[order[n]] :
              Behind(1, n, i) /\ m_symbolTable[id] = SymbolAt(n, i)
        BY <3>2, <4>1, SymbolIsBehind
      <4>3. PICK i \in DOMAIN ast[order[n]] :
              Behind(1, n, i) /\ m_symbolTable[id] = SymbolAt(n, i)
        BY <4>2
      <4>4. n \in Nat /\ i \in Nat
        BY <1>1, Places
      <4>5. Behind(1, n, i)'
        BY <1>1, <2>1, <4>3, <4>4, BehindStays
      <4> QED BY <4>1, <4>3, <4>5 DEF SymbolAt, Symbol
    <3>3. CASE id = Len(m_symbolTable) + 1
      <4>1. m_symbolTable'[id].module = path /\ m_symbolTable'[id].decl = decl
        BY <3>1, <3>3 DEF Symbol
      <4>2. \A n, i : n = at /\ i = decl => Behind(1, n, i)'
        <5>1. pass' = 1 /\ at' = at /\ decl' = decl + 1
          BY <1>1, <2>1 DEF NextDecl
        <5> QED BY <1>2, <5>1 DEF Behind
      <4> QED BY <1>2, <4>1, <4>2 DEF path
    <3> QED BY <3>1, <3>2, <3>3
  <2>3. SeenBehind'
    <3> SUFFICES ASSUME Clean', NEW number \in globalMessages
                 PROVE  \E n \in DOMAIN order : \E i \in DOMAIN ast[order[n]] :
                          Behind(3, n, i)' /\ DeclOf(n, i).is = "message" /\ number \in DeclOf(n, i).messageId
      BY <1>3 DEF SeenBehind, DeclOf
    <3>1. Clean
      BY <1>1, <2>1 DEF Clean
    <3>2. PICK n \in DOMAIN order : \E i \in DOMAIN ast[order[n]] : Behind(3, n, i)
      BY <3>1 DEF ReasonsInv, SeenBehind
    <3> QED BY <1>1, <3>2 DEF Behind
  <2>4. OnceInOrder' /\ NothingYet' /\ RefusedForAReason'
    BY <1>1, <1>2, <1>3, <2>1 DEF ReasonsInv, OnceInOrder, NothingYet, RefusedForAReason, NextDecl
  <2>5. ErrorsHaveReasons'
    <3>1. NamingRules' <=> NamingRules
      BY <1>3, NamingRulesOnly
    <3> QED BY <1>1, <1>2, <2>1, <3>1 DEF ReasonsInv, ErrorsHaveReasons, HasReason
  <2> QED BY <2>2, <2>3, <2>4, <2>5 DEF ReasonsInv
<1> QED BY <1>6, <1>7

(* A message number that was seen is that of another message. *)
LEMMA ReasonNumbers == ASSUME IInv, RulesInv, ReasonsInv, validateGlobalMessageIds PROVE ReasonsInv'
<1> DEFINE d == ast[path][decl]
<1>1. pass = 3 /\ at <= Len(order)
  BY WhichPass DEF validateGlobalMessageIds
<1>2. /\ path \in DOMAIN m_modules /\ validated = "none" /\ decl \in Nat \ {0}
      /\ ast[path] \in Seq(Decls) /\ at \in DOMAIN order /\ at \in Nat
      /\ DOMAIN ast = DOMAIN m_modules
  BY <1>1, Here
<1>3. UNCHANGED <<m_modules, ast, packageName, m_symbolTable, order, validated>>
  BY DEF validateGlobalMessageIds
<1>4. m_errors \subseteq m_errors' /\ (NextModule \/ NextDecl)
  BY DEF validateGlobalMessageIds, Report
<1>5. ASSUME m_errors = {}, m_errors' # {} PROVE HasReason
  <2>1. /\ ~ decl > Len(ast[path]) /\ d.is = "message" /\ d.messageId \cap globalMessages # {}
    BY <1>5 DEF validateGlobalMessageIds, Report, When
  <2>2. decl \in DOMAIN ast[path] /\ Clean
    BY <1>1, <1>2, <1>5, <2>1 DEF Clean
  <2>3. PICK number \in globalMessages : number \in d.messageId
    BY <2>1
  <2>4. PICK n \in DOMAIN order : \E i \in DOMAIN ast[order[n]] :
          Behind(3, n, i) /\ DeclOf(n, i).is = "message" /\ number \in DeclOf(n, i).messageId
    BY <2>2 DEF ReasonsInv, SeenBehind
  <2>5. PICK i \in DOMAIN ast[order[n]] :
          Behind(3, n, i) /\ DeclOf(n, i).is = "message" /\ number \in DeclOf(n, i).messageId
    BY <2>4
  <2>6. <<order[n], i>> # <<path, decl>>
    <3>1. ASSUME order[n] = path, i = decl PROVE FALSE
      <4>1. n = at
        BY <1>1, <1>2, <3>1 DEF ReasonsInv, OnceInOrder, path
      <4> QED BY <1>1, <1>2, <2>5, <3>1, <4>1 DEF Behind
    <3> QED BY <3>1
  <2>7. ~ Apart(PackageOf(order[n]), ast[order[n]][i], PackageOf(path), ast[path][decl])
    BY <2>1, <2>3, <2>5 DEF Apart, DeclOf
  <2>8. order[n] \in DOMAIN ast
    BY <1>1, <1>2, Places
  <2>9. ~ NamingRules
    BY <1>2, <2>2, <2>5, <2>6, <2>7, <2>8 DEF NamingRules
  <2> QED BY <2>9 DEF HasReason
<1>6. CASE globalMessages' = globalMessages
  BY <1>1, <1>3, <1>4, <1>5, <1>6, Carries
<1>7. CASE globalMessages' # globalMessages
  <2>1. /\ NextDecl /\ d.is = "message" /\ globalMessages' = globalMessages \cup d.messageId
        /\ ~ decl > Len(ast[path])
    BY <1>7 DEF validateGlobalMessageIds
  <2>2. Clean' => Clean
    BY <1>1, <1>4 DEF Clean
  <2>3. SeenBehind'
    <3> SUFFICES ASSUME Clean', NEW number \in globalMessages'
                 PROVE  \E n \in DOMAIN order : \E i \in DOMAIN ast[order[n]] :
                          Behind(3, n, i)' /\ DeclOf(n, i).is = "message" /\ number \in DeclOf(n, i).messageId
      BY <1>3 DEF SeenBehind, DeclOf
    <3>1. CASE number \in globalMessages
      <4>1. PICK n \in DOMAIN order : \E i \in DOMAIN ast[order[n]] :
              Behind(3, n, i) /\ DeclOf(n, i).is = "message" /\ number \in DeclOf(n, i).messageId
        BY <2>2, <3>1 DEF ReasonsInv, SeenBehind
      <4>2. PICK i \in DOMAIN ast[order[n]] :
              Behind(3, n, i) /\ DeclOf(n, i).is = "message" /\ number \in DeclOf(n, i).messageId
        BY <4>1
      <4>3. n \in Nat /\ i \in Nat
        BY <1>1, Places
      <4>4. Behind(3, n, i)'
        BY <1>1, <2>1, <4>2, <4>3, BehindStays
      <4> QED BY <4>2, <4>4
    <3>2. CASE number \in d.messageId
      <4>1. decl \in DOMAIN ast[order[at]]
        BY <1>2, <2>1 DEF path
      <4>2. \A n, i : n = at /\ i = decl => Behind(3, n, i)'
        <5>1. pass' = 3 /\ at' = at /\ decl' = decl + 1
          BY <1>1, <2>1 DEF NextDecl
        <5> QED BY <1>2, <5>1 DEF Behind
      <4> QED BY <1>2, <2>1, <3>2, <4>1, <4>2 DEF DeclOf, path
    <3> QED BY <2>1, <3>1, <3>2
  <2>4. SymbolsBehind'
    <3> SUFFICES ASSUME Clean', NEW id \in DOMAIN m_symbolTable
                 PROVE  \E n \in DOMAIN order : \E i :
                          /\ order[n] = m_symbolTable[id].module /\ i = m_symbolTable[id].decl
                          /\ Behind(1, n, i)'
      BY <1>3 DEF SymbolsBehind
    <3>1. PICK n \in DOMAIN order : order[n] = m_symbolTable[id].module
      BY <2>2 DEF ReasonsInv, SymbolsBehind
    <3> QED BY <1>1, <2>1, <3>1 DEF Behind, NextDecl
  <2>5. OnceInOrder' /\ NothingYet' /\ RefusedForAReason'
    BY <1>1, <1>2, <1>3, <2>1 DEF ReasonsInv, OnceInOrder, NothingYet, RefusedForAReason, NextDecl
  <2>6. ErrorsHaveReasons'
    <3>1. NamingRules' <=> NamingRules
      BY <1>3, NamingRulesOnly
    <3> QED BY <1>1, <1>2, <1>5, <3>1 DEF ReasonsInv, ErrorsHaveReasons, HasReason
  <2> QED BY <2>3, <2>4, <2>5, <2>6 DEF ReasonsInv
<1> QED BY <1>6, <1>7

(* The symbol of a declaration that a name stands for. *)
LEMMA SymbolFor ==
  ASSUME IInv, RulesInv, Clean, pass > 1, NEW p \in DOMAIN ast, NEW name,
         NEW q \in DOMAIN ast, NEW i \in DOMAIN ast[q], StandsFor(p, name, q, i)
  PROVE  Candidates(p, name) # {}
<1>1. PICK n \in DOMAIN order : order[n] = q
  BY DEF Clean, IInv, Typed
<1>2. Behind(1, n, i) /\ DeclOf(n, i) = ast[q][i] /\ DeclOf(n, i).is \in {"message", "enum"}
  BY <1>1 DEF Behind, DeclOf, StandsFor
<1>3. packageName[q] # Unnamed /\ \E id \in DOMAIN m_symbolTable : m_symbolTable[id] = SymbolAt(n, i)
  BY <1>1, <1>2 DEF IInv, Exported
<1>4. PICK id \in DOMAIN m_symbolTable : m_symbolTable[id] = SymbolAt(n, i)
  BY <1>3
<1>5. packageName[q] = PackageOf(q)
  BY <1>3 DEF RulesInv, PackageNamed, IInv, Typed
<1>6. /\ m_symbolTable[id].fqn = <<PackageOf(q), ast[q][i].name>>
      /\ m_symbolTable[id].module = q /\ m_symbolTable[id].fqn[2] = ast[q][i].name
  BY <1>1, <1>2, <1>4, <1>5 DEF SymbolAt, Symbol
<1>7. Answers(id, name)
  BY <1>6 DEF Answers, StandsFor
<1>8. id \in Exports(q) /\ q \in {p} \cup m_modules[p]
  BY <1>6 DEF Exports, StandsFor
<1> QED BY <1>7, <1>8 DEF Candidates

(* And a candidate for a name is the symbol of one. *)
LEMMA CandidateStands ==
  ASSUME IInv, RulesInv, ReasonsInv, Clean, NEW p \in DOMAIN ast, NEW name, NEW id \in Candidates(p, name)
  PROVE  \E q \in DOMAIN ast : \E i \in DOMAIN ast[q] :
           StandsFor(p, name, q, i) /\ m_symbolTable[id] = Symbol(<<PackageOf(q), ast[q][i].name>>, q, i)
<1>1. /\ id \in DOMAIN m_symbolTable /\ m_symbolTable[id].module \in {p} \cup m_modules[p]
      /\ Answers(id, name)
  BY DEF Candidates, Exports
<1>2. PICK n \in DOMAIN order : \E i \in DOMAIN ast[order[n]] :
        /\ m_symbolTable[id] = SymbolAt(n, i)
        /\ DeclOf(n, i).is \in {"message", "enum"} /\ order[n] \in DOMAIN ast
        /\ packageName[order[n]] = PackageOf(order[n])
  BY <1>1, SymbolIsBehind
<1>3. PICK i \in DOMAIN ast[order[n]] :
        /\ m_symbolTable[id] = SymbolAt(n, i)
        /\ DeclOf(n, i).is \in {"message", "enum"} /\ order[n] \in DOMAIN ast
        /\ packageName[order[n]] = PackageOf(order[n])
  BY <1>2
<1>4. m_symbolTable[id] = Symbol(<<PackageOf(order[n]), ast[order[n]][i].name>>, order[n], i)
  BY <1>3 DEF SymbolAt, DeclOf
<1>5. /\ m_symbolTable[id].fqn = <<PackageOf(order[n]), ast[order[n]][i].name>>
      /\ m_symbolTable[id].module = order[n] /\ m_symbolTable[id].fqn[2] = ast[order[n]][i].name
  BY <1>4 DEF Symbol
<1>6. StandsFor(p, name, order[n], i)
  BY <1>1, <1>3, <1>5 DEF StandsFor, Answers, DeclOf
<1> QED BY <1>3, <1>4, <1>6

(* A name that stands for nothing, or for two declarations. *)
LEMMA ReasonResolves == ASSUME IInv, RulesInv, ReasonsInv, resolveModuleSymbols PROVE ReasonsInv'
<1>1. pass = 2 /\ at <= Len(order)
  BY WhichPass DEF resolveModuleSymbols
<1>2. path \in DOMAIN ast /\ IsASeq(m_symbolTable)
  BY <1>1, Here
<1>3. NextModule /\ UNCHANGED <<m_modules, ast, m_symbolTable, globalMessages, order, validated>>
  BY DEF resolveModuleSymbols
<1> DEFINE used  == UsedIn(ast[path])
           found == {n \in used : Candidates(path, n) # {}}
<1>4. m_errors' = m_errors \cup (When(~ Applied(ast[path]), "INVALID_TYPE_ARGS")
                     \cup When(found # used, "SYMBOL_NOT_DEFINED")
                     \cup When(\E n \in found : Cardinality(Candidates(path, n)) > 1,
                               "SYMBOL_AMBIGUOUS"))
  BY DEF resolveModuleSymbols, Report
<1>5. ASSUME m_errors = {}, m_errors' # {}, NamingRules PROVE FALSE
  <2>1. Clean /\ pass > 1
    BY <1>1, <1>5 DEF Clean
  <2>2. Applied(ast[path])
    BY <1>2, <1>5 DEF NamingRules, FileRules
  <2>3. ASSUME NEW name \in used
        PROVE  Candidates(path, name) # {} /\ ~ Cardinality(Candidates(path, name)) > 1
    <3>1. StandsForOne(path, name)
      BY <1>2, <1>5, <2>3 DEF NamingRules
    <3>2. Candidates(path, name) # {}
      BY <1>2, <2>1, <3>1, SymbolFor DEF StandsForOne
    <3>3. \A a, b \in Candidates(path, name) : a = b
      <4> SUFFICES ASSUME NEW a \in Candidates(path, name), NEW b \in Candidates(path, name)
                   PROVE  a = b
        OBVIOUS
      <4>1. m_symbolTable[a] = m_symbolTable[b]
        <5>1. PICK q \in DOMAIN ast : \E i \in DOMAIN ast[q] :
                \A r \in DOMAIN ast : \A j \in DOMAIN ast[r] :
                  StandsFor(path, name, r, j) => r = q /\ j = i
          BY <3>1 DEF StandsForOne
        <5>2. PICK i \in DOMAIN ast[q] :
                \A r \in DOMAIN ast : \A j \in DOMAIN ast[r] :
                  StandsFor(path, name, r, j) => r = q /\ j = i
          BY <5>1
        <5>3. m_symbolTable[a] = Symbol(<<PackageOf(q), ast[q][i].name>>, q, i)
          BY <1>2, <2>1, <5>2, CandidateStands
        <5>4. m_symbolTable[b] = Symbol(<<PackageOf(q), ast[q][i].name>>, q, i)
          BY <1>2, <2>1, <5>2, CandidateStands
        <5> QED BY <5>3, <5>4
      <4>2. a \in DOMAIN m_symbolTable /\ b \in DOMAIN m_symbolTable
        BY DEF Candidates, Exports
      <4> QED BY <4>1, <4>2 DEF IInv, SymbolsUnique
    <3>4. PICK a : Candidates(path, name) = {a}
      BY <3>2, <3>3
    <3>5. Cardinality(Candidates(path, name)) = 1
      BY <3>4, FS_Singleton
    <3> QED BY <3>2, <3>5
  <2>4. found = used /\ ~ (\E n \in found : Cardinality(Candidates(path, n)) > 1)
    BY <2>3
  <2> QED BY <1>4, <1>5, <2>2, <2>4 DEF When
<1>6. m_errors = {} /\ m_errors' # {} => HasReason
  BY <1>5 DEF HasReason
<1>7. m_errors \subseteq m_errors'
  BY <1>4
<1> QED BY <1>1, <1>3, <1>6, <1>7, Carries

(* computeDirectives makes no file obey the rules, or break them. *)
LEMMA ReasonDirectives ==
  ASSUME FillsInOnly, KeepsRules, IInv, RulesInv, ReasonsInv, computeDirectives PROVE ReasonsInv'
<1>1. at <= Len(order) /\ pass = 6
  BY WhichPass DEF computeDirectives
<1>2. /\ ast \in [DOMAIN m_modules -> Seq(Decls)] /\ path \in DOMAIN m_modules
      /\ validated = "none" /\ at \in Nat
  BY <1>1, Here
<1>3. /\ NextModule /\ ast' = [ast EXCEPT ![path] = WithDirectives(ast[path])]
      /\ UNCHANGED <<m_modules, m_errors, m_symbolTable, globalMessages, order, validated>>
  BY DEF computeDirectives, tables
<1>4. \A p \in DOMAIN m_modules :
        /\ ast'[p] \in Seq(Decls)
        /\ ast'[p] = ast[p] \/ (SameDecls(ast[p], ast'[p]) /\ SameRules(ast[p], ast'[p]))
  BY <1>2, <1>3 DEF FillsInOnly, KeepsRules
<1>5. ASSUME NEW p \in DOMAIN m_modules
      PROVE  /\ Packages(ast'[p]) = Packages(ast[p]) /\ UsedIn(ast'[p]) = UsedIn(ast[p])
             /\ Applied(ast'[p]) <=> Applied(ast[p])
             /\ NumbersClashIn(ast'[p]) <=> NumbersClashIn(ast[p])
             /\ NamesClashIn(ast'[p]) <=> NamesClashIn(ast[p])
  BY <1>4 DEF SameRules
<1>6. ASSUME NEW p \in DOMAIN m_modules
      PROVE  /\ DOMAIN ast'[p] = DOMAIN ast[p]
             /\ \A i \in DOMAIN ast[p] :
                  /\ ast'[p][i].is = ast[p][i].is
                  /\ ast[p][i].is \in {"message", "enum"} =>
                       ast'[p][i].name = ast[p][i].name /\ ast'[p][i].messageId = ast[p][i].messageId
  <2>1. ast[p] \in Seq(Decls) /\ ast'[p] \in Seq(Decls)
    BY <1>2, <1>4
  <2>2. CASE ast'[p] = ast[p]
    BY <2>2
  <2>3. CASE SameDecls(ast[p], ast'[p])
    BY <2>1, <2>3 DEF SameDecls
  <2> QED BY <1>4, <2>2, <2>3
<1>7. DOMAIN ast = DOMAIN m_modules /\ DOMAIN ast' = DOMAIN m_modules
  BY <1>2, <1>3
<1>8. NamingRules' <=> NamingRules
  <2>1. \A p \in DOMAIN m_modules : PackageOf(p)' = PackageOf(p) /\ (FileRules(p)' <=> FileRules(p))
    BY <1>3, <1>5, <1>7 DEF PackageOf, FileRules
  <2>2. \A p, name, q, i : StandsFor(p, name, q, i)' <=> StandsFor(p, name, q, i)
    <3> TAKE p, name, q, i
    <3>1. m_modules'[p] = m_modules[p]
      BY <1>3
    <3>2. CASE q \in DOMAIN m_modules
      <4>1. DOMAIN ast'[q] = DOMAIN ast[q] /\ PackageOf(q)' = PackageOf(q)
        BY <1>6, <2>1, <3>2
      <4>2. CASE i \in DOMAIN ast[q] /\ ast[q][i].is \in {"message", "enum"}
        <5>1. ast'[q][i].is = ast[q][i].is /\ ast'[q][i].name = ast[q][i].name
          BY <1>6, <3>2, <4>2
        <5> QED BY <1>7, <3>1, <4>1, <5>1 DEF StandsFor
      <4>3. CASE i \in DOMAIN ast[q] /\ ast[q][i].is \notin {"message", "enum"}
        <5>1. ast'[q][i].is = ast[q][i].is
          BY <1>6, <3>2, <4>3
        <5> QED BY <4>3, <5>1 DEF StandsFor
      <4>4. CASE i \notin DOMAIN ast[q]
        BY <4>1, <4>4 DEF StandsFor
      <4> QED BY <4>2, <4>3, <4>4
    <3>3. CASE q \notin DOMAIN m_modules
      BY <1>7, <3>3 DEF StandsFor
    <3> QED BY <3>2, <3>3
  <2>3. \A p, name : StandsForOne(p, name)' <=> StandsForOne(p, name)
    BY <1>6, <1>7, <2>2 DEF StandsForOne
  <2>4. \A p, q \in DOMAIN m_modules : \A i \in DOMAIN ast[p], j \in DOMAIN ast[q] :
          Apart(PackageOf(p), ast[p][i], PackageOf(q), ast[q][j])'
            <=> Apart(PackageOf(p), ast[p][i], PackageOf(q), ast[q][j])
    BY <1>6, <2>1 DEF Apart
  <2> QED BY <1>5, <1>6, <1>7, <2>1, <2>3, <2>4 DEF NamingRules
<1>9. Clean' => Clean
  BY <1>1, <1>3 DEF Clean
<1>10. \A k, n, i : k \in {1, 3} => Behind(k, n, i)'
  BY <1>1, <1>3 DEF Behind, NextModule
<1>11. SymbolsBehind'
  BY <1>3, <1>9, <1>10 DEF ReasonsInv, SymbolsBehind
<1>12. SeenBehind'
  <2> SUFFICES ASSUME Clean', NEW number \in globalMessages
               PROVE  \E n \in DOMAIN order : \E i \in DOMAIN ast'[order[n]] :
                        /\ Behind(3, n, i)' /\ ast'[order[n]][i].is = "message"
                        /\ number \in ast'[order[n]][i].messageId
    BY <1>3 DEF SeenBehind, DeclOf
  <2>1. PICK n \in DOMAIN order : \E i \in DOMAIN ast[order[n]] :
          ast[order[n]][i].is = "message" /\ number \in ast[order[n]][i].messageId
    BY <1>9 DEF ReasonsInv, SeenBehind, DeclOf
  <2>2. order[n] \in DOMAIN m_modules
    BY <1>1, Places
  <2> QED BY <1>6, <1>10, <2>1, <2>2
<1>13. OnceInOrder' /\ NothingYet' /\ RefusedForAReason'
  BY <1>1, <1>2, <1>3 DEF ReasonsInv, OnceInOrder, NothingYet, RefusedForAReason, NextModule
<1>14. ErrorsHaveReasons'
  BY <1>1, <1>2, <1>3, <1>8 DEF ReasonsInv, ErrorsHaveReasons, HasReason
<1> QED BY <1>11, <1>12, <1>13, <1>14 DEF ReasonsInv

(* A verdict, or an exception, and then nothing more. *)
LEMMA ReasonOver ==
  ASSUME IInv, ReasonsInv,
         UNCHANGED <<m_modules, ast, m_errors, tables>>, pass' = 0, validated' # "none",
         validated' \in {"failed", "threw"} => ~ ObeysRules
  PROVE  ReasonsInv'
<1>1. ~ Clean'
  BY DEF Clean
<1>2. RefusedForAReason'
  BY RulesOnly DEF RefusedForAReason
<1> QED
  BY <1>1, <1>2 DEF ReasonsInv, OnceInOrder, SymbolsBehind, SeenBehind, NothingYet

LEMMA ReasonReturns == ASSUME IInv, ReasonsInv, validateReturns PROVE ReasonsInv'
<1>1. /\ pass = 8 /\ pass' = 0 /\ UNCHANGED <<m_modules, ast, m_errors, tables>>
      /\ validated' \in {"ok", "failed"} /\ (validated' = "failed" => m_errors # {})
  BY DEF validateReturns, Passes
<1>2. validated = "none"
  BY <1>1 DEF IInv, Typed
<1>3. m_errors # {} => ~ ObeysRules
  BY <1>1, <1>2 DEF ReasonsInv, ErrorsHaveReasons, HasReason, BreaksEncoding, ObeysRules
<1> QED BY <1>1, <1>3, ReasonOver

LEMMA ReasonThrows ==
  ASSUME IInv, ReasonsInv, DependencyMissing \/ LiteralTooLarge PROVE ReasonsInv'
<1>1. /\ pass' = 0 /\ UNCHANGED <<m_modules, ast, m_errors, tables>> /\ validated' = "threw"
  BY DEF DependencyMissing, LiteralTooLarge
<1>2. path \in DOMAIN ast /\ DOMAIN ast = DOMAIN m_modules
  <2>1. pass \in 1..7 /\ at <= Len(order)
    BY WhichPass DEF DependencyMissing, LiteralTooLarge
  <2> QED BY <2>1, Here
<1>3. ~ ObeysRules
  <2>1. CASE DependencyMissing
    BY <1>2, <2>1 DEF DependencyMissing, ObeysRules, NamingRules, FileRules
  <2>2. CASE LiteralTooLarge
    BY <1>2, <2>2 DEF LiteralTooLarge, ObeysRules, Encoded
  <2> QED BY <2>1, <2>2
<1> QED BY <1>1, <1>3, ReasonOver

LEMMA ReasonStep == ASSUME FillsInOnly, KeepsRules, IInv, RulesInv, ReasonsInv, Next PROVE ReasonsInv'
<1>1. CASE validate
  BY <1>1, ReasonStarts
<1>2. CASE PassEnds
  BY <1>2, ReasonEnds
<1>3. CASE validateReturns
  BY <1>3, ReasonReturns
<1>4. CASE setPackageName
  BY <1>4, ReasonPackages
<1>5. CASE exportSymbols
  BY <1>5, ReasonSymbols
<1>6. CASE DependencyMissing \/ LiteralTooLarge
  BY <1>6, ReasonThrows
<1>7. CASE resolveModuleSymbols
  BY <1>7, ReasonResolves
<1>8. CASE validateGlobalMessageIds
  BY <1>8, ReasonNumbers
<1>9. CASE validateFieldNumbers \/ validateFieldNames
  BY <1>9, ReasonFields
<1>10. CASE computeDirectives
  BY <1>10, ReasonDirectives
<1>11. CASE validateAstTypeProperties
  BY <1>11, ReasonProperties
<1> QED
  BY <1>1, <1>2, <1>3, <1>4, <1>5, <1>6, <1>7, <1>8, <1>9, <1>10, <1>11 DEF Next, ValidateStep

LEMMA ReasonStutter == ASSUME IInv, ReasonsInv, UNCHANGED vars PROVE ReasonsInv'
<1>1. UNCHANGED <<m_modules, ast, m_errors, m_symbolTable, globalMessages, order,
                  pass, at, decl, validated>>
  BY DEF vars, tables, cursor
<1>2. Clean' = Clean /\ \A k, n, i : Behind(k, n, i)' <=> Behind(k, n, i)
  BY <1>1 DEF Clean, Behind
<1>3. SymbolsBehind' /\ SeenBehind'
  BY <1>1, <1>2 DEF ReasonsInv, SymbolsBehind, SeenBehind, DeclOf
<1>4. OnceInOrder' /\ NothingYet'
  BY <1>1 DEF ReasonsInv, OnceInOrder, NothingYet
<1>5. (validated = "none" => ErrorsHaveReasons)'
  BY <1>1, NamingRulesOnly DEF ReasonsInv, ErrorsHaveReasons, HasReason
<1>6. RefusedForAReason'
  BY <1>1, RulesOnly DEF ReasonsInv, RefusedForAReason
<1> QED BY <1>3, <1>4, <1>5, <1>6 DEF ReasonsInv

(* What validate refuses breaks a rule: with AcceptedObeyRules, validate   *)
(* decides exactly whether modules that were loaded without an error obey  *)
(* the rules, although it goes on after errors, over tables that lack what *)
(* was refused (SemanticContext.h:46-51).                                  *)
THEOREM RefusedBreakRules ==
  ASSUME FillsInOnly, KeepsRules
  PROVE  (Init /\ m_errors = {}) /\ [][Next]_vars => []RefusedForAReason
<1>1. Init /\ m_errors = {} => IInv /\ RulesInv /\ ReasonsInv
  BY Initially, RInitially, ReasonInitially
<1>2. (IInv /\ RulesInv /\ ReasonsInv) /\ [Next]_vars => (IInv /\ RulesInv /\ ReasonsInv)'
  BY Step, Stutter, RulesStep, RulesStutter, ReasonStep, ReasonStutter
<1>3. IInv /\ RulesInv /\ ReasonsInv => RefusedForAReason
  BY DEF ReasonsInv
<1> QED
  BY <1>1, <1>2, <1>3, PTL
=============================================================================
