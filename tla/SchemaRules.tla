----------------------------- MODULE SchemaRules -----------------------------
(***************************************************************************)
(* When a set of modules is a schema: what validate decides with tables    *)
(* and passes, said of all its declarations at once.                       *)
(*                                                                         *)
(* deps takes a path to the modules it imports, file to its declarations.  *)
(***************************************************************************)
EXTENDS AstWalks, Integers

Places(file) ==
  {<<p, i>> \in (DOMAIN file) \X (1..Max({0} \cup {Len(file[p]) : p \in DOMAIN file})) :
     i \in DOMAIN file[p]}
DeclAt(file, d)    == file[d[1]][d[2]]
Defined(file)      == {d \in Places(file) : DeclAt(file, d).is \in {"message", "enum"}}
PackagesOf(f)      == {f[i].name : i \in {i \in DOMAIN f : f[i].is = "package"}}
FullName(file, d)  == <<PackagesOf(file[d[1]]), DeclAt(file, d).name>>

(* Every file is of one package. *)
OnePackage(file) ==
  \A p \in DOMAIN file : Cardinality({i \in DOMAIN file[p] : file[p][i].is = "package"}) = 1

(* No two declarations have a full name in common. *)
FullNamesUnique(file) ==
  \A d, e \in Defined(file) : FullName(file, d) = FullName(file, e) => d = e

(* No two messages have a number in common. *)
MessageNumbersUnique(file) ==
  \A d, e \in Defined(file) :
    DeclAt(file, d).messageId \cap DeclAt(file, e).messageId # {} => d = e

(* A name stands for one declaration of the module or of one it imports.   *)
Denotes(file, d, name) ==
  /\ name[2] = DeclAt(file, d).name
  /\ name[1] # "" => PackagesOf(file[d[1]]) = {name[1]}

TypesAt(file, d) == IF DeclAt(file, d).is = "message" THEN TypesIn(DeclAt(file, d).block) ELSE {}

NamesStandForOne(file, deps) ==
  \A d \in Defined(file) : \A t \in TypesAt(file, d) : t.type = "USER" =>
    Cardinality({e \in Defined(file) : e[1] \in {d[1]} \cup deps[d[1]] /\ Denotes(file, e, t.name)}) = 1

(* Constructors have their argument, integers their properties: a width    *)
(* when they are fixed and none when they are not.                         *)
WellApplied(t) == Len(t.subtypes) = IF t.type \in {"ARRAY", "OPTIONAL"} THEN 1 ELSE 0

Valid(property) ==
  \/ property.name = "bits" /\ property.type = "INT"
  \/ property.name = "encoding" /\ property.type = "STRING" /\ property.string \in {"fixed", "zigzag"}

WellEncoded(t) ==
  IF t.type \notin {"INT", "UINT"} THEN t.properties = <<>>
  ELSE LET last(name) == SelectSeq(t.properties, LAMBDA p : p.name = name)
           sized == last("bits") # <<>> /\ Last(last("bits")).number # 0
       IN  /\ \A p \in ToSet(t.properties) : Valid(p)
           /\ last("encoding") # <<>> => (Last(last("encoding")).string = "fixed") = sized

TypesWellFormed(file) ==
  \A d \in Defined(file) : \A t \in TypesAt(file, d) : WellApplied(t) /\ WellEncoded(t)

(* In a block or an enum, no number is used twice or reserved, ... *)
BlocksAt(file, d) ==
  {DeclAt(file, d).block} \cup {t.block : t \in TypesAt(file, d)}

Occurs(block, i) == block[i].is \in {"field", "value"}
NumbersFree(block) ==
  \A i, j \in DOMAIN block : Occurs(block, i) /\ i # j =>
    \/ block[j].is = "default"
    \/ Occurs(block, j) /\ block[i].fieldNumber # block[j].fieldNumber
    \/ block[j].is = "reserved" /\ block[i].fieldNumber \notin ToSet(block[j].fieldNumbers)
FieldNumbersFree(file) == \A d \in Defined(file) : \A b \in BlocksAt(file, d) : NumbersFree(b)

(* ... and no name is used twice: this, only where the code looks, which   *)
(* is not within the argument of an array or an optional.                  *)
NamesFree(block) ==
  \A i, j \in DOMAIN block :
    Occurs(block, i) /\ Occurs(block, j) /\ block[i].name = block[j].name => i = j
FieldNamesFree(file, looked(_)) ==
  \A d \in Defined(file) :
    \A b \in (IF DeclAt(file, d).is = "message" THEN looked(DeclAt(file, d).block)
              ELSE {DeclAt(file, d).block}) : NamesFree(b)

WellFormed(file, deps) ==
  /\ OnePackage(file)
  /\ FullNamesUnique(file)
  /\ MessageNumbersUnique(file)
  /\ NamesStandForOne(file, deps)
  /\ TypesWellFormed(file)
  /\ FieldNumbersFree(file)
  /\ FieldNamesFree(file, NamedBlocks)
=============================================================================
