----------------------------- MODULE IRGeneration -----------------------------
(***************************************************************************)
(* generateIR (compiler/src/IR.cpp): the declarations of validated modules *)
(* become the tables of IR.tla. An operator takes the context, a record of *)
(* those tables, to the context afterwards and the id it generated.        *)
(*                                                                         *)
(* A directive set holds its profiles and their properties as they are;    *)
(* the tables that number those only rename them. Values of directives are *)
(* strings: the other literals are stored without a table.                 *)
(***************************************************************************)
EXTENDS TypeProperties, IR, ResourceCache, TLC

NoMessage == [symbolId |-> 0]    \* the slot of a message that is not generated yet

(* hashed is the order in which the maps of a block are gone through. *)
NewContext(hashed) ==
  [strings |-> <<>>, directiveSets |-> <<>>, oneOfs |-> <<>>, fields |-> <<>>,
   messageKeys |-> <<>>, messages |-> <<>>, enums |-> <<>>, enumOf |-> [s \in {} |-> 0],
   types |-> <<>>, modules |-> <<>>, errors |-> {}, hashed |-> hashed]

Hashed(c, s) == IF c.hashed = "forward" THEN s ELSE Reverse(s)

(* getId of one of the caches. *)
Got(c, table, v) ==
  LET values == Intern(c[table], v)
  IN  [ctx |-> [c EXCEPT ![table] = values], id |-> IdFor(values, v)]

(* getId of the messages, by symbol: a new one gets an empty slot. *)
Slot(c, symbolId) ==
  LET keys == Intern(c.messageKeys, symbolId)
  IN  [ctx |-> [c EXCEPT !.messageKeys = keys,
                         !.messages = IF keys = c.messageKeys THEN @ ELSE Append(@, NoMessage)],
       id |-> IdFor(keys, symbolId)]

(* What is made of an id that was generated before it. *)
MadeOf(g, table, value(_)) == Got(g.ctx, table, value(g.id))

(* step for one element after the other, and the sequence of their ids. *)
ForEach(c, s, step(_, _)) ==
  LET visit(r, x) == [step(r.ctx, x) EXCEPT !.id = Append(r.id, @)]
  IN  FoldLeft(visit, [ctx |-> c, id |-> <<>>], s)

-----------------------------------------------------------------------------
profileLookup == <<"disk", "net", "cpp", "lua", "field", "message">>
Custom == Len(profileLookup) + 1

PairLess(a, b) == a[1] < b[1] \/ (a[1] = b[1] /\ a[2] < b[2])

(* A tag and its value, as <<string id, string id>>. *)
GenProperty(c, property) ==
  LET name  == Got(c, "strings", property[1])
      value == Got(name.ctx, "strings", property[2])
  IN  [value EXCEPT !.id = <<name.id, @>>]

GenProfile(c, profile, properties) ==
  LET known == Stored(profileLookup, profile)
      named == IF known THEN [ctx |-> c, id |-> 0] ELSE Got(c, "strings", profile)
      props == ForEach(named.ctx, properties, GenProperty)
  IN  [props EXCEPT !.id = [domain      |-> IF known THEN IdFor(profileLookup, profile) ELSE Custom,
                            profileName |-> named.id,
                            properties  |-> SortSeq(@, PairLess)]]

GenDirectives(c, effective) ==
  LET profiles == ForEach(c, Hashed(c, SetToSeq(DOMAIN effective)),
                          LAMBDA ctx, p : GenProfile(ctx, p, effective[p]))
      less(a, b) == PairLess(<<a.domain, a.profileName>>, <<b.domain, b.profileName>>)
  IN  MadeOf(profiles, "directiveSets", LAMBDA s : SortSeq(s, less))

-----------------------------------------------------------------------------
RECURSIVE GenType(_, _, _), GenField(_, _, _)

(* generateIR of a field, and of an arm of a oneof. *)
GenField(c, def, field) ==
  LET name == Got(c, "strings", field.name)
      type == GenType(name.ctx, def, field.typeName)
  IN  MadeOf(GenDirectives(type.ctx, field.effective), "fields",
             LAMBDA directives : [name |-> name.id, fieldNumber |-> field.fieldNumber,
                                  type |-> type.id, directives |-> directives])

(* Mutant: the arms in the order of the hash map. *)
GenArmsAsHashed(c, def, block) ==
  MadeOf(ForEach(c, Hashed(c, Fields(block)), LAMBDA ctx, f : GenField(ctx, def, f)),
         "oneOfs", LAMBDA ids : ids)

(* Its arms by number, whatever order they were generated in. *)
GenArms(c, def, block) ==
  LET arms == Hashed(c, Fields(block))
      made == ForEach(c, arms, LAMBDA ctx, f : GenField(ctx, def, f))
      less(a, b) == a[1] < b[1]
      byNumber(ids) == SortSeq([i \in DOMAIN arms |-> <<arms[i].fieldNumber, ids[i]>>], less)
  IN  MadeOf(made, "oneOfs", LAMBDA ids : [i \in DOMAIN arms |-> byNumber(ids)[i][2]])

(* def takes the names of the module to the symbols they were resolved to. *)
GenType(c, def, t) ==
  LET within(g, type(_)) == MadeOf(g, "types", type)
      list(id) == Array(id, 0)
  IN  CASE t.type = "BOOL"            -> Got(c, "types", Scalar("BOOL", 1))
        [] t.type \in {"INT", "UINT"} -> Got(c, "types", Scalar(t.type, BitsOf(t)))
        [] t.type = "F32"             -> Got(c, "types", Scalar("F32", 32))
        [] t.type = "F64"             -> Got(c, "types", Scalar("F64", 64))
        [] t.type = "STRING"          -> within(Got(c, "types", Scalar("CHAR", 8)), list)
        [] t.type = "BYTES"           -> within(Got(c, "types", Scalar("BYTE", 8)), list)
        [] t.type = "ARRAY"           -> within(GenType(c, def, t.subtypes[1]), list)
        [] t.type = "OPTIONAL"        -> within(GenType(c, def, t.subtypes[1]), Optional)
        [] t.type = "ONEOF"           -> within(GenArms(c, def, t.block), OneOf)
        [] t.type = "USER" /\ t.name \notin DOMAIN def ->
             Got([c EXCEPT !.errors = @ \cup {"INTERNAL"}], "types", Scalar("UINT", 0))
        [] t.type = "USER" /\ t.name \in DOMAIN def ->
             IF def[t.name] \in DOMAIN c.enumOf
             THEN Got(c, "types", Enum(c.enumOf[def[t.name]]))
             ELSE within(Slot(c, def[t.name]), Message)

-----------------------------------------------------------------------------
Filled(slot, message) == [slot.ctx EXCEPT !.messages[slot.id] = message]

(* Mutant: the message is a type before its fields have theirs. *)
GenMessageTypeFirst(c, def, message, fqn, symbolId) ==
  LET name       == Got(c, "strings", fqn)
      directives == GenDirectives(name.ctx, message.effective)
      slot       == Slot(directives.ctx, symbolId)
      typed      == Got(slot.ctx, "types", Message(slot.id))
      made       == ForEach(typed.ctx, Fields(message.block),
                            LAMBDA ctx, f : GenField(ctx, def, f))
  IN  [ctx |-> Filled([slot EXCEPT !.ctx = made.ctx],
                      [name |-> name.id, symbolId |-> symbolId, messageNumber |-> message.messageId,
                       fields |-> made.id, directives |-> directives.id]),
       id |-> slot.id]

(* generateIR of a message: its slot is filled, and it is a type. *)
GenMessage(c, def, message, fqn, symbolId) ==
  LET name       == Got(c, "strings", fqn)
      directives == GenDirectives(name.ctx, message.effective)
      made       == ForEach(directives.ctx, Fields(message.block),
                            LAMBDA ctx, f : GenField(ctx, def, f))
      typed(slot, m) == [slot EXCEPT !.ctx = Got(Filled(slot, m), "types", Message(slot.id)).ctx]
  IN  typed(Slot(made.ctx, symbolId),
            [name |-> name.id, symbolId |-> symbolId, messageNumber |-> message.messageId,
             fields |-> made.id, directives |-> directives.id])

(* generateIR of an enum: from now on its symbol is known to be one. *)
GenEnum(c, enum, fqn, symbolId) ==
  LET named(ctx, v) == LET g == Got(ctx, "strings", v.name)
                       IN  [ctx |-> g.ctx, id |-> <<v.fieldNumber, g.id>>]
      values     == ForEach(c, Only(enum.block, {"value"}), named)
      name       == Got(values.ctx, "strings", fqn)
      directives == GenDirectives(name.ctx, enum.effective)
      made       == Got(directives.ctx, "enums",
                        [name |-> name.id, fields |-> SortSeq(values.id, PairLess),
                         directives |-> directives.id])
  IN  [made EXCEPT !.ctx.enumOf = (symbolId :> made.id) @@ @]
=============================================================================
