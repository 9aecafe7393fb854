------------------------------- MODULE CppDisk -------------------------------
(***************************************************************************)
(* encodeCpp and decodeCpp over byte streams (cli/tests/CppTestHelpers.h): *)
(* the machine with the adapters of generated C++ types as object and the  *)
(* disk codec. An object is encoded, some prefix of what was written       *)
(* arrives, and is decoded into an object that may have been used before.  *)
(***************************************************************************)
EXTENDS VM, CppObjects, DiskCodec

CONSTANTS
  IRs,           \* name of a schema -> IR
  Jobs,          \* [schema, doc, target]: what is encoded, and what it is decoded into
  Capacities,    \* sizes of the stream written to
  Garbage        \* what a read past the table of field numbers may find

VARIABLES
  job,
  phase,       \* "idle", "encoding", "encoded", "refused", "overflowed", "crashed", "decoding",
               \* "decoded" or "failed"
  object,      \* the C++ adapter
  codec,
  capacity,    \* of the stream that is written
  kept         \* how much of the wire arrived

vars == <<vmVars, job, phase, object, codec, capacity, kept>>

(* The schema, its tables, and its message, which is its last type. *)
ir        == IRs[job.schema]
table     == generateCodecTable(ir)
RootOf(s) == Len(IRs[s].types)

(* The machine as the adapters see it. *)
at == [reg |-> reg, flag |-> flag,
       idx   |-> IF arrayStack = <<>> THEN 0 ELSE Top(arrayStack).idx,
       len   |-> IF arrayStack = <<>> THEN 0 ELSE Top(arrayStack).len,
       oneof |-> IF oneofStack = <<>> THEN 0 ELSE Top(oneofStack)]

-----------------------------------------------------------------------------
CppInit ==
  /\ Init
  /\ job \in Jobs
  /\ prog = <<job.schema, TRUE>>
  /\ phase = "idle"
  /\ object = EncodeRoot(RootOf(job.schema))
  /\ capacity \in Capacities
  /\ codec = Encoder(capacity)
  /\ kept = 0

encodeCpp ==
  /\ phase = "idle"
  /\ Start(<<job.schema, TRUE>>, TRUE, RootOf(job.schema) - 1)
  /\ phase' = "encoding"
  /\ UNCHANGED <<job, object, codec, capacity, kept>>

decodeCpp ==
  /\ phase = "encoded"
  /\ Start(<<job.schema, FALSE>>, FALSE, RootOf(job.schema) - 1)
  /\ phase' = "decoding"
  /\ object' = DecodeRoot(RootOf(job.schema), job.target)
  /\ kept' \in 0..Len(codec.cells)
  /\ codec' = Decoder(SubSeq(codec.cells, 1, kept'))
  /\ UNCHANGED <<job, capacity>>

Status(o, c) == IF o.err # "Ok" THEN "ObjectError" ELSE IF c.err # "Ok" THEN "CodecError" ELSE "Ok"

(* What the caller sees: the error of the machine and, after encoding, the *)
(* state of the stream, which the codec does not look at.                  *)
Finished(done, notDone) ==
  phase' = IF running' THEN phase
           ELSE IF error' # "ObjectError" /\ codec'.streamErr = "Overflow" THEN "overflowed"
           ELSE IF error' # "Ok" THEN notDone ELSE done

(* The codec writes the number of the arm before the object is asked for   *)
(* the arm; that of an unset variant is far behind the table.              *)
PastTable ==
  At({"C_WRITE_ONEOF_ARM"}) /\ table.oneofs[at.oneof + 1].fieldStart + reg >= Len(table.oneofFieldNumbers)

Encoding ==
  /\ phase = "encoding"
  /\ \E garbage \in Garbage :
       LET told == IF Fetches THEN EncodeAsks(ir, job.doc, object, instr, at, U32, U64)
                   ELSE Does(object, 0)
       IN  /\ object' = told.obj
           /\ codec' = IF PastTable THEN Writing(codec, <<garbage>>)
                       ELSE IF Fetches THEN DiskEncode(table, codec, instr, at, U64) ELSE codec
           /\ Step(told.answer, Status(object', codec'))
  /\ Finished("encoded", "refused")
  /\ UNCHANGED <<job, capacity, kept>>

(* Or the read faults. *)
Crash ==
  /\ phase = "encoding" /\ PastTable
  /\ phase' = "crashed"
  /\ UNCHANGED <<vmVars, job, object, codec, capacity, kept>>

Decoding ==
  /\ phase = "decoding"
  /\ LET told  == IF Fetches THEN DecodeAsks(ir, object, instr, at, U32, U64) ELSE Does(object, 0)
         asked == IF Fetches THEN DiskDecode(table, codec, instr, at, U32, U64) ELSE Gives(codec, 0)
     IN  /\ object' = told.obj
         /\ codec' = asked.codec
         /\ Step(asked.answer, Status(object', codec'))
  /\ Finished("decoded", "failed")
  /\ UNCHANGED <<job, capacity, kept>>

CppNext == encodeCpp \/ decodeCpp \/ Encoding \/ Crash \/ Decoding
CppSpec == CppInit /\ [][CppNext]_vars

-----------------------------------------------------------------------------
(* The document that JSON has for an object: a variant is a case and a     *)
(* value, and none of them when it is unset.                               *)
RECURSIVE Document(_, _, _, _)
Document(s, t, d, p) ==
  LET type == s.types[t]
      Below(u, q) == Document(s, u, d, q)
      WithField(doc, f) == doc @@ Below(s.fields[f].type, Child(p, s.fields[f].name))
      WithElem(doc, q)  == doc @@ Below(type.of, q)
      WithChar(doc, q)  == doc @@ (q :> Node("char", d[q].value))
      arm == d[p].value
  IN  CASE type.kind = "Message"  -> FoldLeft(WithField, p :> Object, s.messages[type.of])
        [] type.kind = "Array"    ->
             IF IsString(s, t) THEN FoldSet(LAMBDA q, doc : WithChar(doc, q), p :> Node("string", 0), Children(d, p))
             ELSE FoldSet(LAMBDA q, doc : WithElem(doc, q), p :> List, Children(d, p))
        [] type.kind = "Optional" ->
             (p :> Object) @@ IF Has(d, p, "value") THEN Below(type.of, Child(p, "value")) ELSE <<>>
        [] type.kind = "OneOf"    ->
             (p :> Object)
               @@ IF arm = 0 THEN <<>>
                  ELSE (Child(p, "case") :> Node("number", fieldNumbers(s, type.of)[arm]))
                         @@ Below(s.fields[s.oneOfs[type.of][arm]].type, Child(p, "value"))
        [] type.scalar = "BOOL"         -> p :> Node("bool", arm)
        [] type.scalar \in {"F32", "F64"} -> p :> Node("float", arm)
        [] OTHER                        -> p :> Node("number", arm)

DocumentOf(j) == Document(IRs[j.schema], RootOf(j.schema), j.doc, Root)
AllSet(j)     == Fits(IRs[j.schema], RootOf(j.schema), WithNull(DocumentOf(j)), Root)
JobWire(j)    == Bytes(IRs[j.schema], RootOf(j.schema), DocumentOf(j), Root)

(* encodeCpp and decodeCpp keep the promise of encodeJson and decodeJson,  *)
(* on the very same wire: an object becomes what stands for the document   *)
(* that JSON has for it, and comes back whatever the object it is decoded  *)
(* into held before; one with an unset variant never becomes a wire, and   *)
(* no part of a wire decodes (cppRoundTrip of cli/tests/CppTestHelpers.h,  *)
(* the accessors' has_value, index and size checks).                       *)
Contract ==
  INSTANCE JsonContract WITH
    Conforms <- AllSet, Wire <- JobWire, Unfit <- {"refused", "crashed", "overflowed"},
    phase    <- CASE phase = "encoding" -> "idle" [] phase = "decoding" -> "sent"
                  [] OTHER -> phase,
    received <- IF phase = "decoded" THEN object.data ELSE <<>>
KeepsContract == Contract!Spec

(* A frame points to an object that is there and is of its type: one       *)
(* member, element, value or arm deeper than the frame below it, and one   *)
(* frame for each that is open. Emplacing, resetting or resizing never     *)
(* takes an object away from under a frame (runtime.stack of CppAdapter.h, *)
(* which holds raw pointers into vectors, optionals and variants).         *)
Data == IF phase = "decoding" THEN object.data ELSE job.doc
FramesPointTo ==
  object.err = "Ok" /\ running =>
    /\ Len(object.stack) = 1 + Cardinality({i \in DOMAIN open : open[i] \in Leaves})
    /\ \A i \in DOMAIN object.stack : object.stack[i].at \in DOMAIN Data
    /\ \A i \in 2..Len(object.stack) :
         object.stack[i].at \in Children(Data, object.stack[i - 1].at)

(* Encoding and decoding of the whole wire end with nothing left to read   *)
(* (rs.remainingBytes() == 0, cli/tests/CppTestHelpers.h:98), and only the *)
(* object that was encoded stands in the target then, member by member.    *)
RoundTrips ==
  phase = "decoded" => object.data = job.doc /\ codec.pos = Len(codec.cells)
=============================================================================
