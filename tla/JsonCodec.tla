------------------------------ MODULE JsonCodec ------------------------------
(***************************************************************************)
(* encodeJson and decodeJson (compiler/include/ao/schema/JSONBackend.h:    *)
(* 225-281): the machine with the JSON adapters as object and, as codec,   *)
(* whichever of the two codecs the stream is for; MCJsonDisk and MCJsonNet *)
(* say what those do. A document is encoded, some prefix of what was       *)
(* written arrives, and is decoded, perhaps with another schema than it    *)
(* was written with.                                                       *)
(***************************************************************************)
EXTENDS VM, JsonAdapters

CONSTANTS
  IRs,           \* name of a schema -> IR
  Jobs,          \* [schema, reader, doc]: what is encoded, by which schema, and decoded by which
  Capacities,    \* sizes of the stream written to
  Garbage,       \* what a read past a table of field numbers may find
  Unfit          \* how the run of a document that does not fit may end

(* The codec: a record of streamErr, the state of the stream, and more. *)
CONSTANTS
  NewEncoder(_),     \* an encoder for a stream of a capacity
  Tell(_, _, _, _),  \* table, encoder, instruction, machine: the encoder afterwards
  Cells(_),          \* what an encoder has written
  Cuts(_),           \* how much of it may arrive
  NewDecoder(_, _),  \* a decoder for so much of what an encoder has written
  Ask(_, _, _, _),   \* table, decoder, instruction, machine: [codec, answer]
  CodecErr(_)        \* its error, as the machine sees it

(* What is expected of them: schema, type, document and place of a value. *)
CONSTANTS
  Meets(_, _, _, _), \* whether it fits the schema
  Layout(_, _, _, _) \* and what stands for it on the wire

VARIABLES
  job,
  phase,       \* "idle", "encoding", "encoded", "refused", "overflowed", "decoding", "decoded", "failed"
  object,      \* the JSON adapter
  codec,
  capacity,    \* of the stream that is written
  kept         \* how much of the wire arrived

vars == <<vmVars, job, phase, object, codec, capacity, kept>>

(* The schema in use, its tables, and its message, which is its last type. *)
ir        == IRs[prog[1]]
table     == generateCodecTable(ir)
MessageId(schema) == Len(IRs[schema].types) - 1
document  == WithNull(job.doc)

(* The machine as the adapters see it. *)
at == [reg |-> reg, flag |-> flag,
       idx   |-> IF arrayStack = <<>> THEN 0 ELSE Top(arrayStack).idx,
       len   |-> IF arrayStack = <<>> THEN 0 ELSE Top(arrayStack).len,
       oneof |-> IF oneofStack = <<>> THEN 0 ELSE Top(oneofStack)]

(* Every document has a root, and numbers for values, and the programs are *)
(* those of the schemas that the jobs name: with an entry for every type,  *)
(* and oneofs that the schema has.                                         *)
Runnable(name, encode) ==
  LET program == Programs[<<name, encode>>]
      schema  == IRs[name]
  IN  /\ name \in DOMAIN IRs /\ <<name, encode>> \in DOMAIN Programs
      /\ Len(schema.types) \in 1..(Len(program.typeEntryPc) + 1)
      /\ \A o \in DOMAIN schema.oneOfs : schema.oneOfs[o] \in Seq(Nat)
      /\ \A i \in 1..Len(program.codeWords) :
           program.codeWords[i].op = "ONEOF_BEGIN" =>
             program.codeWords[i].imm + 1 \in DOMAIN schema.oneOfs

ASSUME JsonAssumption ==
  \A j \in Jobs :
    /\ Runnable(j.schema, TRUE) /\ Runnable(j.reader, FALSE)
    /\ IsFiniteSet(DOMAIN j.doc) /\ Root \in DOMAIN j.doc
    /\ \A p \in DOMAIN j.doc : j.doc[p].value \in Int

-----------------------------------------------------------------------------
JsonInit ==
  /\ Init
  /\ job \in Jobs
  /\ prog = <<job.schema, TRUE>>
  /\ phase = "idle"
  /\ object = EncodeAdapter
  /\ capacity \in Capacities
  /\ codec = NewEncoder(capacity)
  /\ kept = 0

encodeJson ==
  /\ phase = "idle"
  /\ Start(<<job.schema, TRUE>>, TRUE, MessageId(job.schema))
  /\ phase' = "encoding"
  /\ UNCHANGED <<job, object, codec, capacity, kept>>

(* A machine of its own, as its stacks show: the encoder left none behind. *)
decodeJson ==
  /\ phase = "encoded"
  /\ Start(<<job.reader, FALSE>>, FALSE, MessageId(job.reader))
  /\ phase' = "decoding"
  /\ object' = DecodeAdapter
  /\ kept' \in Cuts(codec)
  /\ codec' = NewDecoder(codec, kept')
  /\ UNCHANGED <<job, capacity>>

Status(o, c) == IF o.err # "Ok" THEN "ObjectError" ELSE IF CodecErr(c) # "Ok" THEN "CodecError" ELSE "Ok"

(* What the caller sees at the end of a run: the machine's error, and the  *)
(* state of the stream, which the disk encoder does not look at.           *)
Finished(done, notDone) ==
  phase' = IF running' THEN phase
           ELSE IF error' # "ObjectError" /\ codec'.streamErr = "Overflow" THEN "overflowed"
           ELSE IF error' # "Ok" THEN notDone ELSE done

Encoding ==
  /\ phase = "encoding"
  /\ LET told == IF Fetches THEN EncodeCall(ir, document, object, instr, at, U32, U64)
                 ELSE Does(object, 0)
     IN  /\ object' = told.obj
         /\ codec' = IF Fetches THEN Tell(table, codec, instr, at) ELSE codec
         /\ Step(told.answer, Status(object', codec'))
  /\ Finished("encoded", "refused")
  /\ UNCHANGED <<job, capacity, kept>>

Decoding ==
  /\ phase = "decoding"
  /\ \E garbage \in Garbage :
       LET told  == IF Fetches THEN DecodeCall(ir, object, instr, at, garbage, U64)
                    ELSE Does(object, 0)
           asked == IF Fetches THEN Ask(table, codec, instr, at)
                    ELSE [codec |-> codec, answer |-> 0]
       IN  /\ object' = told.obj
           /\ codec' = asked.codec
           /\ Step(asked.answer, Status(object', codec'))
  /\ Finished("decoded", "failed")
  /\ UNCHANGED <<job, capacity, kept>>

JsonNext == encodeJson \/ decodeJson \/ Encoding \/ Decoding
JsonSpec == JsonInit /\ [][JsonNext]_vars /\ WF_vars(Encoding \/ Decoding)

-----------------------------------------------------------------------------
JobFits(j) == Meets(IRs[j.schema], MessageId(j.schema) + 1, WithNull(j.doc), Root)
JobWire(j) == Layout(IRs[j.schema], MessageId(j.schema) + 1, WithNull(j.doc), Root)

(* encodeJson and decodeJson keep their promise: exactly the documents     *)
(* that fit their schema are encoded, into exactly what the layout says;   *)
(* the whole of it decodes to a document that it stands for as well, and   *)
(* no part of it decodes (the round trips and the malformed payloads of    *)
(* JSONCodecTests.cpp, at every length of the wire).                       *)
Contract ==
  INSTANCE JsonContract WITH
    Conforms <- JobFits, Wire <- JobWire,
    phase    <- CASE phase = "encoding" -> "idle" [] phase = "decoding" -> "sent"
                  [] OTHER -> phase,
    received <- IF phase = "decoded" THEN object.doc ELSE <<>>
KeepsContract == Contract!Spec

(* A document that was decoded is the one that was encoded, but for an     *)
(* optional without a value, which comes back as null (roundTrip of        *)
(* compiler/tests/CodecHelpers.h).                                         *)
Absent(d)  == [p \in DOMAIN d |-> IF d[p] = Object /\ Children(d, p) = {} THEN Null ELSE d[p]]
ComesBack  == phase = "decoded" => Absent(object.doc) = Absent(job.doc)

(* What was written is what the layout says, as far as it went: an         *)
(* encoded wire is complete, an overflowed one a proper prefix of it.      *)
WrittenIsPrefix ==
  /\ phase = "encoded" => Cells(codec) = JobWire(job)
  /\ phase = "overflowed" /\ JobFits(job) => IsStrictPrefix(Cells(codec), JobWire(job))

(* While a run goes on, the adapter's stack holds the pointer it began     *)
(* with and one for every field, element, arm and value that is open, and  *)
(* each of them points to a node that is still there: nothing that is      *)
(* written into the document moves what a pointer points to (m_stack of    *)
(* both adapters, which are never looked at before they are followed).     *)
PointersFollow ==
  running =>
    /\ Len(object.stack) = 1 + Cardinality({i \in DOMAIN open : open[i] \in Leaves})
    /\ \A i \in DOMAIN object.stack :
         object.stack[i] \in DOMAIN (IF phase = "encoding" THEN document ELSE object.doc)

(* The codec returns numbers, and 0 or 1 for what is a bool: the types of  *)
(* its functions (DiskDecodeCodec and NetDecodeCodec). The machine keeps   *)
(* an answer in reg or flag, where its TypeOK looks at it.                 *)
CodecAnswers ==
  (phase = "decoding" /\ Fetches) =>
    LET answer == Ask(table, codec, instr, at).answer
    IN  answer \in Int /\ (AsksFlag => answer \in {0, 1})

(* Every run ends, whatever arrived: a decoder comes to the end of what it *)
(* reads or to an error.                                                   *)
EveryRunEnds == (phase \in {"encoding", "decoding"}) ~> (phase \notin {"encoding", "decoding"})

(* The whole of what was written decodes, by the schema it was written by  *)
(* and by one that has another field in the place of one of its fields:    *)
(* that field is skipped and the next is readable (DiskCodecTests.cpp:     *)
(* 98-110, and "round trips strings", JSONCodecTests.cpp:736).             *)
WholeWireDecodes == phase = "failed" => kept < Len(JobWire(job))
=============================================================================
