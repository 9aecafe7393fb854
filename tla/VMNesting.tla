------------------------------ MODULE VMNesting ------------------------------
(***************************************************************************)
(* What the machine takes for granted of a program, and never checks. The  *)
(* code generator (compiler/src/VM.cpp) writes routines in which every     *)
(* BEGIN has its END behind it in the text, and whose jumps stay at their  *)
(* depth; WellNested says so of the code words. What the machine does with a   *)
(* nested program, the module VMProofs proves.                             *)
(***************************************************************************)
EXTENDS VM, SequencesExt

CONSTANT Direction   \* what each program was generated for: encoding or not

Code(p)    == Programs[p].codeWords
Op(p, at)  == Code(p)[at + 1].op
Imm(p, at) == Code(p)[at + 1].imm

(* Where an instruction is, and not a data word. *)
Places(p) == {at \in 0..(Len(Code(p)) - 1) : Op(p, at) # "WORD"}
Main      == {0, 1}
Entries(p) == {Programs[p].typeEntryPc[t] : t \in DOMAIN Programs[p].typeEntryPc}

(* What is open at each place, by the text of its routine. *)
Opened(before, word) ==
  CASE word.op \in Begins -> Append(before, Ending[word.op])
    [] word.op \in Ends /\ before # <<>> -> Pop(before)
    [] OTHER -> before
Opens ==
  [p \in DOMAIN Programs |->
     FoldLeft(LAMBDA opens, word : Append(opens, Opened(Top(opens), word)), << <<>> >>, Code(p))]
Around(p, at) == Opens[p][at + 1]

Within(p, at, end) == Around(p, at) # <<>> /\ Top(Around(p, at)) = end

-----------------------------------------------------------------------------
(* Where an instruction goes on, a call when it is back. The entry of a    *)
(* jump table is chosen as TableIndex does, by a register of 32 bits.      *)
TableEntries(p, at) == IF Imm(p, at) = 0 THEN {0} ELSE 1..Imm(p, at)
Successors(p, at) ==
  CASE Op(p, at) = "JMP"            -> {at + Imm(p, at)}
    [] Op(p, at) = "JZ"             -> {at + 1, at + Imm(p, at)}
    [] Op(p, at) = "DISPATCH"       -> {at + Imm(p, at + i) : i \in TableEntries(p, at)}
    [] Op(p, at) \in {"HALT", "RET"} -> {}
    [] OTHER                        -> {at + 1}

(* What is open after it. *)
After(p, at) ==
  CASE Op(p, at) \in Begins -> Append(Around(p, at), Ending[Op(p, at)])
    [] Op(p, at) \in Ends   -> Pop(Around(p, at))
    [] OTHER                -> Around(p, at)

(* The ops that look at the innermost array, or at the innermost oneof.    *)
ArrayOps == {"O_READ_ARRAY_LEN", "C_READ_ARRAY_LEN", "C_WRITE_ARRAY_LEN", "O_WRITE_ARRAY_LEN",
             "ARRAY_NEXT", "ARRAY_ELEM_BEGIN"}
OneOfOps == {"O_READ_ONEOF_ARM", "C_READ_ONEOF_ARM", "C_WRITE_ONEOF_ARM", "O_WRITE_ONEOF_ARM",
             "ONEOF_ARM_BEGIN"}

(* Between the reading of an arm and its dispatch. *)
ArmKnown == {"C_WRITE_ONEOF_ARM", "O_WRITE_ONEOF_ARM", "ONEOF_ARM_BEGIN", "DISPATCH"}

(* The readers of numbers of a direction: the first may fill the register. *)
Readers(encode) ==
  IF encode THEN {"O_READ_SCALAR", "O_READ_ONEOF_ARM", "O_READ_ARRAY_LEN"}
  ELSE {"C_READ_SCALAR", "C_READ_ONEOF_ARM", "C_READ_ARRAY_LEN"}

(* Looping over an array: the index has been compared. *)
LoopTest(p, at) == Op(p, at) = "JZ" /\ Within(p, at, "ARRAY_END")

-----------------------------------------------------------------------------
(* generateVMMain: call the type in the register, and stop. *)
MainNested(p) ==
  /\ Main \subseteq Places(p)
  /\ Op(p, 0) = "CALL_TYPE_INDIRECT" /\ Op(p, 1) = "HALT"
  /\ \A at \in Main : Around(p, at) = <<>>

(* A type begins at depth 0, outside of main. *)
EntriesNested(p) ==
  \A at \in Entries(p) :
    at \in Places(p) \ Main /\ Around(p, at) = <<>> /\ Op(p, at) \notin ArmKnown

(* The instruction may stand where it does. *)
InPlace(p, at) ==
  LET op == Op(p, at)
  IN  /\ Around(p, at) \in Seq(Ends)
      /\ op \notin {"CALL_TYPE_INDIRECT", "HALT"}
      /\ op \notin Unknown \cup RefusedBy(Direction[p]) \cup Readers(~ Direction[p])
      /\ op \in Ends     => Within(p, at, op)
      /\ op \in ArrayOps => Within(p, at, "ARRAY_END")
      /\ op \in OneOfOps => Within(p, at, "ONEOF_END")
      /\ op = "RET"      => Around(p, at) = <<>>
      /\ op = "CALL_TYPE"   => Imm(p, at) + 1 \in DOMAIN Programs[p].typeEntryPc
      /\ op = "ONEOF_BEGIN" => Imm(p, at) \in Nat
      /\ op = "DISPATCH"    => Imm(p, at) \in Nat /\ at + Imm(p, at) < Len(Code(p))

(* It leads to places of its routine where just that is open which it      *)
(* leaves open, to a dispatch only with an arm in the register, and to an  *)
(* element only from the test of the loop.                                 *)
LeadsOn(p, at) ==
  \A next \in Successors(p, at) :
    /\ next \in Places(p) \ Main
    /\ Around(p, next) = After(p, at)
    /\ Op(p, next) \in ArmKnown =>
         \/ Op(p, at) \in Readers(Direction[p]) \ {"O_READ_SCALAR", "C_READ_SCALAR"}
         \/ Op(p, at) \in ArmKnown \ {"DISPATCH"}
    /\ Op(p, next) = "ARRAY_ELEM_BEGIN" => LoopTest(p, at) /\ next # at + Imm(p, at)
    /\ LoopTest(p, next) => Op(p, at) = "ARRAY_NEXT"

WellNested(p) ==
  /\ Direction[p] \in BOOLEAN
  /\ Len(Code(p)) \in Nat
  /\ Programs[p].typeEntryPc \in Seq(Nat) /\ Len(Programs[p].typeEntryPc) < U32
  /\ Code(p) # <<>> => MainNested(p)
  /\ EntriesNested(p)
  /\ \A at \in Places(p) \ Main : InPlace(p, at) /\ LeadsOn(p, at)

(* Every generated program is nested, in both directions and for every     *)
(* kind of type (compiler/src/VM.cpp).                                     *)
ProgramsNested == \A p \in DOMAIN Programs : WellNested(p)

(* What may stand directly inside of an array, between its elements. *)
InArray == {"O_READ_ARRAY_LEN", "C_WRITE_ARRAY_LEN", "C_READ_ARRAY_LEN", "O_WRITE_ARRAY_LEN",
            "ARRAY_NEXT", "JZ", "ARRAY_ELEM_BEGIN", "JMP", "ARRAY_END"}

(* An array decodes as ArrayCode writes it: its length is read at once and *)
(* given to the object at once, and nothing else comes between elements.   *)
ArraysDecode(p) ==
  \A at \in Places(p) \ Main :
    /\ Within(p, at, "ARRAY_END") => Op(p, at) \in InArray
    /\ \A next \in Successors(p, at) :
         /\ Op(p, at) = "ARRAY_ELEM_END" => Within(p, next, "ARRAY_END")
         /\ Op(p, next) = "C_READ_ARRAY_LEN"  <=> Op(p, at) = "ARRAY_BEGIN"
         /\ Op(p, next) = "O_WRITE_ARRAY_LEN" <=> Op(p, at) = "C_READ_ARRAY_LEN"
ProgramsDecode == \A p \in DOMAIN Programs : ~ Direction[p] => ArraysDecode(p)

-----------------------------------------------------------------------------
(* What a generated program, run in its own direction, never does: meet an *)
(* instruction of the other direction or one without a case, run off its   *)
(* end, or return from nothing. Only a type that it does not have stops    *)
(* it, at once.                                                            *)
ProgramsRun ==
  (encodeMode = Direction[prog] /\ code # <<>>) =>
    /\ error \notin {"InvalidInstr", "StackUnderflow"}
    /\ error = "RuntimeError" => pc = 0 /\ reg >= Len(entries)

-----------------------------------------------------------------------------
(* Where the k-th call of this run returns to, counted from main. *)
ReturnOf(k) == callStack[leftover.calls + k]

(* What the adapters have open, from one depth to another, is s. *)
Spans(from, to, s) == to = from + Len(s) /\ \A i \in DOMAIN s : open[from + i] = s[i]

(* What is open is what main has open, then what every routine has that    *)
(* called, then what this one has: base[k] is how much was open when the   *)
(* k-th call was made.                                                     *)
CallsNest(base) ==
  /\ base[0] = 0
  /\ \A k \in 1..stackDepth :
       /\ ReturnOf(k) \in Places(prog)
       /\ ReturnOf(k) \in Main <=> k = 1
       /\ Op(prog, ReturnOf(k)) \notin ArmKnown \cup {"ARRAY_ELEM_BEGIN"}
       /\ ~ LoopTest(prog, ReturnOf(k))
       /\ Spans(base[k - 1], base[k], Around(prog, ReturnOf(k)))
  /\ Spans(base[stackDepth], Len(open), Around(prog, pc))

(* The index of the innermost array is that of an element. *)
AtElement == arrayStack # <<>> /\ Top(arrayStack).idx < Top(arrayStack).len

(* The machine is where its program expects it to be. *)
InStep ==
  /\ pc \in Places(prog)
  /\ pc \in Main <=> stackDepth = 0
  /\ Op(prog, pc) \in ArmKnown \/ encodeMode # Direction[prog] => reg < U32
  /\ LoopTest(prog, pc) /\ flag = 1 => AtElement
  /\ Op(prog, pc) = "ARRAY_ELEM_BEGIN" => AtElement

=============================================================================
