--------------------------------- MODULE VM ---------------------------------
(***************************************************************************)
(* The virtual machine that encodes and decodes (runInstr and runVM of     *)
(* compiler/include/ao/schema/VM.h). It walks a program and drives two     *)
(* adapters, the object (JSON, C++) and the codec (disk, net): it tells    *)
(* them what begins and what ends, reads lengths, arms, presence and       *)
(* matches from one and hands them to the other.                           *)
(*                                                                         *)
(* The adapters are the environment: whatever the instruction reads from   *)
(* them is its answer, and status says whether both are still ok           *)
(* afterwards. Here every answer is possible; JsonCodec puts the adapters  *)
(* of the code in their place.                                             *)
(***************************************************************************)
EXTENDS Integers, Sequences, FiniteSets

CONSTANTS
  Programs,   \* the programs that can be run: name -> codeWords and typeEntryPc
  U32,        \* how many values a uint32_t has
  U64,        \* how many values a uint64_t has
  Lengths,    \* array lengths an adapter may answer
  Arms,       \* oneof arms an adapter may answer
  MaxRuns,    \* bound: how often the machine is started
  Reused      \* bound: the programs it is started with after the first

ASSUME VMAssumption ==
  /\ U32 \in Nat \ {0} /\ U64 \in Nat \ {0} /\ U32 < U64
  /\ Lengths \subseteq 0..(U32 - 1) /\ Arms \subseteq 0..(U32 - 1)
  /\ MaxRuns \in Nat /\ Reused \subseteq DOMAIN Programs

VARIABLES
  prog,           \* the name of the program
  encodeMode,     \* the template argument of runVM
  running,        \* between the reset of runVM and its return
  pc, flag, reg, stackDepth,
  callStack,      \* return addresses
  arrayStack,     \* length and index of every array entered
  optionalStack,  \* one frame per optional entered
  oneofStack,     \* the oneofs entered
  error,          \* VM::error
  open,           \* what the adapters have been told begins, and not that it ended
  leftover,       \* how many frames each stack held when this run began
  runs            \* how often the machine was started

stacks    == <<callStack, arrayStack, optionalStack, oneofStack, stackDepth>>
registers == <<flag, reg>>
vmVars    == <<prog, encodeMode, running, pc, registers, stacks, error, open, leftover, runs>>

code    == Programs[prog].codeWords
entries == Programs[prog].typeEntryPc

(* Fetch. The program counter counts from 0. *)
Fetches  == running /\ pc < Len(code)
instr    == code[pc + 1]
At(ops)  == Fetches /\ instr.op \in ops

-----------------------------------------------------------------------------
(* An instruction ends: the adapters are asked, object first, and the      *)
(* program goes on only when both are ok.                                  *)
Proceed(next, status) ==
  \/ /\ status = "Ok"
     /\ pc' = next
     /\ UNCHANGED <<error, running>>
  \/ /\ status # "Ok"
     /\ error' = status
     /\ running' = FALSE
     /\ UNCHANGED pc

Fail(e) == error' = e /\ running' = FALSE /\ UNCHANGED pc

Top(s)  == s[Len(s)]
Pop(s)   == SubSeq(s, 1, Len(s) - 1)
SetTop(s, x) == [s EXCEPT ![Len(s)] = x]

(* What the adapters are told: every BEGIN waits for its END. *)
Ending ==
  [MSG_BEGIN |-> "MSG_END", FIELD_BEGIN |-> "FIELD_END", OPT_BEGIN |-> "OPT_END",
   OPT_BEGIN_VALUE |-> "OPT_END_VALUE", ONEOF_BEGIN |-> "ONEOF_END",
   ONEOF_ARM_BEGIN |-> "ONEOF_ARM_END", ARRAY_BEGIN |-> "ARRAY_END",
   ARRAY_ELEM_BEGIN |-> "ARRAY_ELEM_END"]
Begins == DOMAIN Ending
Ends   == {Ending[b] : b \in Begins}
Begin  == open' = Append(open, Ending[instr.op])
End    == open' = Pop(open)

-----------------------------------------------------------------------------
(* runVM: reset clears the registers and leaves the stacks as they are.    *)
Start(program, encode, typeId) ==
  /\ ~ running /\ runs < MaxRuns
  /\ runs' = runs + 1
  /\ prog' = program
  /\ encodeMode' = encode
  /\ running' = TRUE
  /\ pc' = 0 /\ flag' = 0 /\ stackDepth' = 0 /\ error' = "Ok"
  /\ reg' = typeId
  /\ open' = <<>>
  /\ leftover' = [calls |-> Len(callStack), arrays |-> Len(arrayStack),
                  optionals |-> Len(optionalStack), oneofs |-> Len(oneofStack)]
  /\ UNCHANGED <<callStack, arrayStack, optionalStack, oneofStack>>

(* Past the last word. *)
RunsOff ==
  /\ running /\ pc >= Len(code)
  /\ Fail("RuntimeError")
  /\ UNCHANGED <<prog, encodeMode, registers, stacks, open, leftover, runs>>

Halt ==
  /\ At({"HALT"})
  /\ running' = FALSE
  /\ UNCHANGED <<prog, encodeMode, pc, registers, stacks, error, open, leftover, runs>>

Jump(status) ==
  /\ \/ At({"JMP"}) /\ Proceed(pc + instr.imm, status)
     \/ At({"JZ"}) /\ Proceed(IF flag = 0 THEN pc + instr.imm ELSE pc + 1, status)
  /\ UNCHANGED <<prog, encodeMode, registers, stacks, open, leftover, runs>>

Ret(status) ==
  /\ At({"RET"})
  /\ \/ /\ callStack = <<>>
        /\ Fail("StackUnderflow")
        /\ UNCHANGED stacks
     \/ /\ callStack # <<>>
        /\ Proceed(Top(callStack), status)
        /\ callStack' = Pop(callStack)
        /\ stackDepth' = stackDepth - 1
        /\ UNCHANGED <<arrayStack, optionalStack, oneofStack>>
  /\ UNCHANGED <<prog, encodeMode, registers, open, leftover, runs>>

(* The frame is pushed before the register is checked. *)
Call(status) ==
  /\ \/ At({"CALL_TYPE"}) /\ Proceed(entries[instr.imm + 1], status)
     \/ /\ At({"CALL_TYPE_INDIRECT"}) /\ reg < Len(entries)
        /\ Proceed(entries[reg + 1], status)
     \/ /\ At({"CALL_TYPE_INDIRECT"}) /\ reg >= Len(entries)
        /\ Fail("RuntimeError")
  /\ callStack' = Append(callStack, pc + 1)
  /\ stackDepth' = stackDepth + 1
  /\ UNCHANGED <<prog, encodeMode, registers, arrayStack, optionalStack, oneofStack,
                 open, leftover, runs>>

(* The table entry that Dispatch takes: the arm's, or that of the last arm *)
(* when the register is out of range. The word of the fail label lies      *)
(* one further.                                                            *)
TableIndex ==
  LET beyond == (reg + 1) % U64 IN IF beyond < instr.imm THEN beyond ELSE instr.imm

Dispatch(status) ==
  /\ At({"DISPATCH"})
  /\ \/ /\ pc + TableIndex >= Len(code)
        /\ Fail("RuntimeError")
     \/ /\ pc + TableIndex < Len(code)
        /\ Proceed(pc + code[pc + TableIndex + 1].imm, status)
  /\ UNCHANGED <<prog, encodeMode, registers, stacks, open, leftover, runs>>

-----------------------------------------------------------------------------
(* Frames. back() and pop_back() of an empty stack are undefined: the      *)
(* conjuncts that ask for a frame are no guards of the code, and           *)
(* FramesMatch is what makes them true.                                    *)
Enter(status) ==
  /\ \/ /\ At({"MSG_BEGIN", "FIELD_BEGIN", "OPT_BEGIN_VALUE"})
        /\ UNCHANGED stacks
     \/ /\ At({"ONEOF_ARM_BEGIN"}) /\ oneofStack # <<>>
        /\ UNCHANGED stacks
     \/ /\ At({"ARRAY_ELEM_BEGIN"}) /\ arrayStack # <<>>
        /\ UNCHANGED stacks
     \/ /\ At({"OPT_BEGIN"})
        /\ optionalStack' = Append(optionalStack, 0)
        /\ UNCHANGED <<callStack, stackDepth, arrayStack, oneofStack>>
     \/ /\ At({"ONEOF_BEGIN"})
        /\ oneofStack' = Append(oneofStack, instr.imm)
        /\ UNCHANGED <<callStack, stackDepth, arrayStack, optionalStack>>
     \/ /\ At({"ARRAY_BEGIN"})
        /\ arrayStack' = Append(arrayStack, [len |-> 0, idx |-> U32 - 1])
        /\ UNCHANGED <<callStack, stackDepth, optionalStack, oneofStack>>
  /\ Begin
  /\ Proceed(pc + 1, status)
  /\ UNCHANGED <<prog, encodeMode, registers, leftover, runs>>

(* A mutant: the frame of a oneof stays. *)
ExitKeepsOneof(status) ==
  /\ \/ /\ At({"MSG_END", "FIELD_END", "OPT_END_VALUE", "ONEOF_ARM_END", "ARRAY_ELEM_END",
              "ONEOF_END"})
        /\ UNCHANGED stacks
     \/ /\ At({"OPT_END"}) /\ optionalStack # <<>>
        /\ optionalStack' = Pop(optionalStack)
        /\ UNCHANGED <<callStack, stackDepth, arrayStack, oneofStack>>
     \/ /\ At({"ARRAY_END"}) /\ arrayStack # <<>>
        /\ arrayStack' = Pop(arrayStack)
        /\ UNCHANGED <<callStack, stackDepth, optionalStack, oneofStack>>
  /\ End
  /\ Proceed(pc + 1, status)
  /\ UNCHANGED <<prog, encodeMode, registers, leftover, runs>>

Exit(status) ==
  /\ \/ /\ At({"MSG_END", "FIELD_END", "OPT_END_VALUE", "ONEOF_ARM_END", "ARRAY_ELEM_END"})
        /\ UNCHANGED stacks
     \/ /\ At({"OPT_END"}) /\ optionalStack # <<>>
        /\ optionalStack' = Pop(optionalStack)
        /\ UNCHANGED <<callStack, stackDepth, arrayStack, oneofStack>>
     \/ /\ At({"ONEOF_END"}) /\ oneofStack # <<>>
        /\ oneofStack' = Pop(oneofStack)
        /\ UNCHANGED <<callStack, stackDepth, arrayStack, optionalStack>>
     \/ /\ At({"ARRAY_END"}) /\ arrayStack # <<>>
        /\ arrayStack' = Pop(arrayStack)
        /\ UNCHANGED <<callStack, stackDepth, optionalStack, oneofStack>>
  /\ End
  /\ Proceed(pc + 1, status)
  /\ UNCHANGED <<prog, encodeMode, registers, leftover, runs>>

(* Mutants: the index in a wider type, or in a narrower one than the       *)
(* length; the element behind the last one.                                *)
NextIndexUnwrapped(idx) == idx + 1
NextIndexNarrow(idx)    == (idx + 1) % 2
MoreElementsInclusive(idx, len) == IF idx <= len THEN 1 ELSE 0

(* The index starts at uint32_t(-1): the first step wraps it to 0. *)
NextIndex(idx)         == (idx + 1) % U32
MoreElements(idx, len) == IF idx < len THEN 1 ELSE 0

ArrayNext(status) ==
  /\ At({"ARRAY_NEXT"}) /\ arrayStack # <<>>
  /\ LET frame == Top(arrayStack)
         idx   == NextIndex(frame.idx)
     IN  /\ arrayStack' = SetTop(arrayStack, [frame EXCEPT !.idx = idx])
         /\ flag' = MoreElements(idx, frame.len)
  /\ Proceed(pc + 1, status)
  /\ UNCHANGED <<prog, encodeMode, reg, callStack, stackDepth, optionalStack, oneofStack,
                 open, leftover, runs>>

-----------------------------------------------------------------------------
(* Instructions of one mode that the other mode refuses, and those that it *)
(* passes over.                                                            *)
RefusedBy(encode) ==
  IF encode
  THEN {"C_READ_SCALAR", "C_READ_OPT_PRESENT", "O_WRITE_OPT_PRESENT", "O_WRITE_ARRAY_LEN"}
  ELSE {"C_WRITE_SCALAR", "C_WRITE_OPT_PRESENT"}
Refused == RefusedBy(encodeMode)
PassedOver ==
  IF encodeMode
  THEN {"ENVELOPE_BEGIN", "ENVELOPE_END", "C_READ_ONEOF_ARM", "C_READ_ARRAY_LEN", "C_MATCH_FIELD_ID", "C_SKIP_FIELD",
        "O_WRITE_SCALAR", "O_WRITE_ONEOF_ARM"}
  ELSE {"ENVELOPE_BEGIN", "ENVELOPE_END", "C_WRITE_ONEOF_ARM", "C_WRITE_ARRAY_LEN", "C_WRITE_FIELD_ID", "O_READ_SCALAR",
        "O_READ_OPT_PRESENT", "O_READ_ONEOF_ARM", "O_READ_ARRAY_LEN"}
(* The reader of the mode, the object when encoding. *)
Reads(o, c) == At(IF encodeMode THEN {o} ELSE {c})
AsksFlag ==
  \/ Reads("O_READ_OPT_PRESENT", "C_READ_OPT_PRESENT")
  \/ At({"C_MATCH_FIELD_ID", "C_SKIP_FIELD"}) /\ ~ encodeMode

(* The writer that takes the innermost frame along. *)
Uses(op) == At({op}) /\ encodeMode = (op \in {"C_WRITE_ARRAY_LEN", "C_WRITE_ONEOF_ARM"})

(* Ops without a case in the switch, EXT32 and data words among them. *)
Unknown == {"EXT32", "CALL", "WORD"}

Invalid ==
  /\ At(Refused \cup Unknown)
  /\ Fail("InvalidInstr")
  /\ UNCHANGED <<prog, encodeMode, registers, stacks, open, leftover, runs>>

(* The instruction hands a register to an adapter, or does nothing. *)
Writes ==
  {"C_WRITE_SCALAR", "C_WRITE_OPT_PRESENT", "C_WRITE_ONEOF_ARM", "C_WRITE_ARRAY_LEN",
   "C_WRITE_FIELD_ID", "O_WRITE_SCALAR", "O_WRITE_OPT_PRESENT", "O_WRITE_ONEOF_ARM"}
Write(status) ==
  /\ At((Writes \ Refused) \cup PassedOver)
  /\ Uses("C_WRITE_ARRAY_LEN") => arrayStack # <<>>
  /\ Uses("C_WRITE_ONEOF_ARM") \/ Uses("O_WRITE_ONEOF_ARM") => oneofStack # <<>>
  /\ Proceed(pc + 1, status)
  /\ UNCHANGED <<prog, encodeMode, registers, stacks, open, leftover, runs>>

(* O_WRITE_ARRAY_LEN prepares the object and gives the frame its length. *)
WriteLength(status) ==
  /\ Uses("O_WRITE_ARRAY_LEN") /\ arrayStack # <<>>
  /\ arrayStack' = SetTop(arrayStack, [Top(arrayStack) EXCEPT !.len = reg % U32])
  /\ Proceed(pc + 1, status)
  /\ UNCHANGED <<prog, encodeMode, registers, callStack, stackDepth, optionalStack,
                 oneofStack, open, leftover, runs>>

ReadScalar(answer, status) ==
  /\ Reads("O_READ_SCALAR", "C_READ_SCALAR")
  /\ reg' = answer % U64
  /\ Proceed(pc + 1, status)
  /\ UNCHANGED <<prog, encodeMode, flag, stacks, open, leftover, runs>>

ReadArm(answer, status) ==
  /\ Reads("O_READ_ONEOF_ARM", "C_READ_ONEOF_ARM") /\ oneofStack # <<>>
  /\ reg' = answer % U32
  /\ Proceed(pc + 1, status)
  /\ UNCHANGED <<prog, encodeMode, flag, stacks, open, leftover, runs>>

ReadLength(answer, status) ==
  /\ Reads("O_READ_ARRAY_LEN", "C_READ_ARRAY_LEN") /\ arrayStack # <<>>
  /\ reg' = answer % U32
  /\ arrayStack' = SetTop(arrayStack, [Top(arrayStack) EXCEPT !.len = answer % U32])
  /\ Proceed(pc + 1, status)
  /\ UNCHANGED <<prog, encodeMode, flag, callStack, stackDepth, optionalStack, oneofStack,
                 open, leftover, runs>>

(* Presence of an optional; in decode mode also match and skip of a field. *)
ReadFlag(answer, status) ==
  /\ AsksFlag
  /\ flag' = answer
  /\ Proceed(pc + 1, status)
  /\ UNCHANGED <<prog, encodeMode, reg, stacks, open, leftover, runs>>

-----------------------------------------------------------------------------
Step(answer, status) ==
  \/ RunsOff
  \/ Halt
  \/ Jump(status)
  \/ Ret(status)
  \/ Call(status)
  \/ Dispatch(status)
  \/ Enter(status)
  \/ Exit(status)
  \/ ArrayNext(status)
  \/ Invalid
  \/ Write(status)
  \/ WriteLength(status)
  \/ ReadScalar(answer, status)
  \/ ReadArm(answer, status)
  \/ ReadLength(answer, status)
  \/ ReadFlag(answer, status)

(* The answers an adapter may give: scalars are data, which nothing here   *)
(* depends on, and any other answer is one of a few.                       *)
Answers ==
  IF Reads("O_READ_ONEOF_ARM", "C_READ_ONEOF_ARM") THEN Arms
  ELSE IF Reads("O_READ_ARRAY_LEN", "C_READ_ARRAY_LEN") THEN Lengths
  ELSE IF AsksFlag THEN {0, 1} ELSE {0}

Statuses == {"Ok", "ObjectError", "CodecError"}

Runs == \E answer \in Answers, status \in Statuses : Step(answer, status)

Init ==
  /\ prog \in DOMAIN Programs
  /\ encodeMode = TRUE
  /\ running = FALSE
  /\ pc = 0 /\ flag = 0 /\ reg = 0 /\ stackDepth = 0
  /\ callStack = <<>> /\ arrayStack = <<>> /\ optionalStack = <<>> /\ oneofStack = <<>>
  /\ error = "Ok"
  /\ open = <<>>
  /\ leftover = [calls |-> 0, arrays |-> 0, optionals |-> 0, oneofs |-> 0]
  /\ runs = 0

(* Any program may be run, on a type it has or on the one after the last.  *)
Next ==
  \/ \E program \in (IF runs = 0 THEN DOMAIN Programs ELSE Reused), encode \in BOOLEAN :
       \E typeId \in 0..Len(Programs[program].typeEntryPc) :
         Start(program, encode, typeId)
  \/ Runs

Spec     == Init /\ [][Next]_vmVars
FairSpec == Spec /\ WF_vmVars(Runs)

-----------------------------------------------------------------------------
Errors == {"Ok", "RuntimeError", "InvalidInstr", "StackUnderflow"} \cup Statuses

(* Every variable has its type. *)
TypeOK ==
  /\ prog \in DOMAIN Programs
  /\ encodeMode \in BOOLEAN /\ running \in BOOLEAN
  /\ pc \in Nat /\ flag \in {0, 1} /\ reg \in 0..(U64 - 1)
  /\ stackDepth \in Nat
  /\ callStack \in Seq(Nat)
  /\ arrayStack \in Seq([len : 0..(U32 - 1), idx : 0..(U32 - 1)])
  /\ optionalStack \in Seq({0})
  /\ oneofStack \in Seq(Nat)
  /\ error \in Errors
  /\ open \in Seq(Ends)
  /\ leftover \in [calls : Nat, arrays : Nat, optionals : Nat, oneofs : Nat]
  /\ runs \in 0..MaxRuns

OpenOf(end) == {i \in DOMAIN open : open[i] = end}

(* The frames of the machine and what the adapters have open agree at      *)
(* every instruction, also after a run that stopped in the middle and left *)
(* its frames behind (reset does not clear them, VM.h:321-331). Without it *)
(* back() and pop_back() would meet an empty or a foreign frame.           *)
FramesMatch ==
  /\ Len(arrayStack)    = leftover.arrays    + Cardinality(OpenOf("ARRAY_END"))
  /\ Len(optionalStack) = leftover.optionals + Cardinality(OpenOf("OPT_END"))
  /\ Len(oneofStack)    = leftover.oneofs    + Cardinality(OpenOf("ONEOF_END"))
  /\ Len(callStack)     = leftover.calls     + stackDepth

(* The adapters' own stacks rely on it: what ends is what began last,      *)
(* whatever the adapters answered, an unknown arm included.                *)
EndsInOrder == At(Ends) => open # <<>> /\ Top(open) = instr.op

(* A run that ends well has closed all it opened and left no frame. *)
EndsClean ==
  (~ running /\ error = "Ok") =>
    /\ open = <<>>
    /\ stackDepth = 0

(* arrayEnterElem is asked for elements that exist only, in both modes:    *)
(* the index wraps to 0 and stays below the length.                        *)
ElementInRange ==
  At({"ARRAY_ELEM_BEGIN"}) =>
    arrayStack # <<>> /\ Top(arrayStack).idx < Top(arrayStack).len

(* Arms beyond the last take the fail entry of the jump table              *)
(* (the comment on DISPATCH, VM.h:75-80).                                  *)
BeyondLastArmFails ==
  [][(At({"DISPATCH"}) /\ reg >= instr.imm /\ pc' # pc)
       => pc' = pc + code[pc + instr.imm + 2].imm]_vmVars

(* With adapters that answer, a program of a schema that does not contain  *)
(* itself comes to its end: every array runs out.                          *)
RunEnds == running ~> ~ running
=============================================================================
