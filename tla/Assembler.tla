------------------------------ MODULE Assembler ------------------------------
(***************************************************************************)
(* compiler/src/Assembler.cpp: a list of instructions with symbolic labels *)
(* becomes code words with relative jumps. A jump whose distance does not  *)
(* fit its 16-bit immediate is widened to two words, which moves every     *)
(* later label: the assembler repeats the pass until nothing widens.       *)
(*                                                                         *)
(* An instruction is its op, its mode (a scalar kind or "") and its        *)
(* immediate; a data word is an instruction with op "WORD". The two        *)
(* integer limits are constants so that small programs reach them.         *)
(***************************************************************************)
EXTENDS Integers, SequencesExt

CONSTANTS
  Int16Max,    \* the largest distance of a short jump: 32767
  UInt16Max    \* the largest 16-bit immediate: 65535

ASSUME AssemblerAssumption == Int16Max \in Nat /\ UInt16Max \in Nat

NoLabel == 0

Instr(op, mode, imm) == [op |-> op, mode |-> mode, imm |-> imm]
Word(n)              == Instr("WORD", "", n)

(* An entry of the assembler: a plain instruction, a jump to fix up, or a  *)
(* word to fix up that lies offset words behind the base of its jump. It   *)
(* may define a label at its place.                                        *)
Plain(instr, label)          == [is |-> "instr", instr |-> instr, dest |-> NoLabel,
                                 offset |-> 0, label |-> label]
FixUpInstr(op, dest, label)  == [is |-> "fixup", instr |-> Instr(op, "", 0), dest |-> dest,
                                 offset |-> 0, label |-> label]
FixUp32(dest, offset)        == [is |-> "word", instr |-> Word(0), dest |-> dest,
                                 offset |-> offset, label |-> NoLabel]

-----------------------------------------------------------------------------
(* What the emitters append. *)
emit(op, mode, imm, label) == <<Plain(Instr(op, mode, imm), label)>>
jz(dest, label)            == <<FixUpInstr("JZ", dest, label)>>
jmp(dest, label)           == <<FixUpInstr("JMP", dest, label)>>

(* An index too large for 16 bits takes an EXT32 word and a word of its own. *)
emitExt32(op, idx, label) ==
  IF idx <= UInt16Max
  THEN emit(op, "", idx, label)
  ELSE emit("EXT32", op, 0, label) \o <<Plain(Word(idx), NoLabel)>>

emitTypeCall(type, label) == emitExt32("CALL_TYPE", type, label)

(* The number of arms, one word per arm, and the word of the fail label. *)
emitDispatch(labels, failLabel) ==
  emitExt32("DISPATCH", Len(labels), NoLabel)
    \o [i \in 1..Len(labels) |-> FixUp32(labels[i], i)]
    \o <<FixUp32(failLabel, Len(labels) + 1)>>

-----------------------------------------------------------------------------
(* Places are counted from 0, as the program counter is. *)
Defined(entries, l)  == {i \in DOMAIN entries : entries[i].label = l /\ l # NoLabel}
PlaceOf(entries, l)  == (CHOOSE i \in DOMAIN entries : entries[i].label = l) - 1
FitsInt16(d)         == -(Int16Max + 1) <= d /\ d <= Int16Max

(* Each label is defined at most once, each used label at least once. *)
LabelsOk(entries) ==
  /\ \A i, j \in DOMAIN entries :
       entries[i].label = entries[j].label /\ i # j => entries[i].label = NoLabel
  /\ \A i \in DOMAIN entries :
       entries[i].is # "instr" => Defined(entries, entries[i].dest) # {}

(* A mutant: the word counts from itself. *)
WideFromWord(e) == <<Plain(Instr("EXT32", e.instr.op, 0), e.label), FixUp32(e.dest, 0)>>

(* A far jump keeps its label and becomes EXT32 and a word to fix up. *)
Wide(e) == <<Plain(Instr("EXT32", e.instr.op, 0), e.label), FixUp32(e.dest, 1)>>

(* An entry goes behind what the pass has made so far; its distance runs   *)
(* from the place reached in the new list to the label's place in the old. *)
Placed(entries, next, e) ==
  IF e.is = "fixup" /\ ~ FitsInt16(PlaceOf(entries, e.dest) - Len(next))
  THEN next \o Wide(e)
  ELSE Append(next, e)

(* One pass. *)
Widen(entries) ==
  LET next[i \in 0..Len(entries)] ==
        IF i = 0 THEN <<>> ELSE Placed(entries, next[i - 1], entries[i])
  IN  next[Len(entries)]

(* A mutant: one pass. Otherwise the list when no jump is left to widen;   *)
(* every pass before widens one.                                           *)
OnePass(entries) == Widen(entries)

Stable(entries) ==
  LET pass[i \in 0..Len(entries)] == IF i = 0 THEN entries ELSE Widen(pass[i - 1])
  IN  pass[Len(entries)]

(* A mutant: nothing is patched. *)
Unpatched(entries, i) == entries[i].instr

(* Patch: a jump counts from itself, a word from the base of its jump. *)
Patched(entries, i) ==
  LET e == entries[i]
      distance == PlaceOf(entries, e.dest) - (i - 1) + e.offset
  IN  IF e.is = "instr" THEN e.instr ELSE [e.instr EXCEPT !.imm = distance]

assemble(entries) ==
  IF ~ LabelsOk(entries) THEN <<>>
  ELSE LET final == Stable(entries) IN [i \in DOMAIN final |-> Patched(final, i)]
=============================================================================
