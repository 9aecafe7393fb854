--------------------------- MODULE AssemblerPasses ---------------------------
(***************************************************************************)
(* The loop of computeJumpLabels (compiler/src/Assembler.cpp), pass by     *)
(* pass, on any list of instructions: one widened jump moves the labels    *)
(* behind it and may push another jump out of its reach.                   *)
(***************************************************************************)
EXTENDS Assembler

CONSTANT Sources    \* the lists that are assembled

(* What the emitters make; EXT32 is for the passes to fix up. *)
Emitted ==
  {e \in [is : {"instr", "fixup", "word"}, instr : [op : STRING, mode : STRING, imm : Int],
          dest : Nat, offset : Int, label : Nat] :
     /\ e.is = "fixup" => e.offset = 0 /\ e.instr.op # "EXT32"
     /\ e.is = "word"  => e.instr = Word(0)}

ASSUME SourcesAssumption == \A s \in Sources : s \in Seq(Emitted)

VARIABLES
  source,     \* what was emitted
  current,    \* currentEntries
  done

vars == <<source, current, done>>

Init ==
  /\ source \in {s \in Sources : LabelsOk(s)}
  /\ current = source
  /\ done = FALSE

(* A mutant: the pass compares with what was emitted. *)
PassAgainstSource ==
  /\ ~ done
  /\ current' = Widen(current)
  /\ done' = (current' = source)
  /\ UNCHANGED source

(* The last pass widens nothing, and its labels are those to patch with. *)
Pass ==
  /\ ~ done
  /\ current' = Widen(current)
  /\ done' = (current' = current)
  /\ UNCHANGED source

Next == Pass
Spec == Init /\ [][Next]_vars /\ WF_vars(Pass)

-----------------------------------------------------------------------------
ops == [i \in DOMAIN current |-> Patched(current, i)]

(* Where the instructions of the source lie in the code: EXT32 takes the   *)
(* word that follows it.                                                   *)
Beyond(here, e) == here + (IF e.is = "fixup" /\ ops[here + 1].op = "EXT32" THEN 2 ELSE 1)
Places ==
  LET places[k \in 1..(Len(source) + 1)] ==
        IF k = 1 THEN 0 ELSE Beyond(places[k - 1], source[k - 1])
  IN  places

(* Where the machine goes from there (VM.h: rel16, rel32 from the EXT32,   *)
(* and dispatch words from their DISPATCH).                                *)
Target(k) ==
  LET here == Places[k]
  IN  CASE source[k].is = "word"          -> here - source[k].offset + ops[here + 1].imm
        [] ops[here + 1].op = "EXT32"     -> here + ops[here + 2].imm
        [] OTHER                          -> here + ops[here + 1].imm

(* Every jump and every word of a jump table leads to the instruction that *)
(* carries its label, however much was widened on the way, and a jump that *)
(* stayed short fits the 16 bits it is cast to (Assembler.cpp:206-228).    *)
JumpsLand ==
  done =>
    /\ Places[Len(source) + 1] = Len(current)
    /\ \A k \in DOMAIN source :
         source[k].is # "instr" =>
           /\ Target(k) = Places[PlaceOf(source, source[k].dest) + 1]
           /\ source[k].is = "fixup" /\ ops[Places[k] + 1].op # "EXT32"
                => FitsInt16(ops[Places[k] + 1].imm)

(* The loop computes what assemble, the operator the code generator uses,  *)
(* says: as many passes as there are instructions are always enough.       *)
AgreesWithAssemble == done => ops = assemble(source)

(* The widening comes to an end (the while loop of Assembler.cpp:104).     *)
Assembles == <>done
=============================================================================
