-------------------------- MODULE MCAssemblerPasses --------------------------
(***************************************************************************)
(* All lists of up to MaxLen entries over two labels; with short jumps of  *)
(* at most Int16Max = 1 words, one widening easily causes the next.        *)
(***************************************************************************)
EXTENDS AssemblerPasses

CONSTANT MaxLen

Alphabet ==
  {Plain(Instr("HALT", "", 0), label) : label \in {NoLabel, 1, 2}}
    \cup {FixUpInstr("JMP", 1, label) : label \in {NoLabel, 2}}
    \cup {FixUpInstr("JZ", 2, label) : label \in {NoLabel, 1}}
    \cup {FixUp32(1, 1)}

MCSources == UNION {[1..n -> Alphabet] : n \in 1..MaxLen}
=============================================================================
