-------------------------------- MODULE MCVM --------------------------------
(***************************************************************************)
(* The machine on the programs that CodeGen generates for a few schemas,   *)
(* with adapters that may answer anything and fail at any instruction.     *)
(***************************************************************************)
EXTENDS Schemas, VMNesting

MCReused    == {<<"choice", TRUE>>, <<"containers", FALSE>>}
MCDirection == [p \in DOMAIN Programs |-> p[2]]

(* Every program is nested that CodeGen generates, in both directions and  *)
(* for every kind of type (compiler/src/VM.cpp): what the theorems of      *)
(* VMProofs assume. A machine that was not started yet may have any of     *)
(* the programs.                                                           *)
GeneratedNested ==
  runs = 0 => WellNested(prog) /\ (~ Direction[prog] => ArraysDecode(prog))
=============================================================================
