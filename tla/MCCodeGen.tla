----------------------------- MODULE MCCodeGen -----------------------------
(* The generator and the text it prints, on the programs of MCPrograms. *)
EXTENDS LLVM, MCPrograms
=============================================================================
