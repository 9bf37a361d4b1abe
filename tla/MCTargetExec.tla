---------------------------- MODULE MCTargetExec ----------------------------
(* The compiler, llc and the machine, on the programs of MCPrograms. *)
EXTENDS TargetExec, MCPrograms
=============================================================================
