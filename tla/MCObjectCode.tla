---- MODULE MCObjectCode ----
(* Texts of one and of two pieces, and one that llc rejects. *)
EXTENDS ObjectCode, TLC

CONSTANTS Short, Long, Bad, Target, Deep, Other

MCPieces(i) == IF i = Long THEN 2 ELSE 1
MCCut(l)    == Other
MCSymmetry  == Permutations(Proc)
============================
