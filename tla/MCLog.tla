------------------------------- MODULE MCLog -------------------------------
(* Instances of Log for TLC.                                                *)
EXTENDS Log, TLC

(* Processes, blocks and contents are interchangeable.                      *)
Symmetry == Permutations(Proc) \cup Permutations(Block) \cup Permutations(Val)
=============================================================================
