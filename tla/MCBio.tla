------------------------------- MODULE MCBio -------------------------------
(* Model values for the buffer cache.                                       *)
EXTENDS Bio, TLC

Symmetry == Permutations(Proc) \cup Permutations(Block) \cup Permutations(Val)
=============================================================================
