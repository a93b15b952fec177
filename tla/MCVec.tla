-------------------------------- MODULE MCVec --------------------------------
(***************************************************************************)
(* TLC instances of Vec.                                                   *)
(***************************************************************************)
EXTENDS Vec, TLC

Symmetry == Permutations(VecId) \cup Permutations(Elem)
=============================================================================
