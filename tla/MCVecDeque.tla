----------------------------- MODULE MCVecDeque -----------------------------
(***************************************************************************)
(* TLC instances of VecDeque.                                              *)
(***************************************************************************)
EXTENDS VecDeque
=============================================================================
