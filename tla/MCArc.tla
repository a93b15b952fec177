------------------------------- MODULE MCArc -------------------------------
(***************************************************************************)
(* TLC instances of Arc.                                                   *)
(***************************************************************************)
EXTENDS Arc
=============================================================================
