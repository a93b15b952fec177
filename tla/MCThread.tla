------------------------------ MODULE MCThread ------------------------------
(***************************************************************************)
(* TLC instances of Thread.                                                *)
(***************************************************************************)
EXTENDS Thread
=============================================================================
