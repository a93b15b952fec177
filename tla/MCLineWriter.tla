---------------------------- MODULE MCLineWriter ----------------------------
(***************************************************************************)
(* TLC instances of LineWriterClient: newlines are the negative bytes.     *)
(***************************************************************************)
EXTENDS LineWriterClient

NegativeIsNewline(b) == b < 0
=============================================================================
