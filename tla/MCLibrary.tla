------------------------------ MODULE MCLibrary ------------------------------
(***************************************************************************)
(* TLC instances of the parts of the library that are used by one thread:  *)
(* BinaryHeap, Calls, PathBuf, Files, Option and NdSlice.  A behaviour is  *)
(* one of the component chosen at its beginning, so that to Files, Option, *)
(* PathBuf and NdSlice it is a behaviour of Library.                       *)
(***************************************************************************)
EXTENDS BinaryHeap, MCCalls, Library

VARIABLE component

MCParts == {<<"a">>, <<"/", "a">>, <<"a", ".", "b">>, <<"b", "/">>, <<"a", "/", "b">>, <<"/", "/", "b">>, <<>>}
MCNames == {<<"b">>, <<".", "b">>, <<"a", ".", "a", ".", "b">>}
MCExts == {<<>>, <<".", "a">>}

MCDims == {<<3>>, <<2, 3>>, <<3, 2>>, <<2, 3, 2>>}

MCInit ==
  /\ component \in {"heap", "calls", "path", "array", "files", "options"}
  /\ Init /\ CallsInit /\ P!Init /\ V!Init /\ D!Init /\ O!Init
  /\ component # "calls" => Is("list")
  /\ component # "array" => dims = <<3>>

MCNext ==
  /\ UNCHANGED component
  /\ IF component = "heap" THEN Next ELSE UNCHANGED vars
  /\ IF component = "calls" THEN CallsNext ELSE UNCHANGED queryVars
  /\ IF component = "path" THEN P!Next ELSE UNCHANGED path
  /\ IF component = "array" THEN V!Next ELSE UNCHANGED arrayVars
  /\ IF component = "files" THEN D!Next ELSE UNCHANGED fileVars
  /\ IF component = "options" THEN O!Next ELSE UNCHANGED optionVars

\* A call of the heap that runs goes on.
MCSpec ==
  /\ MCInit /\ [][MCNext]_<<component, vars, queryVars, path, arrayVars, fileVars, optionVars>>
  /\ WF_vars(ShiftUp) /\ WF_vars(ShiftDown)
=============================================================================
