------------------------------- MODULE Library --------------------------------
(***************************************************************************)
(* The objects that a program has of the library beside each other: Files, *)
(* which own their descriptors, Options and Results, which own their       *)
(* values, paths, and views of an array.                                   *)
(***************************************************************************)
EXTENDS Naturals, FiniteSets

CONSTANTS Handle, Fids, Bytes, MaxFile, Slot, Resource, PathParts, PathNames, PathExts, MaxPath,
  ArrayDims, Longest, Ends

VARIABLES file, table, fid, call, slot, hand, owners, path, dims, view, shows

D == INSTANCE Files WITH MaxLen <- MaxFile
O == INSTANCE Option
P == INSTANCE PathBuf WITH Parts <- PathParts, Names <- PathNames, Exts <- PathExts
V == INSTANCE NdSlice

fileVars == <<file, table, fid, call>>
optionVars == <<slot, hand, owners>>
arrayVars == <<dims, view, shows>>

\* The system counts descriptors from 1 on; bytes are no negative numbers; a
\* husk is no resource; texts are made of characters, and arrays have a rank.
ASSUME LibraryAssumption ==
  /\ Fids \subseteq Nat \ {0}
  /\ Bytes \subseteq Nat
  /\ MaxFile \in Nat
  /\ IsFiniteSet(Slot)
  /\ O!Husk \notin Resource
  /\ P!PathAssumption
  /\ V!ArrayAssumption

LibraryInit == D!Init /\ O!Init /\ P!Init /\ V!Init

LibraryNext ==
  \/ D!Next /\ UNCHANGED <<optionVars, path, arrayVars>>
  \/ O!Next /\ UNCHANGED <<fileVars, path, arrayVars>>
  \/ P!Next /\ UNCHANGED <<fileVars, optionVars, arrayVars>>
  \/ V!Next /\ UNCHANGED <<fileVars, optionVars, path>>

LibrarySpec == LibraryInit /\ [][LibraryNext]_<<fileVars, optionVars, path, arrayVars>>
-----------------------------------------------------------------------------
\* A path is a stack of names, of which the last falls into its parts; and the
\* file it leads to keeps what nobody asked to lose, and yields what stands there.
FilesAndNames == P!NamesStacked /\ D!ContentKept /\ []D!ReadsWhole

\* Descriptors, and what is in an Option, have the owners they should.
OwnedOnce == D!DescriptorsOwned /\ O!OwnersCounted /\ O!TagsTell

\* Views show the elements they should.
ViewsShow == V!ViewsShow
===============================================================================
