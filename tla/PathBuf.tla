------------------------------- MODULE PathBuf -------------------------------
(***************************************************************************)
(* fs::Path and fs::PathBuf (src/sfc/fs/path.h, path.cc): a text that is   *)
(* pushed to, popped from, and whose last part or extension is replaced.   *)
(* Read as the names between its slashes, it is a stack.                   *)
(***************************************************************************)
EXTENDS Str, SequencesExt

CONSTANTS
  Parts,     \* what is pushed: names, with or without slashes
  Names,     \* what a file name is set to
  Exts,      \* what an extension is set to
  MaxPath    \* bound: the characters of a path

\* What is put into a path are sequences of characters.
Char == {"/"} \cup UNION {ToSet(s) : s \in Parts \cup Names \cup Exts}
PathAssumption == Parts \cup Names \cup Exts \subseteq Seq(Char)

VARIABLE path   \* PathBuf::_inner

OrElse(option, default) == IF option.tag = "some" THEN option.it ELSE default

(***************************************************************************)
(* Parts of a path                                                         *)
(***************************************************************************)

\* Path::parent: up to and with the first slash, wherever that is.
Parent(p) == IF p = <<>> THEN <<>> ELSE Cut(p, 0, OrElse(Find(p, CharPat("/")), 0))

FileName(p) == Cut(p, OrElse(Rfind(p, CharPat("/")), -1) + 1, Len(p))

\* An extension begins with its dot.
Dot(name) == OrElse(Rfind(name, CharPat(".")), Len(name))
FileStem(p) == Cut(FileName(p), 0, Dot(FileName(p)))
Extension(p) == Cut(FileName(p), Dot(FileName(p)), Len(FileName(p)))

(***************************************************************************)
(* The operations                                                          *)
(***************************************************************************)

Init == path = <<>>

\* Faulty form of Push: a name that brings its slash gets no other, and loses it.
PushGlued(s) ==
  LET brings == StartsWith(s, CharPat("/"))
      base == IF path # <<>> /\ ~EndsWith(path, CharPat("/")) /\ ~brings THEN Append(path, "/") ELSE path
      name == IF brings THEN Cut(s, 1, Len(s)) ELSE s
  IN Len(base) + Len(name) <= MaxPath /\ path' = PushStr(base, name)

\* push: a slash between what there is and what comes, and one slash only.
Push(s) ==
  LET base == IF path # <<>> /\ ~EndsWith(path, CharPat("/")) THEN Append(path, "/") ELSE path
      name == IF StartsWith(s, CharPat("/")) THEN Cut(s, 1, Len(s)) ELSE s
  IN Len(base) + Len(name) <= MaxPath /\ path' = PushStr(base, name)

\* pop: what is behind the last slash, and the slash.
Pop == path' = Truncate(path, OrElse(Rfind(path, CharPat("/")), 0))

SetFileName(new) ==
  /\ Len(path) + Len(new) <= MaxPath
  /\ path' = PushStr(Truncate(path, Len(path) - Len(FileName(path))), new)

SetExtension(new) ==
  /\ Len(path) + Len(new) <= MaxPath
  /\ path' = PushStr(Truncate(path, Len(path) - Len(Extension(path))), new)

Next ==
  \/ \E s \in Parts : Push(s)
  \/ Pop
  \/ \E s \in Names : SetFileName(s)
  \/ \E s \in Exts : SetExtension(s)
-----------------------------------------------------------------------------
\* The names of a path, as it is read: those that have ended, and the one that
\* has begun
Ended(read) == IF read.name = <<>> THEN read.names ELSE Append(read.names, read.name)
ReadOn(read, c) ==
  [names |-> IF c = "/" THEN Ended(read) ELSE read.names,
   name |-> IF c = "/" THEN <<>> ELSE Append(read.name, c)]

\* The names between the slashes of a path
NamesOf(p) ==
  LET f[i \in 0 .. Len(p)] == IF i = 0 THEN [names |-> <<>>, name |-> <<>>] ELSE ReadOn(f[i - 1], p[i])
  IN Ended(f[Len(p)])

\* A path that ends with a slash has no file name that could be replaced.
Below(p) ==
  IF FileName(p) = <<>> THEN NamesOf(p) ELSE SubSeq(NamesOf(p), 1, Len(NamesOf(p)) - 1)

\* What stands before the file name
Above(p) == SubSeq(p, 1, Len(p) - Len(FileName(p)))

\* The parts of a path make up the path, a stem keeps no dot behind which an
\* extension could begin, and while there is one slash the parent is what a
\* pop leaves, with that slash.
PartsFit ==
  /\ Above(path) \o FileName(path) = path /\ ~Contains(FileName(path), "/")
  /\ FileStem(path) \o Extension(path) = FileName(path)
  /\ Extension(path) # <<>> => Extension(path)[1] = "." /\ ~Contains(Tail(Extension(path)), ".")
  /\ (\A i, j \in DOMAIN path : path[i] = "/" /\ path[j] = "/" => i = j) => Parent(path) = Above(path)

\* A push adds the names it is given, a pop takes the last name away, a file
\* name replaces the last name, and an extension its end, whatever slashes and
\* dots there were before; and what there is then falls into its parts.
NamesStacked ==
  [][/\ \A s \in Parts : Push(s) => NamesOf(path') = NamesOf(path) \o NamesOf(s)
     /\ Pop => NamesOf(path') = Below(path)
     /\ \A s \in Names : SetFileName(s) => NamesOf(path') = Below(path) \o NamesOf(s)
     /\ \A s \in Exts : SetExtension(s) =>
          NamesOf(path') = Below(path) \o NamesOf(FileStem(path) \o s)
     /\ PartsFit'
    ]_path
=============================================================================
