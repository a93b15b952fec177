-------------------------------- MODULE Files --------------------------------
(***************************************************************************)
(* fs::File and OpenOptions (src/sfc/fs/), and io::Read (src/sfc/io/       *)
(* mod-inl.h), over the descriptors of the system: File objects own a      *)
(* descriptor each, which is closed by the destructor and may then be      *)
(* given again.  There is one path.  read_exact and read_to_end call read  *)
(* until they have what they want, and read may give less at any time.     *)
(***************************************************************************)
EXTENDS Integers, Sequences, FiniteSetsExt

CONSTANTS
  Handle,    \* the File objects of the program
  Fids,      \* bound: the descriptors that the system has, as numbers from 1
  Bytes,     \* what is written
  MaxLen     \* bound: the length of the file

VARIABLES
  file,      \* the content of the file, or Absent
  table,     \* table[f]: Closed, or the mode and the position of a descriptor
  fid,       \* File::_fid; NoFile where there is no object
  call       \* the read_exact or read_to_end that runs, or has just ended

fileVars == <<file, table, fid, call>>

Absent == <<-1>>  \* no content, whose bytes are naturals
Closed == [closed |-> TRUE]
NoFile == 0
NoCall == [state |-> "none"]

Options == [read : BOOLEAN, write : BOOLEAN, truncate : BOOLEAN, create : BOOLEAN,
            create_new : BOOLEAN, append : BOOLEAN]

(***************************************************************************)
(* OpenOptions                                                             *)
(***************************************************************************)

\* Faulty form of AccessMode: append alone does not write.
AccessModeUnwritable(o) == [read |-> o.read, write |-> o.write, append |-> o.append]

\* access_mode: who asks for nothing appends.
AccessMode(o) ==
  IF ~o.append /\ (o.read \/ o.write) THEN [read |-> o.read, write |-> o.write, append |-> FALSE]
  ELSE [read |-> o.read, write |-> TRUE, append |-> TRUE]

\* create_mode
CreateMode(o) ==
  IF o.create_new THEN [create |-> TRUE, excl |-> TRUE, trunc |-> FALSE]
  ELSE [create |-> o.create, excl |-> FALSE, trunc |-> o.truncate]

(***************************************************************************)
(* File                                                                    *)
(***************************************************************************)

Init ==
  /\ file = Absent
  /\ table = [f \in Fids |-> Closed]
  /\ fid = [h \in Handle |-> NoFile]
  /\ call = NoCall

Reading == call.state = "runs"
Free == {f \in Fids : table[f] = Closed}

\* The system gives the lowest descriptor that is free; when it refuses, open
\* throws and there is no File.
Open(h, o) ==
  /\ ~Reading /\ fid[h] = NoFile
  /\ LET how == CreateMode(o)
         refused == Free = {} \/ (file = Absent /\ ~how.create) \/ (file # Absent /\ how.excl)
     IN IF refused THEN UNCHANGED <<file, table, fid>>
        ELSE /\ file' = IF file = Absent \/ how.trunc THEN <<>> ELSE file
             /\ table' = [table EXCEPT ![Min(Free)] = [mode |-> AccessMode(o), pos |-> 0]]
             /\ fid' = [fid EXCEPT ![h] = Min(Free)]
  /\ call' = NoCall

\* Faulty form of Move: what was moved from keeps the descriptor.
MoveKeeps(h, k) ==
  /\ ~Reading /\ fid[h] # NoFile /\ fid[k] = NoFile
  /\ fid' = [fid EXCEPT ![k] = fid[h]]
  /\ call' = NoCall
  /\ UNCHANGED <<file, table>>

\* File::File(File&&)
Move(h, k) ==
  /\ ~Reading /\ fid[h] # NoFile /\ fid[k] = NoFile
  /\ fid' = [fid EXCEPT ![k] = fid[h], ![h] = -1]
  /\ call' = NoCall
  /\ UNCHANGED <<file, table>>

\* ~File
Drop(h) ==
  /\ ~Reading /\ fid[h] # NoFile
  /\ IF fid[h] = -1 THEN UNCHANGED table ELSE table' = [table EXCEPT ![fid[h]] = Closed]
  /\ fid' = [fid EXCEPT ![h] = NoFile]
  /\ call' = NoCall
  /\ UNCHANGED file

\* The descriptor of h can be used; with another one the system call fails,
\* the method throws, and nothing changes.
Usable(h) == fid[h] \in Fids /\ table[fid[h]] # Closed

\* write of a byte: at the end, or over the byte at the position.
Write(h, b) ==
  /\ ~Reading /\ Usable(h) /\ table[fid[h]].mode.write
  /\ LET d == table[fid[h]]
         at == IF d.mode.append THEN Len(file) ELSE d.pos
     IN /\ at < MaxLen
        /\ file' = IF at < Len(file) THEN [file EXCEPT ![at + 1] = b]
                   ELSE [i \in 1 .. at + 1 |-> IF i <= Len(file) THEN file[i] ELSE IF i = at + 1 THEN b ELSE 0]
        /\ table' = [table EXCEPT ![fid[h]].pos = at + 1]
  /\ call' = NoCall
  /\ UNCHANGED fid

\* seek: from the start, the position or the end
Seek(h) ==
  /\ ~Reading /\ Usable(h)
  /\ \E base \in {0, table[fid[h]].pos, Len(file)}, offset \in -1 .. 1 :
       base + offset \in 0 .. MaxLen /\ table' = [table EXCEPT ![fid[h]].pos = base + offset]
  /\ call' = NoCall
  /\ UNCHANGED <<file, fid>>

(***************************************************************************)
(* io::Read                                                                *)
(***************************************************************************)

\* read_exact of a buffer, or, for want = -1, read_to_end into a Vec; of the
\* buffer it is what was filled that counts.
ReadBegin(h) ==
  /\ ~Reading /\ Usable(h) /\ table[fid[h]].mode.read
  /\ \E want \in -1 .. MaxLen :
       call' = [state |-> IF want = 0 THEN "done" ELSE "runs", handle |-> h, want |-> want,
                start |-> table[fid[h]].pos, at |-> 0, buf |-> <<>>]
  /\ UNCHANGED <<file, table, fid>>

\* The buffer, once bytes were read into what is left of it.
Filled(buf, at, bytes) ==
  [i \in 1 .. at + Len(bytes) |-> IF i <= at THEN buf[i] ELSE bytes[i - at]]

\* A turn of the loop: read gives some of the bytes there are.  None at all is
\* the end of the file, and throws UnexpectedEof, whatever was read before.
ReadTurn ==
  /\ Reading
  /\ LET d == table[fid[call.handle]]
         there == Len(file) - d.pos
         most == IF call.want = -1 \/ there < call.want - call.at THEN there ELSE call.want - call.at
     IN \/ /\ there <= 0
           /\ call' = [call EXCEPT !.state = "eof"]
           /\ UNCHANGED table
        \/ \E n \in 1 .. most :
             /\ call' = [call EXCEPT !.at = @ + n, !.buf = Filled(@, call.at, SubSeq(file, d.pos + 1, d.pos + n)),
                                     !.state = IF call.at + n = call.want THEN "done" ELSE "runs"]
             /\ table' = [table EXCEPT ![fid[call.handle]].pos = @ + n]
  /\ UNCHANGED <<file, fid>>

Next ==
  \/ \E h \in Handle, o \in Options : Open(h, o)
  \/ \E h, k \in Handle : Move(h, k)
  \/ \E h \in Handle : Drop(h) \/ Seek(h) \/ ReadBegin(h) \/ \E b \in Bytes : Write(h, b)
  \/ ReadTurn
-----------------------------------------------------------------------------
\* Each descriptor that is open is that of one File, and each File that has a
\* descriptor has an open one of its own, although numbers are given again:
\* none is closed twice, none is left open.
DescriptorsOwned ==
  \A f \in Fids : Cardinality({h \in Handle : fid[h] = f}) = IF table[f] = Closed THEN 0 ELSE 1

\* What was read is what stands in the file from where the read began,
\* however many turns it took: all that was asked for, or, with an exception,
\* all there was; and read_to_end ends by an exception alone.
ReadsWhole ==
  call # NoCall =>
    /\ call.buf = SubSeq(file, call.start + 1, call.start + call.at)
    /\ call.state = "done" => call.at = call.want
    /\ call.state = "eof" => call.start + call.at >= Len(file) /\ call.at # call.want

\* Who asks to read or to write can; only who asks for truncate, and not for a
\* new file, loses what was there; a new file was not there; and who does not
\* ask for write overwrites nothing.
ContentKept ==
  [][/\ \A h \in Handle, o \in Options : fid[h] = NoFile /\ fid'[h] # NoFile /\ Open(h, o) =>
          LET mode == table'[fid'[h]].mode IN
          /\ (o.read => mode.read) /\ (o.write \/ o.append => mode.write)
          /\ mode.write => o.write \/ mode.append
          /\ file # Absent => /\ ~o.create_new
                              /\ file' = file \/ o.truncate
     /\ \A h \in Handle : file' # file /\ Usable(h) /\ table[fid[h]].mode.append /\ (\E b \in Bytes : Write(h, b)) =>
          SubSeq(file', 1, Len(file)) = file
    ]_fileVars
=============================================================================
