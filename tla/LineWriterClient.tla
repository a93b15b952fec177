-------------------------- MODULE LineWriterClient --------------------------
(***************************************************************************)
(* One owner of a LineWriter that writes a stream of bytes, retries what a *)
(* call of write did not take (as io::Write::write_all does), gives up     *)
(* what a call threw on, flushes, and destroys the writer.                 *)
(*                                                                         *)
(* The i-th byte of the stream is i, or -i when it is a newline.           *)
(***************************************************************************)
EXTENDS LineWriter, Integers, SequencesExt, FiniteSets

CONSTANTS
  MaxStream,    \* bound: the length of the stream
  MaxSlice      \* bound: the longest slice given to write

ASSUME ClientAssumption == MaxStream \in Nat /\ MaxSlice \in Nat

VARIABLES
  arg,          \* the slice given to the running call of write
  next,         \* the next byte of the stream
  told,         \* the bytes that calls which returned said were written
  phase         \* "open", "writing", "flushing", "closing", "closed"

vars == <<writerVars, arg, next, told, phase>>

Init ==
  /\ InitWriter
  /\ arg = <<>>
  /\ next = 1
  /\ told = <<>>
  /\ phase = "open"

\* The next n bytes of the stream, with newlines anywhere.
Slices(n) ==
  {[i \in 1 .. n |-> IF i \in nl THEN 1 - next - i ELSE next + i - 1] : nl \in SUBSET (1 .. n)}

Write ==
  /\ phase = "open"
  /\ \E n \in 1 .. MaxSlice :
       /\ next + n <= MaxStream + 1
       /\ \E s \in Slices(n) : CallWrite(s) /\ arg' = s
  /\ phase' = "writing"
  /\ UNCHANGED <<next, told>>

\* write returned: the bytes it counted are taken to be written.
Return ==
  /\ phase = "writing"
  /\ Ready
  /\ IF threw THEN UNCHANGED told ELSE told' = told \o SubSeq(arg, 1, count)
  /\ next' = IF threw THEN next + Len(arg) ELSE next + count
  /\ phase' = "open"
  /\ arg' = <<>>
  /\ UNCHANGED writerVars

FlushCall ==
  /\ phase = "open"
  /\ CallFlush
  /\ phase' = "flushing"
  /\ UNCHANGED <<arg, next, told>>

FlushReturn ==
  /\ phase = "flushing"
  /\ Ready
  /\ phase' = "open"
  /\ UNCHANGED <<writerVars, arg, next, told>>

\* ~BufWriter.  An exception would leave a destructor and end the program.
Close ==
  /\ phase = "open"
  /\ CallFlush
  /\ phase' = "closing"
  /\ UNCHANGED <<arg, next, told>>

Closed ==
  /\ phase = "closing"
  /\ Ready
  /\ phase' = "closed"
  /\ UNCHANGED <<writerVars, arg, next, told>>

Internal == (Step \/ Throw) /\ UNCHANGED <<arg, next, told, phase>>

Next == Write \/ Return \/ FlushCall \/ FlushReturn \/ Close \/ Closed \/ Internal

Spec == Init /\ [][Next]_vars

\* A call that runs goes on; the inner writer is not required to fail.
FairSpec ==
  /\ Spec
  /\ WF_vars(Step /\ UNCHANGED <<arg, next, told, phase>>)
  /\ WF_vars(Return \/ FlushReturn \/ Closed)
-----------------------------------------------------------------------------
\* The types of the variables; the buffer never grows past its capacity, so
\* that it is never reallocated.
TypeOK ==
  /\ buf \in Seq(Int)
  /\ sink \in Seq(Int)
  /\ arg \in Seq(Int)
  /\ told \in Seq(Int)
  /\ next \in 1 .. MaxStream + 1
  /\ count \in 0 .. MaxSlice
  /\ threw \in BOOLEAN
  /\ faults \in 0 .. MaxFaults
  /\ cut \in {"no", "end", "middle"}
  /\ phase \in {"open", "writing", "flushing", "closing", "closed"}
  /\ Len(buf) <= Cap
  /\ \A k \in DOMAIN todo :
       /\ todo[k].op \in {"put", "place", "flush", "drain"}
       /\ todo[k].bytes \in Seq(Int)

\* What a caller was told is written has reached the inner writer, or waits
\* in the buffer, in order, once, and nothing else has: as many bytes in any
\* case, and the same bytes unless a line longer than the buffer was taken in
\* part and the rest of its slice written after it.  The buffer stays within
\* its capacity meanwhile (TypeOK).
ToldIsDelivered ==
  /\ TypeOK
  /\ phase = "open" /\ faults = 0 =>
       /\ Len(sink \o buf) = Len(told)
       /\ cut # "middle" => sink \o buf = told

\* A write that returns leaves no newline in the buffer: unless a flush
\* failed before, every complete line has gone out.
LinesGoOut == phase = "open" /\ faults = 0 => Newlines(buf) = {}

\* A failing inner writer costs nothing that an earlier call accepted: it was
\* delivered, or is still in the buffer.  (A slice cut in its middle aside.)
FaultsLoseNothing ==
  cut # "middle" => \A i \in DOMAIN told : \E k \in DOMAIN (sink \o buf) : (sink \o buf)[k] = told[i]

\* Every call comes back: with a result or an exception.
CallsReturn == phase # "open" ~> phase \in {"open", "closed"}
=============================================================================
