----------------------------- MODULE LineWriter -----------------------------
(***************************************************************************)
(* io::LineWriter over io::BufWriter over a writer that may take a part of *)
(* what it is given, or fail (src/sfc/io/buffer-inl.h, and write_all of    *)
(* src/sfc/io/mod-inl.h).                                                  *)
(*                                                                         *)
(* One call of write or flush is a sequence of steps, at most one call of  *)
(* the inner writer in each: "todo" is what the call has still to do.      *)
(* Nothing here says who calls; module Stdio does.                         *)
(***************************************************************************)
EXTENDS Naturals, Sequences

CONSTANTS
  Cap,            \* BufWriter::_buf.capacity()
  IsNewline(_),   \* is this byte '\n'
  MaxFaults       \* bound: how often the inner writer fails

ASSUME CapAssumption == Cap \in Nat \ {0}
ASSUME WriterAssumption == MaxFaults \in Nat

VARIABLES
  buf,       \* BufWriter::_buf
  sink,      \* the bytes the inner writer has taken
  todo,      \* what is left of the call of write or flush that is running
  count,     \* the bytes that call has written so far: its result
  threw,     \* did the call that ran last throw
  faults,    \* failures of the inner writer so far
  cut        \* was a slice that is written past the buffer taken in part: "no",
             \* "end", or "middle" if more of the same call came after it

writerVars == <<buf, sink, todo, count, threw, faults, cut>>

\* The parts of a call: BufWriter::write of a slice, and its second half once
\* the buffer was flushed; BufWriter::flush; the loop of write_all.
Put(s) == [op |-> "put", bytes |-> s]
Place(s) == [op |-> "place", bytes |-> s]
Flush == [op |-> "flush", bytes |-> <<>>]
Drain(s) == [op |-> "drain", bytes |-> s]

InitWriter ==
  /\ buf = <<>>
  /\ sink = <<>>
  /\ todo = <<>>
  /\ count = 0
  /\ threw = FALSE
  /\ faults = 0
  /\ cut = "no"

Ready == todo = <<>>

Newlines(s) == {i \in DOMAIN s : IsNewline(s[i])}

\* Slice::rfind('\n')
LastNewline(s) == CHOOSE i \in Newlines(s) : \A k \in Newlines(s) : k <= i

(***************************************************************************)
(* Faulty forms of the operations below: what the properties must notice.  *)
(***************************************************************************)

\* LineWriter::write forgets to flush after the last newline.
LinePartsUnflushed(s) ==
  IF Newlines(s) = {} THEN <<Put(s)>>
  ELSE LET n == LastNewline(s) IN
       <<Put(SubSeq(s, 1, n)), Put(SubSeq(s, n + 1, Len(s)))>>

\* write_all throws, or ends, without keeping what the buffer had left.
ThrowClears ==
  /\ todo # <<>>
  /\ Head(todo).op = "drain"
  /\ faults < MaxFaults
  /\ faults' = faults + 1
  /\ threw' = TRUE
  /\ todo' = <<>>
  /\ buf' = <<>>
  /\ UNCHANGED <<sink, count, cut>>

\* flush writes the buffer once instead of until nothing is left.
DoDrainOnce ==
  /\ todo # <<>> /\ Head(todo).op = "drain"
  /\ \E n \in 1 .. Len(Head(todo).bytes) :
       sink' = sink \o SubSeq(Head(todo).bytes, 1, n)
  /\ todo' = Tail(todo)
  /\ buf' = <<>>
  /\ UNCHANGED <<count, threw, faults, cut>>

\* flush waits for the inner writer to take something of an empty buffer.
DoFlushEmpty ==
  /\ todo # <<>> /\ Head(todo).op = "flush"
  /\ todo' = <<Drain(buf)>> \o Tail(todo)
  /\ UNCHANGED <<buf, sink, count, threw, faults, cut>>

(***************************************************************************)
(* The calls                                                               *)
(***************************************************************************)

\* LineWriter::write: everything up to the last newline, a flush, the rest.
LineParts(s) ==
  IF Newlines(s) = {} THEN <<Put(s)>>
  ELSE LET n == LastNewline(s) IN
       <<Put(SubSeq(s, 1, n)), Flush, Put(SubSeq(s, n + 1, Len(s)))>>

\* LineWriter::write(s) is called.
CallWrite(s) ==
  /\ Ready
  /\ todo' = LineParts(s)
  /\ count' = 0
  /\ threw' = FALSE
  /\ UNCHANGED <<buf, sink, faults, cut>>

\* LineWriter::flush() is called; ~BufWriter does the same (_panicked is
\* never set).
CallFlush ==
  /\ Ready
  /\ todo' = <<Flush>>
  /\ count' = 0
  /\ threw' = FALSE
  /\ UNCHANGED <<buf, sink, faults, cut>>

(***************************************************************************)
(* The steps of a call                                                     *)
(***************************************************************************)

\* BufWriter::write, first test: flush unless the slice fits.
DoPut ==
  /\ todo # <<>> /\ Head(todo).op = "put"
  /\ LET s == Head(todo).bytes IN
       todo' = (IF Len(buf) + Len(s) > Cap THEN <<Flush, Place(s)>> ELSE <<Place(s)>>)
               \o Tail(todo)
  /\ UNCHANGED <<buf, sink, count, threw, faults, cut>>

\* BufWriter::write, second test: a slice as large as the buffer goes to the
\* inner writer, once, as far as it takes it; any other into the buffer.
DoPlace ==
  /\ todo # <<>> /\ Head(todo).op = "place"
  /\ LET s == Head(todo).bytes IN
       \/ /\ Len(s) < Cap
          /\ buf' = buf \o s
          /\ count' = count + Len(s)
          /\ UNCHANGED <<sink, cut>>
       \/ /\ Len(s) >= Cap
          /\ \E n \in 1 .. Len(s) :
               /\ sink' = sink \o SubSeq(s, 1, n)
               /\ count' = count + n
               /\ cut' = IF n = Len(s) THEN cut
                         ELSE IF Tail(todo) # <<>> THEN "middle"
                         ELSE IF cut = "no" THEN "end" ELSE cut
          /\ UNCHANGED buf
  /\ todo' = Tail(todo)
  /\ UNCHANGED <<threw, faults>>

\* BufWriter::flush: nothing to do, or write_all of the buffer.
DoFlush ==
  /\ todo # <<>> /\ Head(todo).op = "flush"
  /\ todo' = (IF buf = <<>> THEN <<>> ELSE <<Drain(buf)>>) \o Tail(todo)
  /\ UNCHANGED <<buf, sink, count, threw, faults, cut>>

\* write_all: the inner writer takes some; the buffer is cleared at the end.
DoDrain ==
  /\ todo # <<>> /\ Head(todo).op = "drain"
  /\ LET s == Head(todo).bytes IN
     \E n \in 1 .. Len(s) :
       /\ sink' = sink \o SubSeq(s, 1, n)
       /\ IF n < Len(s)
          THEN /\ todo' = <<Drain(SubSeq(s, n + 1, Len(s)))>> \o Tail(todo)
               /\ UNCHANGED buf
          ELSE /\ todo' = Tail(todo)
               /\ buf' = <<>>
  /\ UNCHANGED <<count, threw, faults, cut>>

\* The inner writer fails (or takes nothing, which write_all answers with
\* WriteZero): the exception leaves the call, and the buffer stays as it is.
Throw ==
  /\ todo # <<>>
  /\ \/ Head(todo).op = "drain"
     \/ Head(todo).op = "place" /\ Len(Head(todo).bytes) >= Cap
  /\ faults < MaxFaults
  /\ faults' = faults + 1
  /\ threw' = TRUE
  /\ todo' = <<>>
  /\ UNCHANGED <<buf, sink, count, cut>>

Step == DoPut \/ DoPlace \/ DoFlush \/ DoDrain

=============================================================================
