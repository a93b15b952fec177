-------------------------------- MODULE Stdio --------------------------------
(***************************************************************************)
(* io::Stdout (src/sfc/io/stdio.cc, stdio.h): the threads of a program     *)
(* share one LineWriter behind one mutex.  print and println, and          *)
(* log::Console::entry, keep the mutex for all the pieces of a text, and   *)
(* release it in ~Lock after a flush; Stdout::write_str and Stdout::flush  *)
(* take it for one call.                                                   *)
(*                                                                         *)
(* A text is a sequence of pieces, the strings that a Formatter passes to  *)
(* write_str, and a piece a sequence of characters.  No piece is formatted *)
(* by code that prints: the mutex is not recursive.                        *)
(***************************************************************************)
EXTENDS LineWriter, SequencesExt

CONSTANTS
  Thread,     \* the threads of the program
  Texts,      \* what they print: sequences of sequences of characters
  MaxCalls,   \* bound: how often each of them uses stdout
  Nobody      \* the holder of a free mutex

ASSUME StdioAssumption == MaxCalls \in Nat /\ Nobody \notin Thread

\* The characters of a sequence of pieces.
Characters(pieces) == UNION {ToSet(pieces[k]) : k \in DOMAIN pieces}

\* A text has one piece at least.
Char == UNION {Characters(text) : text \in Texts}
ASSUME TextsAssumption == Texts # {} /\ Texts \subseteq Seq(Seq(Char)) \ {<<>>}

VARIABLES
  holder,     \* the thread that has locked Stdout::Inner::_mtx
  pc,         \* pc[t]: "idle", "want", "in", "calling", "closing"
  kind,       \* kind[t]: "print", "write" or "flush", the call t is in
  rest,       \* rest[t]: the pieces t has still to write
  calls,      \* calls[t]: how many calls t has begun
  unwinding,  \* unwinding[t]: an exception is leaving the call of t
  printed,    \* the calls of print that returned: <<thread, number>>
  alive       \* FALSE once std::terminate has ended the program

threadVars == <<pc, kind, rest, calls, unwinding>>
vars == <<writerVars, holder, threadVars, printed, alive>>

\* The text as thread t writes it in its n-th call: every character knows
\* where it comes from.
Signed(text, t, n) ==
  [k \in DOMAIN text |->
    [i \in DOMAIN text[k] |->
      [by |-> <<t, n>>, piece |-> k, at |-> i, char |-> text[k][i]]]]

\* The order of the characters of one text.
Before(c, d) == c.piece < d.piece \/ (c.piece = d.piece /\ c.at < d.at)

Init ==
  /\ InitWriter
  /\ holder = Nobody
  /\ pc = [t \in Thread |-> "idle"]
  /\ kind = [t \in Thread |-> "print"]
  /\ rest = [t \in Thread |-> <<>>]
  /\ calls = [t \in Thread |-> 0]
  /\ unwinding = [t \in Thread |-> FALSE]
  /\ printed = {}
  /\ alive = TRUE

(***************************************************************************)
(* Faulty forms of the operations below.                                   *)
(***************************************************************************)

\* Stdout::lock does not forget its guard, which unlocks the mutex.
LockPrintUnlocks(t) ==
  /\ alive /\ pc[t] = "want" /\ kind[t] = "print" /\ holder = Nobody
  /\ pc' = [pc EXCEPT ![t] = "in"]
  /\ UNCHANGED <<writerVars, holder, kind, rest, calls, unwinding, printed, alive>>

\* ~Lock does not flush.
CloseNoFlush(t) ==
  /\ alive /\ pc[t] = "in" /\ rest[t] = <<>>
  /\ pc' = [pc EXCEPT ![t] = "closing"]
  /\ UNCHANGED <<writerVars, holder, kind, rest, calls, unwinding, printed, alive>>

\* An exception leaves write_str or flush and its guard does not unlock.
UnlockUnlessThrown(t) ==
  /\ alive /\ pc[t] = "calling" /\ kind[t] # "print" /\ Ready
  /\ holder' = IF threw THEN holder ELSE Nobody
  /\ pc' = [pc EXCEPT ![t] = "idle"]
  /\ UNCHANGED <<writerVars, kind, rest, calls, unwinding, printed, alive>>

(***************************************************************************)
(* The calls of a thread                                                   *)
(***************************************************************************)

\* A thread calls print, Stdout::write_str with one piece, or Stdout::flush.
Begin(t) ==
  /\ alive /\ pc[t] = "idle" /\ calls[t] < MaxCalls
  /\ calls' = [calls EXCEPT ![t] = @ + 1]
  /\ pc' = [pc EXCEPT ![t] = "want"]
  /\ \/ \E text \in Texts :
          /\ kind' = [kind EXCEPT ![t] = "print"]
          /\ rest' = [rest EXCEPT ![t] = Signed(text, t, calls'[t])]
     \/ \E text \in Texts :
          /\ kind' = [kind EXCEPT ![t] = "write"]
          /\ rest' = [rest EXCEPT ![t] = Signed(<<text[1]>>, t, calls'[t])]
     \/ /\ kind' = [kind EXCEPT ![t] = "flush"]
        /\ rest' = [rest EXCEPT ![t] = <<>>]
  /\ UNCHANGED <<writerVars, holder, unwinding, printed, alive>>

\* print: Stdout::lock, whose guard is forgotten so that the mutex stays
\* locked until ~Lock.
LockPrint(t) ==
  /\ alive /\ pc[t] = "want" /\ kind[t] = "print" /\ holder = Nobody
  /\ holder' = t
  /\ pc' = [pc EXCEPT ![t] = "in"]
  /\ UNCHANGED <<writerVars, kind, rest, calls, unwinding, printed, alive>>

\* Lock::write_str: one piece, without the mutex, which print holds.
Piece(t) ==
  /\ alive /\ pc[t] = "in" /\ rest[t] # <<>>
  /\ CallWrite(Head(rest[t]))
  /\ rest' = [rest EXCEPT ![t] = Tail(@)]
  /\ pc' = [pc EXCEPT ![t] = "calling"]
  /\ UNCHANGED <<holder, kind, calls, unwinding, printed, alive>>

\* write_str returns to the formatter, or its exception leaves print.
PieceReturn(t) ==
  /\ alive /\ pc[t] = "calling" /\ kind[t] = "print" /\ Ready
  /\ pc' = [pc EXCEPT ![t] = "in"]
  /\ rest' = [rest EXCEPT ![t] = IF threw THEN <<>> ELSE @]
  /\ unwinding' = [unwinding EXCEPT ![t] = threw]
  /\ UNCHANGED <<writerVars, holder, kind, calls, printed, alive>>

\* ~Lock, at the end of print or in the unwinding: it flushes first ...
Close(t) ==
  /\ alive /\ pc[t] = "in" /\ rest[t] = <<>>
  /\ CallFlush
  /\ pc' = [pc EXCEPT ![t] = "closing"]
  /\ UNCHANGED <<holder, kind, rest, calls, unwinding, printed, alive>>

\* ... then unlocks.  An exception cannot leave a destructor.
Closed(t) ==
  /\ alive /\ pc[t] = "closing" /\ Ready
  /\ IF threw
     THEN /\ alive' = FALSE
          /\ UNCHANGED <<holder, pc, unwinding, printed>>
     ELSE /\ holder' = Nobody
          /\ pc' = [pc EXCEPT ![t] = "idle"]
          /\ unwinding' = [unwinding EXCEPT ![t] = FALSE]
          /\ printed' = IF unwinding[t] THEN printed
                        ELSE printed \cup {<<t, calls[t]>>}
          /\ UNCHANGED alive
  /\ UNCHANGED <<writerVars, kind, rest, calls>>

\* Stdout::write_str and Stdout::flush: the mutex for one call.
LockCall(t) ==
  /\ alive /\ pc[t] = "want" /\ holder = Nobody
  /\ \/ kind[t] = "write" /\ CallWrite(Head(rest[t]))
     \/ kind[t] = "flush" /\ CallFlush
  /\ holder' = t
  /\ rest' = [rest EXCEPT ![t] = <<>>]
  /\ pc' = [pc EXCEPT ![t] = "calling"]
  /\ UNCHANGED <<kind, calls, unwinding, printed, alive>>

\* The guard goes with the full expression, whether it returns or throws.
Unlock(t) ==
  /\ alive /\ pc[t] = "calling" /\ kind[t] # "print" /\ Ready
  /\ holder' = Nobody
  /\ pc' = [pc EXCEPT ![t] = "idle"]
  /\ UNCHANGED <<writerVars, kind, rest, calls, unwinding, printed, alive>>

Writer == alive /\ Step /\ UNCHANGED <<holder, threadVars, printed, alive>>
Fault == alive /\ Throw /\ UNCHANGED <<holder, threadVars, printed, alive>>

Proceed(t) ==
  LockPrint(t) \/ Piece(t) \/ PieceReturn(t) \/ Close(t) \/ Closed(t) \/ LockCall(t) \/ Unlock(t)

Next == Writer \/ Fault \/ \E t \in Thread : Begin(t) \/ Proceed(t)

Spec == Init /\ [][Next]_vars

\* A call that has begun goes on when it can; nobody has to print.  A waiting
\* thread gets the mutex in the end because the others print finitely often.
FairSpec == Spec /\ WF_vars(Writer) /\ \A t \in Thread : WF_vars(Proceed(t))
-----------------------------------------------------------------------------
Inside == {t \in Thread : pc[t] \in {"in", "calling", "closing"}}

\* What has gone out and what waits to: a write_all that runs keeps in the
\* buffer what it has written already.
Stream == sink \o (IF todo # <<>> /\ Head(todo).op = "drain" THEN Head(todo).bytes ELSE buf)

\* The types of the variables; a write counts no more than it was given.
TypeOK ==
  /\ holder \in Thread \cup {Nobody}
  /\ pc \in [Thread -> {"idle", "want", "in", "calling", "closing"}]
  /\ kind \in [Thread -> {"print", "write", "flush"}]
  /\ calls \in [Thread -> 0 .. MaxCalls]
  /\ unwinding \in [Thread -> BOOLEAN]
  /\ printed \subseteq Thread \X (1 .. MaxCalls)
  /\ alive \in BOOLEAN
  /\ \E text \in Texts : \E k \in DOMAIN text : count <= Len(text[k])

\* The writer is used by the thread that holds the mutex and by no other,
\* whichever way the calls before ended, and counts for it alone (TypeOK).
WriterIsLocked ==
  /\ TypeOK
  /\ Inside = {holder} \ {Nobody}
  /\ todo # <<>> => holder # Nobody

\* The pieces of one text come out together and in order, whatever the other
\* threads write meanwhile.
TextsUninterleaved ==
  faults = 0 =>
    \A i, k \in DOMAIN Stream : i < k /\ Stream[i].by = Stream[k].by =>
      /\ Before(Stream[i], Stream[k])
      /\ \A m \in i .. k : Stream[m].by = Stream[i].by

\* When print has returned, what it wrote has gone out, although no newline
\* may have ended it, and although writes of others may have failed.  (The
\* count that write returns is ignored: the rest of a piece longer than the
\* buffer that was taken in part is lost.)
PrintedIsOut ==
  cut = "no" => \A p \in printed : \E text \in Texts :
    {c \in ToSet(sink) : c.by = p} = Characters(Signed(text, p[1], p[2]))

\* Every call returns, by its result or an exception, unless the program is
\* ended by a flush that fails in ~Lock.
CallsReturn == \A t \in Thread : pc[t] # "idle" ~> pc[t] = "idle" \/ ~alive
=============================================================================
