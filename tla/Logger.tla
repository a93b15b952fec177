------------------------------- MODULE Logger -------------------------------
(***************************************************************************)
(* log::Logger (src/sfc/log/): a level, and a vector of backends, without  *)
(* a lock.  Threads log, one thread at a time adds backends, and any       *)
(* thread sets the level.  The first backend is the Console, which         *)
(* default_logger adds before others can see the logger; every other one   *)
(* is a File of its own.                                                   *)
(*                                                                         *)
(* Logger::write formats its pieces into a Buffer, takes the pointer and   *)
(* then the length of the vector of backends (iter_mut), and calls each    *)
(* backend in turn.  Console::entry keeps stdout locked for its line;      *)
(* File::entry fills a Buffer and writes it by one call, whose count it    *)
(* ignores.  "h" stands for the time and the level that head a line of a   *)
(* file, "p" for what begins one of the console, the prefix of a level or, *)
(* for Level::User, nothing; "t" for the end of its line, "s" for one      *)
(* blank, and "n" for a newline.  No write to the console fails here: what *)
(* a failing one does to stdout and its lock is in module Stdio.           *)
(***************************************************************************)
EXTENDS Naturals, Sequences, SequencesExt, FiniteSets

CONSTANTS
  Thread,       \* the threads of the program
  Levels,       \* Trace .. User
  Messages,     \* what is logged
  Letters,      \* the characters of messages, the newline "n" among them
  Pieces,       \* Pieces[m]: what the Formatter writes of m, piece by piece
  LineCap,      \* the size of the buffers: 1024 in the code
  Indent,       \* the blanks that File::entry writes for a newline: 14
  Align,        \* what RawVec::reserve rounds a capacity up to: 8
  MaxBackends,  \* bound: how many backends there will be
  MaxCalls,     \* bound: how many entries are logged
  MaxFaults,    \* bound: how often a file takes a part of a line, or fails
  Nobody        \* the holder of a free mutex

ASSUME LoggerAssumption ==
  /\ Levels \subseteq Nat /\ Nobody \notin Thread
  /\ Letters \cap {"h", "p", "s", "t"} = {} /\ Pieces \in [Messages -> Seq(Seq(Letters))]
  /\ LineCap \in Nat \ {0, 1} /\ Indent \in Nat /\ Align \in Nat \ {0}
  /\ MaxBackends \in Nat \ {0} /\ MaxCalls \in Nat /\ MaxFaults \in Nat

VARIABLES
  level,     \* Logger::_level
  backends,  \* the length of _backends
  cap,       \* its capacity
  block,     \* how often its memory was moved
  adding,    \* <<thread, step>> of the add_backend that runs
  pc,        \* pc[t]: "idle", "begin", "end", "call", "locked", "close"
  entry,     \* entry[t]: what t logs, as <<thread, number, message>>
  iter,      \* iter[t]: block and index it is at, and end, of its iteration
  calls,     \* how many entries were begun
  holder,    \* the thread that has locked stdout
  out,       \* out[b]: what the b-th backend has got, as <<entry, character>>
  faults,    \* how many writes of a file were cut short, or failed
  astray     \* has a thread used memory that holds no backend (any longer)

logVars == <<level, backends, cap, block, adding, pc, entry, iter, calls, holder, out, faults, astray>>
threadVars == <<pc, entry, iter, calls>>
storeVars == <<backends, cap, block, adding>>

Backend == 1 .. MaxBackends

\* Faulty form of BufferWrite: what there is room for is written.
BufferWriteCuts(buf, s) ==
  IF Len(buf) + Len(s) < LineCap THEN buf \o s ELSE SubSeq(buf \o s, 1, LineCap)

\* A character is written into a Buffer that has room for it and for one
\* more; so is a piece, whole or not at all.
BufferWrite(buf, s) == IF Len(buf) + Len(s) >= LineCap THEN buf ELSE buf \o s
\* What a loop over s makes of base.
Loop(op(_, _), base, s) ==
  LET f[i \in 0 .. Len(s)] == IF i = 0 THEN base ELSE op(f[i - 1], s[i]) IN f[Len(s)]
Text == [m \in Messages |-> Loop(BufferWrite, <<>>, Pieces[m])]

(***************************************************************************)
(* Faulty forms of the operations below.                                   *)
(***************************************************************************)

\* The vector grows by what is needed, and no more.
GrowthExact(c) == c + 1

\* Console::entry does not lock stdout.
ConsoleOpenFree(t) ==
  /\ pc[t] = "call" /\ iter[t].at < iter[t].end /\ iter[t].block = block /\ iter[t].at = 0
  /\ out' = [out EXCEPT ![1] = Append(@, <<entry[t], "p">>)]
  /\ pc' = [pc EXCEPT ![t] = "locked"]
  /\ UNCHANGED <<level, storeVars, entry, iter, calls, holder, faults, astray>>

(***************************************************************************)
(* The logger                                                              *)
(***************************************************************************)

\* default_logger: a level, and the Console as the first backend.
Growth(c) == ((c + (IF c \div 2 > 1 THEN c \div 2 ELSE 1) + Align - 1) \div Align) * Align

LogInit ==
  /\ level \in Levels
  /\ backends = 1 /\ cap = Growth(0) /\ block = 0 /\ adding = <<>>
  /\ pc = [t \in Thread |-> "idle"]
  /\ entry = [t \in Thread |-> <<t, 0>>]
  /\ iter = [t \in Thread |-> [block |-> 0, at |-> 0, end |-> 0]]
  /\ calls = 0
  /\ holder = Nobody
  /\ out = [b \in Backend |-> <<>>]
  /\ faults = 0 /\ astray = FALSE

SetLevel ==
  /\ \E new \in Levels : level' = new
  /\ UNCHANGED <<storeVars, threadVars, holder, out, faults, astray>>

\* add_backend: Vec::push reserves, which may move the memory, then writes the
\* backend, then counts it.
AddReserve(t) ==
  /\ pc[t] = "idle" /\ adding = <<>> /\ backends < MaxBackends
  /\ IF backends + 1 <= cap THEN UNCHANGED <<cap, block>>
     ELSE cap' = Growth(cap) /\ block' = block + 1
  /\ adding' = <<t, "write">>
  /\ UNCHANGED <<level, backends, threadVars, holder, out, faults, astray>>

AddCount(t) ==
  /\ adding = <<t, "write">>
  /\ backends' = backends + 1
  /\ adding' = <<>>
  /\ UNCHANGED <<level, cap, block, threadVars, holder, out, faults, astray>>

(***************************************************************************)
(* Logger::write                                                           *)
(***************************************************************************)

\* A thread logs a message, by log::trace .. log::user: the level is compared,
\* and the message is formatted into a Buffer of the thread.
Begin(t) ==
  /\ pc[t] = "idle" /\ calls < MaxCalls /\ adding # <<t, "write">>
  /\ calls' = calls + 1
  /\ \E l \in Levels, m \in Messages :
       IF l < level THEN UNCHANGED <<entry, pc>>
       ELSE /\ entry' = [entry EXCEPT ![t] = <<t, calls', m>>]
            /\ pc' = [pc EXCEPT ![t] = "begin"]
  /\ UNCHANGED <<level, storeVars, iter, holder, out, faults, astray>>

\* iter_mut: the pointer, and then the length.
IterBegin(t) ==
  /\ pc[t] = "begin"
  /\ iter' = [iter EXCEPT ![t] = [block |-> block, at |-> 0, end |-> 0]]
  /\ pc' = [pc EXCEPT ![t] = "end"]
  /\ UNCHANGED <<level, storeVars, entry, calls, holder, out, faults, astray>>

IterEnd(t) ==
  /\ pc[t] = "end"
  /\ iter' = [iter EXCEPT ![t].end = backends]
  /\ pc' = [pc EXCEPT ![t] = "call"]
  /\ UNCHANGED <<level, storeVars, entry, calls, holder, out, faults, astray>>

IterDone(t) ==
  /\ pc[t] = "call" /\ iter[t].at >= iter[t].end
  /\ pc' = [pc EXCEPT ![t] = "idle"]
  /\ UNCHANGED <<level, storeVars, entry, iter, calls, holder, out, faults, astray>>

\* The next backend is called through memory that was given back, or past the
\* backends there are: anything may happen, and the thread ends here.
Stray(t) ==
  /\ pc[t] = "call" /\ iter[t].at < iter[t].end
  /\ iter[t].block # block \/ iter[t].at >= backends
  /\ astray' = TRUE
  /\ pc' = [pc EXCEPT ![t] = "idle"]
  /\ UNCHANGED <<level, storeVars, entry, iter, calls, holder, out, faults>>

AtBackend(t) ==
  pc[t] = "call" /\ iter[t].at < iter[t].end /\ iter[t].block = block /\ iter[t].at < backends

By(t, s) == [i \in DOMAIN s |-> <<entry[t], s[i]>>]

\* Console::entry: stdout is locked, the prefix of the level written ...
ConsoleOpen(t) ==
  /\ AtBackend(t) /\ iter[t].at = 0 /\ holder = Nobody
  /\ holder' = t
  /\ out' = [out EXCEPT ![1] = @ \o By(t, <<"p">>)]
  /\ pc' = [pc EXCEPT ![t] = "locked"]
  /\ UNCHANGED <<level, storeVars, entry, iter, calls, faults, astray>>

\* ... the message, with a margin after every newline ...
ConsoleLine == [m \in Messages |->
  LET Put(text, c) == text \o IF c = "n" THEN <<"n", "s">> ELSE <<c>>
  IN Loop(Put, <<>>, Text[m])]

ConsoleText(t) ==
  /\ pc[t] = "locked"
  /\ out' = [out EXCEPT ![1] = @ \o By(t, ConsoleLine[entry[t][3]])]
  /\ pc' = [pc EXCEPT ![t] = "close"]
  /\ UNCHANGED <<level, storeVars, entry, iter, calls, holder, faults, astray>>

\* Faulty form of ConsoleClose: stdout stays locked.
ConsoleCloseLocked(t) ==
  /\ pc[t] = "close"
  /\ out' = [out EXCEPT ![1] = @ \o By(t, <<"t", "n">>)]
  /\ iter' = [iter EXCEPT ![t].at = @ + 1]
  /\ pc' = [pc EXCEPT ![t] = "call"]
  /\ UNCHANGED <<level, storeVars, entry, calls, holder, faults, astray>>

\* ... the time and a newline, and stdout is unlocked.
ConsoleClose(t) ==
  /\ pc[t] = "close"
  /\ out' = [out EXCEPT ![1] = @ \o By(t, <<"t", "n">>)]
  /\ holder' = Nobody
  /\ iter' = [iter EXCEPT ![t].at = @ + 1]
  /\ pc' = [pc EXCEPT ![t] = "call"]
  /\ UNCHANGED <<level, storeVars, entry, calls, faults, astray>>

\* The line that File::entry fills into its buffer: the blanks come before
\* the newline.
FileLine == [m \in Messages |->
  LET Put(buf, c) ==
        BufferWrite(IF c = "n" THEN BufferWrite(buf, [i \in 1 .. Indent |-> "s"]) ELSE buf, <<c>>)
  IN BufferWrite(Loop(Put, BufferWrite(<<>>, <<"h">>), Text[m]), <<"n">>)]

\* File::entry: one write, of which a part may be taken, or that fails; an
\* exception ends the iteration.
FileEntry(t) ==
  /\ AtBackend(t) /\ iter[t].at > 0
  /\ LET line == FileLine[entry[t][3]]
         b == iter[t].at + 1
     IN \/ /\ out' = [out EXCEPT ![b] = @ \o By(t, line)]
           /\ iter' = [iter EXCEPT ![t].at = @ + 1]
           /\ UNCHANGED <<faults, pc>>
        \/ /\ faults < MaxFaults /\ faults' = faults + 1
           /\ \E n \in 1 .. Len(line) - 1 :
                out' = [out EXCEPT ![b] = @ \o By(t, SubSeq(line, 1, n))]
           /\ iter' = [iter EXCEPT ![t].at = @ + 1]
           /\ UNCHANGED pc
        \/ /\ faults < MaxFaults /\ faults' = faults + 1
           /\ pc' = [pc EXCEPT ![t] = "idle"]
           /\ UNCHANGED <<out, iter>>
  /\ UNCHANGED <<level, storeVars, entry, calls, holder, astray>>

Proceed(t) ==
  \/ IterBegin(t) \/ IterEnd(t) \/ IterDone(t) \/ Stray(t)
  \/ ConsoleOpen(t) \/ ConsoleText(t) \/ ConsoleClose(t) \/ FileEntry(t)

LogNext == SetLevel \/ \E t \in Thread : AddReserve(t) \/ AddCount(t) \/ Begin(t) \/ Proceed(t)

\* A call that has begun goes on when it can; nobody has to log.
LogSpec == LogInit /\ [][LogNext]_logVars
LogFairness == \A t \in Thread : WF_logVars(Proceed(t))
-----------------------------------------------------------------------------
Got(b) == {out[b][i][1] : i \in DOMAIN out[b]}

\* Has the last call of t that was not below the level returned, without a fault?
Returned(t) == pc[t] = "idle" /\ entry[t] \in Got(1) /\ faults = 0 /\ ~astray

\* The types of the variables.
LogTypeOK ==
  /\ level \in Levels
  /\ backends \in Backend /\ cap >= backends /\ block \in Nat
  /\ pc \in [Thread -> {"idle", "begin", "end", "call", "locked", "close"}]
  /\ calls \in 0 .. MaxCalls
  /\ holder = Nobody \/ pc[holder] \in {"locked", "close"}
  /\ faults \in 0 .. MaxFaults /\ astray \in BOOLEAN

\* add_backend runs while other threads log, and nothing locks the vector.
\* Its capacity is a multiple of 8 from the first push on, so that while
\* eight are enough no iteration is at memory that was moved, or past its end.
IterationsInMemory == LogTypeOK /\ (astray => cap > Align)

\* Has the buffer of a file room for the line of m?
FileLineFits == [m \in Messages |->
  Len(Text[m]) + Indent * Cardinality({i \in DOMAIN Text[m] : Text[m][i] = "n"}) + 2 < LineCap]

\* The lines of an entry are in one piece in each backend, whatever the other
\* threads log, and the next entry begins on a line of its own: in a file,
\* if the buffer had room for the newline and no write was cut short.
LinesSeparate ==
  \A b \in Backend : \A i \in DOMAIN out[b] : i > 1 /\ out[b][i][1] # out[b][i - 1][1] =>
    /\ \A k \in 1 .. i - 1 : out[b][k][1] # out[b][i][1]
    /\ b = 1 \/ (faults = 0 /\ FileLineFits[out[b][i - 1][1][3]]) => out[b][i - 1][2] = "n"

\* What the console shows of an entry, without what Console::entry adds.
Shown(e) ==
  LET Keep(text, x) == text \o IF x[1] = e /\ x[2] \notin {"p", "s", "t"} THEN <<x[2]>> ELSE <<>>
      line == Loop(Keep, <<>>, out[1])
  IN SubSeq(line, 1, Len(line) - 1)

\* The texts made of whole pieces of m of which those alone are left out that
\* did not fit when their turn came.
WholePieces == [m \in Messages |->
  LET Upto(kept, k) == FlattenSeq([i \in 1 .. k |-> IF i \in kept THEN Pieces[m][i] ELSE <<>>])
      Fitting == {kept \in SUBSET DOMAIN Pieces[m] : \A k \in DOMAIN Pieces[m] :
        k \in kept <=> Len(Upto(kept, k - 1)) + Len(Pieces[m][k]) < LineCap}
  IN {Upto(kept, Len(Pieces[m])) : kept \in Fitting}]

\* The entries of a thread come to each backend in the order it logged them;
\* a later backend gets no entry that an earlier one does not get; when a call
\* has returned without a fault, every backend it found has its entry.
EntriesInOrder ==
  /\ \A b \in Backend : \A i \in DOMAIN out[b] : \A k \in 1 .. i :
       out[b][i][1][1] = out[b][k][1][1] => out[b][k][1][2] <= out[b][i][1][2]
  /\ \A b \in Backend \ {1} : Got(b) \subseteq Got(b - 1)
  /\ \A t \in Thread : Returned(t) => \A b \in 1 .. iter[t].end : entry[t] \in Got(b)

\* Entries are delivered in order, and the console shows them in whole pieces.
EntriesDelivered ==
  /\ EntriesInOrder
  /\ \A t \in Thread : Returned(t) => Shown(entry[t]) \in WholePieces[entry[t][3]]

\* Every call of a thread returns: none waits for stdout for ever.
LogReturns == \A t \in Thread : pc[t] # "idle" ~> pc[t] = "idle"
=============================================================================
