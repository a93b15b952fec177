------------------------------- MODULE Stderr -------------------------------
(***************************************************************************)
(* io::Stderr (src/sfc/io/stdio.cc, stdio.h): an unbuffered writer behind  *)
(* a mutex.  eprint and eprintln lock it for all the pieces of a text;     *)
(* panic_imp (src/sfc/core/panicking.cc) writes each piece of its message  *)
(* through Stderr::write_str, which locks for that piece, and then throws. *)
(* A write may fail: the io::Error leaves eprint through the empty ~Lock,  *)
(* and panic_imp, in the place of panicking::Error, through the guard of   *)
(* write_str.  Of a write that takes only a part of a piece the count is   *)
(* not looked at: the piece counts as written.                             *)
(***************************************************************************)
EXTENDS Naturals, Sequences, FiniteSets

CONSTANTS
  Thread,     \* the threads of the program
  Pieces,     \* how many pieces a text has
  MaxCalls,   \* bound: how often each thread uses stderr
  MaxFaults,  \* bound: how many writes fail
  Nobody      \* the holder of a free mutex

\* The constants for which the operations make sense.
StderrAssumption ==
  Pieces \in Nat \ {0} /\ {MaxCalls, MaxFaults} \subseteq Nat /\ Nobody \notin Thread

VARIABLES
  holder,     \* the thread that has locked Stderr::Inner
  pc,         \* pc[t]: "idle", "lock", "print", "panic", "write", "unwind"
  left,       \* left[t]: the pieces t has still to write
  calls,      \* calls[t]: how many texts t has begun
  out,        \* what has gone out: <<thread, number>> for every piece
  kept,       \* has an eprint ended, returned or thrown, with the mutex locked
  failed      \* the texts, <<thread, number>>, of which a write has failed

vars == <<holder, pc, left, calls, out, kept, failed>>

Init ==
  /\ holder = Nobody
  /\ pc = [t \in Thread |-> "idle"]
  /\ left = [t \in Thread |-> 0]
  /\ calls = [t \in Thread |-> 0]
  /\ out = <<>>
  /\ kept = FALSE
  /\ failed = {}

(***************************************************************************)
(* Faulty forms of the operations below.                                   *)
(***************************************************************************)

\* Stderr::write_str does not unlock.
UnlockPieceNever(t) ==
  /\ pc[t] \in {"write", "unwind"}
  /\ pc' = [pc EXCEPT ![t] = IF @ = "write" THEN "panic" ELSE "idle"]
  /\ UNCHANGED <<holder, left, calls, out, kept, failed>>

(***************************************************************************)
(* The calls of a thread                                                   *)
(***************************************************************************)

\* A thread calls eprint, or panics.
Begin(t) ==
  /\ pc[t] = "idle" /\ calls[t] < MaxCalls
  /\ calls' = [calls EXCEPT ![t] = @ + 1]
  /\ left' = [left EXCEPT ![t] = Pieces]
  /\ \E next \in {"lock", "panic"} : pc' = [pc EXCEPT ![t] = next]
  /\ UNCHANGED <<holder, out, kept, failed>>

\* eprint: Stderr::lock, whose guard is forgotten.
Lock(t) ==
  /\ pc[t] = "lock" /\ holder = Nobody
  /\ holder' = t
  /\ pc' = [pc EXCEPT ![t] = "print"]
  /\ UNCHANGED <<left, calls, out, kept, failed>>

\* Lock::write_str, without the mutex, which eprint holds.
PrintPiece(t) ==
  /\ pc[t] = "print" /\ left[t] > 0
  /\ out' = Append(out, <<t, calls[t]>>)
  /\ left' = [left EXCEPT ![t] = @ - 1]
  /\ UNCHANGED <<holder, pc, calls, kept, failed>>

\* The write fails: the io::Error leaves eprint through ~Lock, which is empty.
PrintFails(t) ==
  /\ pc[t] = "print" /\ left[t] > 0 /\ Cardinality(failed) < MaxFaults
  /\ failed' = failed \cup {<<t, calls[t]>>}
  /\ pc' = [pc EXCEPT ![t] = "idle"]
  /\ kept' = TRUE
  /\ UNCHANGED <<holder, left, calls, out>>

\* ~Lock is empty: the mutex stays locked.
PrintReturn(t) ==
  /\ pc[t] = "print" /\ left[t] = 0
  /\ pc' = [pc EXCEPT ![t] = "idle"]
  /\ kept' = TRUE
  /\ UNCHANGED <<holder, left, calls, out, failed>>

\* panic_imp: Stderr::write_str locks and writes one piece ...
LockPiece(t) ==
  /\ pc[t] = "panic" /\ left[t] > 0 /\ holder = Nobody
  /\ holder' = t
  /\ pc' = [pc EXCEPT ![t] = "write"]
  /\ out' = Append(out, <<t, calls[t]>>)
  /\ left' = [left EXCEPT ![t] = @ - 1]
  /\ UNCHANGED <<calls, kept, failed>>

\* ... or fails to write it, and the io::Error unwinds ...
PieceFails(t) ==
  /\ pc[t] = "panic" /\ left[t] > 0 /\ holder = Nobody /\ Cardinality(failed) < MaxFaults
  /\ holder' = t
  /\ pc' = [pc EXCEPT ![t] = "unwind"]
  /\ failed' = failed \cup {<<t, calls[t]>>}
  /\ UNCHANGED <<left, calls, out, kept>>

\* ... and its guard unlocks; unwinding, the panic is at its end.
UnlockPiece(t) ==
  /\ pc[t] \in {"write", "unwind"}
  /\ holder' = Nobody
  /\ pc' = [pc EXCEPT ![t] = IF @ = "write" THEN "panic" ELSE "idle"]
  /\ UNCHANGED <<left, calls, out, kept, failed>>

\* panic_imp throws once the message is out; the thread catches it.
PanicThrow(t) ==
  /\ pc[t] = "panic" /\ left[t] = 0
  /\ pc' = [pc EXCEPT ![t] = "idle"]
  /\ UNCHANGED <<holder, left, calls, out, kept, failed>>

Proceed(t) ==
  \/ Lock(t) \/ PrintPiece(t) \/ PrintFails(t) \/ PrintReturn(t)
  \/ LockPiece(t) \/ PieceFails(t) \/ UnlockPiece(t) \/ PanicThrow(t)

Next == \E t \in Thread : Begin(t) \/ Proceed(t)

Spec == Init /\ [][Next]_vars

\* A call that has begun goes on when it can.
Fairness == \A t \in Thread : WF_vars(Proceed(t))
-----------------------------------------------------------------------------
\* The types of the variables.
TypeOK ==
  /\ holder \in Thread \cup {Nobody}
  /\ pc \in [Thread -> {"idle", "lock", "print", "panic", "write", "unwind"}]
  /\ left \in [Thread -> 0 .. Pieces]
  /\ calls \in [Thread -> 0 .. MaxCalls]
  /\ out \in Seq(Thread \X (1 .. MaxCalls))
  /\ kept \in BOOLEAN
  /\ failed \subseteq Thread \X (1 .. MaxCalls)
  /\ Len(out) <= MaxCalls * Pieces * Cardinality(Thread)

\* What ~Lock leaves behind: after an eprint has ended, returned or thrown,
\* nothing more goes out, neither another text nor a panic's, of any thread.
EprintIsLast == [][kept => UNCHANGED <<out, holder>>]_vars

\* The n-th text of t has gone out, every piece of it and none twice.
Whole(t, n) == Cardinality({i \in DOMAIN out : out[i] = <<t, n>>}) = Pieces

\* A panic throws with all of its message out, whatever other panics do and
\* whichever of their writes fail, unless a write of its own has failed; only
\* an eprint that has ended keeps it, or would keep it, from its end.
PanicsReport ==
  \A t \in Thread, n \in 1 .. MaxCalls :
    (pc[t] = "panic" /\ calls[t] = n) ~>
      \/ pc[t] = "idle" /\ (Whole(t, n) \/ <<t, n>> \in failed)
      \/ kept
=============================================================================
