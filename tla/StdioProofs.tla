---------------------------- MODULE StdioProofs ----------------------------
(***************************************************************************)
(* Proofs about Stdio, for all threads, texts, capacities and failures of  *)
(* the inner writer: the writer is used by the holder of the mutex only,   *)
(* the pieces of a text come out together, and what print wrote has gone   *)
(* out when it returns.                                                    *)
(*                                                                         *)
(* The argument follows the characters of the running call: those that     *)
(* have gone out or wait in the buffer, those in the parts that the writer *)
(* has still to do, and those in the pieces that the thread has still to   *)
(* write, in this order.                                                   *)
(***************************************************************************)
EXTENDS Stdio, SequenceTheorems, FiniteSetTheorems, TLAPS

Symbol == [by : Thread \X Nat, piece : Nat, at : Nat, char : Char]
Symbols == Seq(Symbol)
Part == [op : {"put", "place", "flush", "drain"}, bytes : Symbols]

Emptying == {"flush", "drain"}
Draining == todo # <<>> /\ todo[1].op = "drain"

\* The parts that write a slice, and the characters in them.
Writes == {k \in DOMAIN todo : todo[k].op \in {"put", "place"}}
Underway == UNION {ToSet(todo[k].bytes) : k \in Writes}

\* Only the head is a write_all; a slice that is placed is the head or follows
\* a flush, and finds the buffer empty or fits.
Parts ==
  /\ todo \in Seq(Part)
  /\ Len(todo) <= 4 /\ (Len(todo) = 4 => todo[1].op \in Emptying)
  /\ \A k \in DOMAIN todo :
       /\ todo[k].op = "drain" => k = 1
       /\ todo[k].op = "place" => k = 1 \/ (k = 2 /\ todo[1].op \in Emptying)
  /\ todo # <<>> /\ todo[1].op = "place" =>
       buf = <<>> \/ Len(buf) + Len(todo[1].bytes) <= Cap

\* The characters that the running call has counted or may count still are no
\* more than it was given.
Size(k) == IF k \in Writes THEN Len(todo[k].bytes) ELSE 0
Wanted == count + Size(1) + Size(2) + Size(3) + Size(4)
Given(n) == \E text \in Texts : \E k \in DOMAIN text : n <= Len(text[k])
Counts ==
  /\ count \in Nat
  /\ Given(Wanted)
  /\ \A t \in Thread : \A k \in DOMAIN rest[t] : Given(Len(rest[t][k]))

Types ==
  /\ TypeOK
  /\ buf \in Symbols /\ sink \in Symbols
  /\ rest \in [Thread -> Seq(Symbols)]
  /\ threw \in BOOLEAN /\ faults \in Nat
  /\ cut \in {"no", "end", "middle"}

\* What the thread that holds the mutex is doing.
Locked ==
  /\ Inside = {holder} \ {Nobody}
  /\ todo # <<>> => holder # Nobody /\ pc[holder] \in {"calling", "closing"}
  /\ threw => todo = <<>> /\ faults > 0
  /\ \A t \in Thread :
       /\ pc[t] # "idle" => calls[t] > 0
       /\ pc[t] \in {"in", "closing"} => kind[t] = "print"
       /\ pc[t] \in {"idle", "want", "calling"} => ~unwinding[t]
       /\ unwinding[t] \/ pc[t] = "closing" => rest[t] = <<>>
       /\ pc[t] = "want" /\ kind[t] = "write" => rest[t] # <<>>
       /\ pc[t] = "closing" =>
            \/ todo = <<>> /\ (threw \/ buf = <<>>)
            \/ Len(todo) = 1 /\ todo[1].op \in Emptying

Self(t) == <<t, calls[t]>>

\* Where a character can be, of which call.
Held == ToSet(sink) \cup ToSet(buf)
Known(c) ==
  /\ c.by[2] <= calls[c.by[1]]
  /\ pc[c.by[1]] = "want" => c.by[2] # calls[c.by[1]]
Origins ==
  /\ \A c \in Held : Known(c)
  /\ \A c \in Underway : c.by = Self(holder)
  /\ \A t \in Thread : \A c \in Characters(rest[t]) : c.by = Self(t)
  /\ Draining => /\ ToSet(buf) \subseteq ToSet(sink) \cup ToSet(todo[1].bytes)
                 /\ ToSet(todo[1].bytes) \subseteq ToSet(buf)

\* The order of the characters that are still to come.
Ordered(pieces, K) ==
  \A k, l \in K : \A i \in DOMAIN pieces[k], j \in DOMAIN pieces[l] :
    k < l \/ (k = l /\ i < j) => Before(pieces[k][i], pieces[l][j])
Slices == [k \in DOMAIN todo |-> todo[k].bytes]
ToCome ==
  /\ Ordered(Slices, Writes)
  /\ \A t \in Thread : Ordered(rest[t], DOMAIN rest[t])
  /\ holder # Nobody =>
       \A c \in Underway : \A d \in Characters(rest[holder]) : Before(c, d)

\* The characters of the running call come last, in order, and before the
\* ones that are to come.
Together ==
  faults = 0 =>
    /\ TextsUninterleaved
    /\ holder # Nobody =>
         \A i \in DOMAIN Stream : Stream[i].by = Self(holder) =>
           /\ \A m \in i .. Len(Stream) : Stream[m].by = Self(holder)
           /\ \A c \in Underway \cup Characters(rest[holder]) : Before(Stream[i], c)

\* While nothing fails it and nothing is taken in part, no character of a
\* print is lost, and when it has returned none of them is in the buffer.
Well(t) == ~unwinding[t] /\ (pc[t] \in {"calling", "closing"} => ~threw)
Of(p, C) == {c \in C : c.by = p}
Complete ==
  /\ cut = "no" =>
       \A t \in Thread : kind[t] = "print" /\ pc[t] # "idle" /\ Well(t) =>
         \E text \in Texts :
           Of(Self(t), Held \cup Underway \cup Characters(rest[t]))
             = Characters(Signed(text, t, calls[t]))
  /\ \A p \in printed :
       /\ p[2] <= calls[p[1]]
       /\ p[2] = calls[p[1]] => pc[p[1]] = "idle"
       /\ Of(p, ToSet(buf)) = {}
  /\ PrintedIsOut

\* The inductive invariant.
IInv == Types /\ Parts /\ Counts /\ Locked /\ Origins /\ ToCome /\ Together /\ Complete
-----------------------------------------------------------------------------
\* Slice::rfind finds the last newline when there is one.
LEMMA LastNewlineIsLast ==
  ASSUME NEW s \in Symbols, Newlines(s) # {}
  PROVE  /\ LastNewline(s) \in Newlines(s)
         /\ \A k \in Newlines(s) : k <= LastNewline(s)
<1> DEFINE L == Len(s)
           Behind == {(i + 1) .. L : i \in Newlines(s)}
<1>1. L \in Nat /\ Newlines(s) \subseteq 1 .. L
  BY LenProperties DEF Newlines, Symbols
<1> HIDE DEF L
<1>2. Behind \subseteq FiniteSubsetsOf(1 .. L) /\ Behind # {}
  <2>1. Behind \subseteq SUBSET (1 .. L)
    BY <1>1
  <2>2. IsFiniteSet(1 .. L)
    BY <1>1, FS_Interval
  <2>3. FiniteSubsetsOf(1 .. L) = SUBSET (1 .. L)
    BY <2>2, FS_FiniteSubsetsOfFinite
  <2> QED
    BY <2>1, <2>3
<1>3. IsWellFoundedOn(StrictSubsetOrdering(1 .. L), FiniteSubsetsOf(1 .. L))
  BY FS_StrictSubsetOrderingWellFounded
<1>4. PICK least \in Behind :
        \A B \in Behind : ~(<<B, least>> \in StrictSubsetOrdering(1 .. L))
  <2> HIDE DEF Behind
  <2> QED
    BY <1>2, <1>3, WFMin
<1>5. PICK i \in Newlines(s) : least = (i + 1) .. L
  BY <1>4
<1>6. ASSUME NEW k \in Newlines(s) PROVE k <= i
  <2>1. SUFFICES ASSUME k > i PROVE FALSE
    BY <1>1
  <2>2. (k + 1) .. L \subseteq (i + 1) .. L
    BY <1>1, <2>1
  <2>3. k \in (i + 1) .. L /\ k \notin (k + 1) .. L
    BY <1>1, <2>1
  <2>4. (k + 1) .. L \in SUBSET (1 .. L) /\ (i + 1) .. L \in SUBSET (1 .. L)
    BY <1>1
  <2>5. <<(k + 1) .. L, (i + 1) .. L>> \in StrictSubsetOrdering(1 .. L)
    BY <2>2, <2>3, <2>4 DEF StrictSubsetOrdering
  <2> QED
    BY <1>4, <1>5, <2>5
<1> QED
  BY <1>6 DEF LastNewline

\* The parts of a call without their head, with another head, and with two
\* parts for their head.
LEMMA NoHead ==
  ASSUME NEW S, NEW t \in Seq(S), t # <<>>
  PROVE  /\ Len(t) \in Nat /\ Len(t) > 0
         /\ Tail(t) \in Seq(S)
         /\ Len(Tail(t)) = Len(t) - 1
         /\ \A i \in 1 .. Len(t) - 1 : Tail(t)[i] = t[i + 1]
         /\ <<>> \o Tail(t) = Tail(t)
<1>1. Len(t) \in Nat /\ Len(t) > 0
  BY EmptySeq, LenProperties
<1>2. /\ Tail(t) \in Seq(S)
      /\ Len(Tail(t)) = Len(t) - 1
      /\ \A i \in 1 .. Len(t) - 1 : Tail(t)[i] = t[i + 1]
  BY HeadTailProperties
<1>3. <<>> \o Tail(t) = Tail(t)
  BY <1>2, ConcatEmptySeq
<1> QED
  BY <1>1, <1>2, <1>3

\* The first element of a sequence replaced by one ...
LEMMA NewHead ==
  ASSUME NEW S, NEW t \in Seq(S), t # <<>>, NEW x \in S
  PROVE  /\ <<x>> \o Tail(t) \in Seq(S)
         /\ Len(<<x>> \o Tail(t)) = Len(t)
         /\ (<<x>> \o Tail(t))[1] = x
         /\ \A i \in 2 .. Len(t) : (<<x>> \o Tail(t))[i] = t[i]
<1>1. /\ <<x>> \in Seq(S) /\ Len(<<x>>) = 1 /\ <<x>>[1] = x
  OBVIOUS
<1>2. /\ <<x>> \o Tail(t) \in Seq(S)
      /\ Len(<<x>> \o Tail(t)) = 1 + Len(Tail(t))
      /\ \A i \in 1 .. 1 + Len(Tail(t)) : (<<x>> \o Tail(t))[i] =
           IF i <= 1 THEN <<x>>[i] ELSE Tail(t)[i - 1]
  BY <1>1, NoHead, ConcatProperties
<1> QED
  BY <1>1, <1>2, NoHead

\* ... and by two.
LEMMA NewHeads ==
  ASSUME NEW S, NEW t \in Seq(S), t # <<>>, NEW x \in S, NEW y \in S
  PROVE  /\ <<x, y>> \o Tail(t) \in Seq(S)
         /\ Len(<<x, y>> \o Tail(t)) = Len(t) + 1
         /\ (<<x, y>> \o Tail(t))[1] = x
         /\ (<<x, y>> \o Tail(t))[2] = y
         /\ \A i \in 3 .. Len(t) + 1 : (<<x, y>> \o Tail(t))[i] = t[i - 1]
<1>1. /\ <<x, y>> \in Seq(S) /\ Len(<<x, y>>) = 2
      /\ <<x, y>>[1] = x /\ <<x, y>>[2] = y
  OBVIOUS
<1>2. /\ <<x, y>> \o Tail(t) \in Seq(S)
      /\ Len(<<x, y>> \o Tail(t)) = 2 + Len(Tail(t))
      /\ \A i \in 1 .. 2 + Len(Tail(t)) : (<<x, y>> \o Tail(t))[i] =
           IF i <= 2 THEN <<x, y>>[i] ELSE Tail(t)[i - 2]
  BY <1>1, NoHead, ConcatProperties
<1> QED
  BY <1>1, <1>2, NoHead

\* What a sequence holds, when two are joined or one is cut in two.
LEMMA HoldsBoth ==
  ASSUME NEW s \in Symbols, NEW t \in Symbols
  PROVE  ToSet(s \o t) = ToSet(s) \cup ToSet(t)
<1>1. /\ s \o t \in Symbols
      /\ Range(s \o t) = Range(s) \cup Range(t)
  BY RangeConcatenation, ConcatProperties DEF Symbols
<1>2. ToSet(s \o t) = Range(s \o t) /\ ToSet(s) = Range(s) /\ ToSet(t) = Range(t)
  BY DEF ToSet, Range
<1> QED
  BY <1>1, <1>2

\* A run of symbols cut in two, and put together again.
LEMMA CutInTwo ==
  ASSUME NEW s \in Symbols, NEW n \in 0 .. Len(s)
  PROVE  /\ SubSeq(s, 1, n) \in Symbols
         /\ Len(SubSeq(s, 1, n)) = n
         /\ SubSeq(s, n + 1, Len(s)) \in Symbols
         /\ Len(SubSeq(s, n + 1, Len(s))) = Len(s) - n
         /\ SubSeq(s, 1, n) \o SubSeq(s, n + 1, Len(s)) = s
<1>1. Len(s) \in Nat /\ \A i \in 1 .. Len(s) : s[i] \in Symbol
  BY LenProperties, ElementOfSeq DEF Symbols
<1>2. /\ SubSeq(s, 1, n) \in Symbols
      /\ Len(SubSeq(s, 1, n)) = n
  BY <1>1, SubSeqProperties DEF Symbols
<1>3. /\ SubSeq(s, n + 1, Len(s)) \in Symbols
      /\ Len(SubSeq(s, n + 1, Len(s))) = Len(s) - n
  <2>1. n + 1 \in Int /\ Len(s) \in Int /\ \A i \in n + 1 .. Len(s) : s[i] \in Symbol
    BY <1>1
  <2>2. /\ SubSeq(s, n + 1, Len(s)) \in Seq(Symbol)
        /\ Len(SubSeq(s, n + 1, Len(s))) = IF n + 1 <= Len(s) THEN Len(s) - (n + 1) + 1 ELSE 0
    BY <2>1, SubSeqProperties
  <2> QED
    BY <1>1, <2>2 DEF Symbols
<1>4. SubSeq(s, 1, n) \o SubSeq(s, n + 1, Len(s)) = SubSeq(s, 1, Len(s))
  <2>1. /\ 1 \in 1 .. Len(s) + 1
        /\ n \in 1 - 1 .. Len(s)
        /\ Len(s) \in n .. Len(s)
    BY <1>1
  <2> QED
    BY <2>1, ConcatAdjacentSubSeq DEF Symbols
<1> QED
  BY <1>2, <1>3, <1>4, SubSeqFull DEF Symbols

\* The parts have their types.
LEMMA PartsTyped ==
  ASSUME NEW t \in Seq(Part)
  PROVE  /\ Len(t) \in Nat /\ DOMAIN t = 1 .. Len(t)
         /\ t # <<>> => Len(t) > 0 /\ Head(t) = t[1] /\ t[1] \in Part
         /\ Len(t) > 0 => t # <<>>
         /\ \A k \in DOMAIN t : t[k] \in Part
         /\ \A k \in DOMAIN t :
              t[k].op \in {"put", "place", "flush", "drain"} /\ t[k].bytes \in Seq(Symbol)
<1>1. Len(t) \in Nat /\ DOMAIN t = 1 .. Len(t)
  BY LenProperties
<1>2. t # <<>> => Len(t) > 0
  BY <1>1, EmptySeq
<1>3. Len(t) > 0 => t # <<>>
  BY EmptySeq
<1>4. \A k \in DOMAIN t : t[k] \in Part
  BY <1>1, ElementOfSeq
<1> QED
  BY <1>1, <1>2, <1>3, <1>4 DEF Part, Symbols

\* An empty sequence holds nothing.
LEMMA NothingHeld == Newlines(<<>>) = {} /\ ToSet(<<>>) = {} /\ Len(<<>>) = 0
BY EmptySeq, LenProperties DEF Newlines, ToSet

\* What the invariant says of the types.
LEMMA IInvTypes ==
  ASSUME IInv
  PROVE  /\ buf \in Symbols /\ sink \in Symbols /\ todo \in Seq(Part)
         /\ count \in Nat /\ faults \in Nat
         /\ Len(todo) \in Nat /\ DOMAIN todo = 1 .. Len(todo)
         /\ todo # <<>> => Len(todo) > 0 /\ Head(todo) = todo[1]
         /\ \A k \in DOMAIN todo : todo[k] \in Part /\ todo[k].bytes \in Symbols
         /\ Writes \subseteq 1 .. 4
         /\ \A k \in Writes : Len(todo[k].bytes) \in Nat
<1>1. /\ buf \in Symbols /\ sink \in Symbols /\ todo \in Seq(Part)
      /\ count \in Nat /\ faults \in Nat
  BY DEF IInv, Types, Counts, Parts
<1>2. /\ Len(todo) \in Nat /\ DOMAIN todo = 1 .. Len(todo)
      /\ todo # <<>> => Len(todo) > 0 /\ Head(todo) = todo[1]
      /\ \A k \in DOMAIN todo : todo[k] \in Part /\ todo[k].bytes \in Symbols
  BY <1>1, PartsTyped DEF Symbols
<1>3. Writes \subseteq 1 .. 4
  BY <1>2 DEF Writes, IInv, Parts
<1>4. \A k \in Writes : Len(todo[k].bytes) \in Nat
  BY <1>2, LenProperties DEF Writes, Symbols
<1> QED
  BY <1>1, <1>2, <1>3, <1>4

\* Parts of a call that are moved, d places to the back, keep what is said of
\* the characters in them.
LEMMA PartsMove ==
  ASSUME IInv, Parts', NEW d \in {-1, 0, 1}, count' = count,
         \A k \in Writes' : k - d \in Writes /\ todo'[k].bytes = todo[k - d].bytes,
         \A k \in Writes : k + d \in Writes'
  PROVE  /\ Underway' = Underway
         /\ Ordered(Slices, Writes)'
         /\ Given(Wanted)' /\ Given(count)'
<1>1. /\ Writes \subseteq 1 .. 4 /\ Writes' \subseteq 1 .. 4
      /\ \A k \in Writes : Len(todo[k].bytes) \in Nat
      /\ DOMAIN todo' = 1 .. Len(todo')
  <2>1. DOMAIN todo' = 1 .. Len(todo') /\ Len(todo') \in Nat
    BY PartsTyped DEF Parts
  <2>2. Writes' \subseteq 1 .. 4
    BY <2>1 DEF Writes, Parts
  <2> QED
    BY <2>1, <2>2, IInvTypes
<1>2. \A k \in Writes : todo'[k + d].bytes = todo[k].bytes /\ (k + d) - d = k
  BY <1>1
<1>3. Underway' = Underway
  <2>1. ASSUME NEW c \in Underway PROVE c \in Underway'
    <3>1. PICK k \in Writes : c \in ToSet(todo[k].bytes)
      BY DEF Underway
    <3>2. k + d \in Writes' /\ c \in ToSet(todo'[k + d].bytes)
      BY <1>2, <3>1
    <3> QED
      BY <3>2 DEF Underway
  <2>2. ASSUME NEW c \in Underway' PROVE c \in Underway
    <3>1. PICK k \in Writes' : c \in ToSet(todo'[k].bytes)
      BY DEF Underway
    <3>2. k - d \in Writes /\ c \in ToSet(todo[k - d].bytes)
      BY <3>1
    <3> QED
      BY <3>2 DEF Underway
  <2> QED
    BY <2>1, <2>2
<1>4. Ordered(Slices, Writes)'
  <2>1. \A k \in Writes : Slices[k] = todo[k].bytes
    BY DEF Slices, Writes
  <2>2. \A k \in Writes' : Slices'[k] = todo'[k].bytes
    BY DEF Slices, Writes
  <2>3. SUFFICES ASSUME NEW k \in Writes', NEW l \in Writes',
                        NEW i \in DOMAIN Slices'[k], NEW j \in DOMAIN Slices'[l],
                        k < l \/ (k = l /\ i < j)
                 PROVE  Before(Slices'[k][i], Slices'[l][j])
    BY DEF Ordered
  <2>4. /\ k - d \in Writes /\ l - d \in Writes
        /\ Slices'[k] = Slices[k - d] /\ Slices'[l] = Slices[l - d]
    BY <2>1, <2>2
  <2>5. k - d < l - d \/ (k - d = l - d /\ i < j)
    BY <1>1, <2>3
  <2> QED
    BY <2>4, <2>5 DEF IInv, ToCome, Ordered
<1>5. Given(Wanted)' /\ Given(count)'
  <2>1. \A k \in 1 .. 4 : Size(k) \in Nat
    BY <1>1 DEF Size
  <2>2. \A k \in Writes' : Size(k)' = Size(k - d)
    BY DEF Size
  <2>3. \A k \in 1 .. 4 : k \notin Writes' => Size(k)' = 0
    BY DEF Size
  <2>4. /\ Wanted' <= Wanted /\ Wanted \in Nat /\ Wanted' \in Nat
        /\ count' <= Wanted' /\ count' \in Nat
    <3>0. /\ Size(1) \in Nat /\ Size(2) \in Nat /\ Size(3) \in Nat /\ Size(4) \in Nat
          /\ count \in Nat /\ count' = count
      BY <2>1, IInvTypes
    <3>1. CASE d = 0
      <4>1. \A k \in 1 .. 4 : Size(k)' \in Nat /\ Size(k)' <= Size(k)
        BY <2>1, <2>2, <2>3, <3>1
      <4>2. /\ Size(1)' \in Nat /\ Size(1)' <= Size(1)
            /\ Size(2)' \in Nat /\ Size(2)' <= Size(2)
            /\ Size(3)' \in Nat /\ Size(3)' <= Size(3)
            /\ Size(4)' \in Nat /\ Size(4)' <= Size(4)
        BY <4>1
      <4> QED
        BY <3>0, <4>2 DEF Wanted
    <3>2. CASE d = 1
      <4>1. Size(1)' = 0
        BY <1>1, <2>3, <3>2
      <4>2. \A k \in 1 .. 3 : Size(k + 1)' \in Nat /\ Size(k + 1)' <= Size(k)
        BY <2>1, <2>2, <2>3, <3>2
      <4>3. /\ Size(2)' \in Nat /\ Size(2)' <= Size(1)
            /\ Size(3)' \in Nat /\ Size(3)' <= Size(2)
            /\ Size(4)' \in Nat /\ Size(4)' <= Size(3)
        BY <4>2
      <4> QED
        BY <3>0, <4>1, <4>3 DEF Wanted
    <3>3. CASE d = -1
      <4>1. Size(4)' = 0
        BY <1>1, <2>3, <3>3
      <4>2. \A k \in 2 .. 4 : Size(k - 1)' \in Nat /\ Size(k - 1)' <= Size(k)
        BY <2>1, <2>2, <2>3, <3>3
      <4>3. /\ Size(1)' \in Nat /\ Size(1)' <= Size(2)
            /\ Size(2)' \in Nat /\ Size(2)' <= Size(3)
            /\ Size(3)' \in Nat /\ Size(3)' <= Size(4)
        BY <4>2
      <4> QED
        BY <3>0, <4>1, <4>3 DEF Wanted
    <3> QED
      BY <3>1, <3>2, <3>3
  <2>5. \A text \in Texts : \A k \in DOMAIN text : Len(text[k]) \in Nat
    BY TextsAssumption, LenProperties, ElementOfSeq
  <2>6. Given(Wanted)
    BY DEF IInv, Counts
  <2>7. \A n \in Nat : n <= Wanted => Given(n)
    BY <2>4, <2>5, <2>6 DEF Given
  <2>8. Given(Wanted')
    BY <2>4, <2>7
  <2>9. count' <= Wanted
    BY <2>4
  <2>10. Given(count')
    BY <2>4, <2>7, <2>9
  <2> QED
    BY <2>8, <2>10
<1> QED
  BY <1>3, <1>4, <1>5

\* A step of the writer that moves characters only from the buffer to the
\* inner writer keeps the invariant.
LEMMA WriterStays ==
  ASSUME IInv, Parts', NEW d \in {-1, 0, 1}, todo # <<>>,
         UNCHANGED <<holder, threadVars, printed, alive, count, threw, faults, cut>>,
         \A k \in Writes' : k - d \in Writes /\ todo'[k].bytes = todo[k - d].bytes,
         \A k \in Writes : k + d \in Writes',
         buf' \in Symbols, sink' \in Symbols, Len(buf') \in Nat,
         Stream' = Stream, Held' = Held, ToSet(buf') \subseteq ToSet(buf),
         Draining' => /\ ToSet(buf') \subseteq ToSet(sink') \cup ToSet(todo'[1].bytes)
                      /\ ToSet(todo'[1].bytes) \subseteq ToSet(buf'),
         \A t \in Thread : pc[t] = "closing" =>
            (todo' = <<>> /\ buf' = <<>>) \/ (Len(todo') = 1 /\ todo'[1].op \in Emptying)
  PROVE  IInv'
<1>1. /\ Underway' = Underway
      /\ Ordered(Slices, Writes)'
      /\ Given(Wanted)' /\ Given(count)'
  BY PartsMove
<1>2. /\ UNCHANGED <<holder, pc, kind, rest, calls, unwinding, printed, alive, count, threw, faults, cut>>
      /\ threw' = FALSE
  <2>1. ~threw /\ threw \in BOOLEAN
    BY DEF IInv, Types, Locked
  <2> QED
    BY <2>1 DEF threadVars
<1>3. Types'
  <2>1. TypeOK'
    BY <1>1, <1>2 DEF IInv, Types, TypeOK, Given
  <2>2. threw' \in BOOLEAN
    BY <1>2
  <2> QED
    BY <1>2, <2>1, <2>2 DEF IInv, Types
<1>4. Counts'
  BY <1>1, <1>2 DEF IInv, Counts
<1>5. Locked'
  <2>1. ~threw'
    BY <1>2
  <2>2. Inside' = {holder'} \ {Nobody}
    BY <1>2 DEF IInv, Locked, Inside
  <2>3. todo' # <<>> => holder' # Nobody /\ pc'[holder'] \in {"calling", "closing"}
    BY <1>2 DEF IInv, Locked
  <2>4. ASSUME NEW t \in Thread
        PROVE  /\ pc'[t] # "idle" => calls'[t] > 0
               /\ pc'[t] \in {"in", "closing"} => kind'[t] = "print"
               /\ pc'[t] \in {"idle", "want", "calling"} => ~unwinding'[t]
               /\ unwinding'[t] \/ pc'[t] = "closing" => rest'[t] = <<>>
               /\ pc'[t] = "want" /\ kind'[t] = "write" => rest'[t] # <<>>
               /\ pc'[t] = "closing" =>
                    \/ todo' = <<>> /\ (threw' \/ buf' = <<>>)
                    \/ Len(todo') = 1 /\ todo'[1].op \in Emptying
    BY <1>2, <2>4 DEF IInv, Locked
  <2> QED
    BY <2>1, <2>2, <2>3, <2>4 DEF Locked
<1>6. Origins'
  BY <1>1, <1>2 DEF IInv, Origins, Known, Self
<1>7. ToCome'
  BY <1>1, <1>2 DEF IInv, ToCome
<1>8. Together'
  BY <1>1, <1>2 DEF IInv, Together, TextsUninterleaved, Self
<1>9. Complete'
  <2>1. ASSUME cut' = "no", NEW t \in Thread,
               kind'[t] = "print", pc'[t] # "idle", Well(t)'
        PROVE  \E text \in Texts :
                 Of(Self(t), Held \cup Underway \cup Characters(rest[t]))'
                   = Characters(Signed(text, t, calls'[t]))
    <3>1. Well(t) /\ kind[t] = "print" /\ pc[t] # "idle" /\ cut = "no"
      BY <1>2, <2>1 DEF Well
    <3>2. PICK text \in Texts :
            Of(Self(t), Held \cup Underway \cup Characters(rest[t]))
              = Characters(Signed(text, t, calls[t]))
      BY <3>1 DEF IInv, Complete
    <3>3. /\ Self(t)' = Self(t)
          /\ (Held \cup Underway \cup Characters(rest[t]))'
               = Held \cup Underway \cup Characters(rest[t])
      BY <1>1, <1>2 DEF Self
    <3> QED
      BY <1>2, <3>2, <3>3 DEF Of
  <2>2. ASSUME NEW p \in printed' PROVE Of(p, ToSet(buf'))  = {}
    BY <1>2 DEF IInv, Complete, Of
  <2>3. \A p \in printed : Of(p, ToSet(sink')) = Of(p, ToSet(sink))
    BY <1>2, <2>2 DEF IInv, Complete, Of, Held
  <2>4. PrintedIsOut'
    BY <1>2, <2>3 DEF IInv, Complete, PrintedIsOut, Of
  <2> QED
    BY <1>2, <2>1, <2>2, <2>4 DEF IInv, Complete
<1> QED
  BY <1>3, <1>4, <1>5, <1>6, <1>7, <1>8, <1>9 DEF IInv

\* BufWriter::write tests whether the slice fits.
LEMMA PutKeeps ==
  ASSUME IInv, DoPut, UNCHANGED <<holder, threadVars, printed, alive>>
  PROVE  IInv'
<1> DEFINE s == todo[1].bytes
<1>1. /\ todo \in Seq(Part) /\ todo # <<>> /\ todo[1].op = "put"
      /\ Len(todo) \in Nat /\ Len(todo) > 0 /\ DOMAIN todo = 1 .. Len(todo)
      /\ Head(todo) = todo[1] /\ s \in Symbols
      /\ buf \in Symbols /\ sink \in Symbols /\ Len(buf) \in Nat /\ Len(s) \in Nat
  <2>1. /\ todo # <<>> /\ Head(todo).op = "put"
    BY DEF DoPut
  <2>2. Head(todo) = todo[1] /\ Len(todo) > 0 /\ 1 \in DOMAIN todo
    BY <2>1, IInvTypes
  <2> QED
    BY <2>1, <2>2, IInvTypes, LenProperties DEF Symbols
<1>2. /\ Flush \in Part /\ Place(s) \in Part
      /\ Flush.op = "flush" /\ Place(s).op = "place" /\ Place(s).bytes = s
  BY <1>1 DEF Flush, Place, Part, Symbols
<1>3. UNCHANGED <<buf, sink, count, threw, faults, cut>>
  BY DEF DoPut
<1>4. /\ Len(todo) <= 3
      /\ \A k \in DOMAIN todo : todo[k].op # "drain" /\ (k > 1 => todo[k].op # "place")
      /\ ~Draining
      /\ \A t \in Thread : pc[t] # "closing"
      /\ 1 \in Writes
  BY <1>1 DEF IInv, Parts, Draining, Emptying, Locked, Writes
<1>5. CASE Len(buf) + Len(s) > Cap
  <2>1. /\ todo' \in Seq(Part)
        /\ Len(todo') = Len(todo) + 1
        /\ todo'[1] = Flush /\ todo'[2] = Place(s)
        /\ \A i \in 3 .. Len(todo) + 1 : todo'[i] = todo[i - 1]
    <3>1. todo' = <<Flush, Place(s)>> \o Tail(todo)
      BY <1>1, <1>5 DEF DoPut
    <3> QED
      BY <1>1, <1>2, <3>1, NewHeads
  <2>2. DOMAIN todo' = 1 .. Len(todo) + 1 /\ todo' # <<>>
    BY <1>1, <2>1, PartsTyped
  <2>3. ASSUME NEW k \in DOMAIN todo', k > 2
        PROVE  /\ k - 1 \in DOMAIN todo /\ k - 1 > 1 /\ todo'[k] = todo[k - 1]
               /\ todo'[k].op # "drain" /\ todo'[k].op # "place"
    BY <1>1, <1>4, <2>1, <2>2, <2>3
  <2>4. \A k \in DOMAIN todo' : k = 1 \/ k = 2 \/ k > 2
    BY <1>1, <2>2
  <2>5. Parts'
    <3>1. \A k \in DOMAIN todo' :
            /\ todo'[k].op = "drain" => k = 1
            /\ todo'[k].op = "place" => k = 1 \/ (k = 2 /\ todo'[1].op \in Emptying)
      BY <1>2, <2>1, <2>3, <2>4 DEF Emptying
    <3> QED
      BY <1>1, <1>2, <1>4, <2>1, <3>1 DEF Parts, Emptying
  <2>6. \A k \in Writes' : k - 1 \in Writes /\ todo'[k].bytes = todo[k - 1].bytes
    <3>1. 2 - 1 = 1
      OBVIOUS
    <3> QED
      BY <1>2, <1>4, <2>1, <2>3, <2>4, <3>1 DEF Writes
  <2>7. \A k \in Writes : k + 1 \in Writes'
    <3>1. ASSUME NEW k \in Writes PROVE k + 1 \in Writes'
      <4>1. k \in 1 .. Len(todo)
        BY <1>1 DEF Writes
      <4>2. CASE k = 1
        BY <1>1, <1>2, <2>1, <2>2, <4>2 DEF Writes
      <4>3. CASE k > 1
        <5>1. k + 1 \in 3 .. Len(todo) + 1 /\ (k + 1) - 1 = k
          BY <4>1, <4>3
        <5> QED
          BY <2>1, <2>2, <4>1, <5>1 DEF Writes
      <4> QED
        BY <4>1, <4>2, <4>3
    <3> QED
      BY <3>1
  <2>8. Stream' = Stream /\ ~Draining' /\ Held' = Held
    <3>1. Head(todo') = todo'[1]
      BY <2>1, <2>2, PartsTyped
    <3> QED
      BY <1>1, <1>2, <1>3, <2>1, <2>2, <3>1 DEF Stream, Draining, Held
  <2> QED
    BY <1>1, <1>3, <1>4, <2>5, <2>6, <2>7, <2>8, WriterStays
<1>6. CASE ~(Len(buf) + Len(s) > Cap)
  <2>1. /\ todo' \in Seq(Part)
        /\ Len(todo') = Len(todo)
        /\ todo'[1] = Place(s)
        /\ \A i \in 2 .. Len(todo) : todo'[i] = todo[i]
    <3>1. todo' = <<Place(s)>> \o Tail(todo)
      BY <1>1, <1>6 DEF DoPut
    <3> QED
      BY <1>1, <1>2, <3>1, NewHead
  <2>2. DOMAIN todo' = 1 .. Len(todo) /\ todo' # <<>>
    BY <1>1, <2>1, PartsTyped
  <2>3. \A k \in DOMAIN todo' : k > 1 => k \in 2 .. Len(todo) /\ todo'[k] = todo[k] /\ k \in DOMAIN todo
    BY <1>1, <2>1, <2>2
  <2>4. \A k \in DOMAIN todo' : k = 1 \/ k > 1
    BY <1>1, <2>2
  <2>5. Parts'
    <3>1. \A k \in DOMAIN todo' :
            /\ todo'[k].op = "drain" => k = 1
            /\ todo'[k].op = "place" => k = 1
      BY <1>2, <1>4, <2>1, <2>3, <2>4
    <3>2. Len(buf') + Len((todo'[1]).bytes) <= Cap
      BY <1>1, <1>2, <1>3, <1>6, <2>1, CapAssumption
    <3>3. Len(todo') <= 4 /\ Len(todo') # 4
      BY <1>1, <1>4, <2>1
    <3> QED
      BY <2>1, <3>1, <3>2, <3>3 DEF Parts
  <2>6. \A k \in Writes' : k - 0 \in Writes /\ todo'[k].bytes = todo[k - 0].bytes
    <3>1. \A k \in DOMAIN todo' : k - 0 = k
      BY <1>1, <2>2
    <3> QED
      BY <1>2, <1>4, <2>1, <2>3, <2>4, <3>1 DEF Writes
  <2>7. \A k \in Writes : k + 0 \in Writes'
    <3>1. \A k \in Writes : k + 0 = k /\ k \in DOMAIN todo'
      BY <1>1, <2>2 DEF Writes
    <3> QED
      BY <1>2, <2>1, <2>2, <2>3, <2>4, <3>1 DEF Writes
  <2>8. Stream' = Stream /\ ~Draining' /\ Held' = Held
    <3>1. Head(todo') = todo'[1]
      BY <2>1, <2>2, PartsTyped
    <3> QED
      BY <1>1, <1>2, <1>3, <2>1, <2>2, <3>1 DEF Stream, Draining, Held
  <2> QED
    BY <1>1, <1>3, <1>4, <2>5, <2>6, <2>7, <2>8, WriterStays
<1> QED
  BY <1>5, <1>6

\* When what empties the buffer has come to its end, the other parts follow.
LEMMA HeadGone ==
  ASSUME IInv, todo # <<>>, todo[1].op \in Emptying,
         todo' = Tail(todo), buf' = <<>>
  PROVE  /\ Parts' /\ ~Draining'
         /\ \A k \in Writes' : k - (-1) \in Writes /\ todo'[k].bytes = todo[k - (-1)].bytes
         /\ \A k \in Writes : k + (-1) \in Writes'
         /\ \A t \in Thread : pc[t] = "closing" => todo' = <<>>
<1>1. /\ todo \in Seq(Part) /\ Len(todo) \in Nat /\ DOMAIN todo = 1 .. Len(todo)
      /\ Len(todo) <= 4 /\ Len(todo) > 0
  BY IInvTypes DEF IInv, Parts
<1>2. /\ todo' \in Seq(Part)
      /\ Len(todo') = Len(todo) - 1
      /\ \A i \in 1 .. Len(todo) - 1 : todo'[i] = todo[i + 1]
      /\ DOMAIN todo' = 1 .. Len(todo) - 1
  <2>1. /\ todo' \in Seq(Part)
        /\ Len(todo') = Len(todo) - 1
        /\ \A i \in 1 .. Len(todo) - 1 : todo'[i] = todo[i + 1]
    BY <1>1, NoHead
  <2> QED
    BY <2>1, PartsTyped
<1>3. ASSUME NEW k \in DOMAIN todo'
      PROVE  /\ k + 1 \in DOMAIN todo /\ k + 1 > 1 /\ todo'[k] = todo[k + 1]
             /\ todo'[k].op # "drain"
             /\ todo'[k].op = "place" => k = 1
  <2>1. k + 1 \in DOMAIN todo /\ k + 1 > 1 /\ todo'[k] = todo[k + 1]
    BY <1>1, <1>2
  <2> QED
    BY <1>2, <2>1 DEF IInv, Parts
<1>4. ~Draining'
  <2>1. todo' # <<>> => 1 \in DOMAIN todo'
    <3>1. todo' # <<>> => Len(todo') > 0 /\ Len(todo') \in Nat /\ DOMAIN todo' = 1 .. Len(todo')
      BY <1>2, PartsTyped
    <3> QED
      BY <3>1
  <2> QED
    BY <1>3, <2>1 DEF Draining
<1>5. Parts'
  <2>1. Len(todo') <= 4 /\ Len(todo') # 4
    <3>1. Len(todo') = Len(todo) - 1
      BY <1>2
    <3>2. Len(todo) \in Nat /\ Len(todo) <= 4
      BY <1>1
    <3>3. \A m \in Nat : m <= 4 => m - 1 <= 4 /\ m - 1 # 4
      OBVIOUS
    <3>4. Len(todo) - 1 <= 4 /\ Len(todo) - 1 # 4
      BY <3>2, <3>3
    <3> QED
      BY <3>1, <3>4, Zenon
  <2> QED
    BY <1>2, <1>3, <2>1 DEF Parts
<1>6. \A k \in Writes' : k - (-1) \in Writes /\ todo'[k].bytes = todo[k - (-1)].bytes
  <2>1. \A k \in DOMAIN todo' : k - (-1) = k + 1
    BY <1>1, <1>2
  <2> QED
    BY <1>3, <2>1 DEF Writes
<1>7. \A k \in Writes : k + (-1) \in Writes'
  <2>1. ASSUME NEW k \in Writes PROVE k + (-1) \in Writes'
    <3>1. k \in DOMAIN todo /\ k # 1
      BY DEF Writes, Emptying
    <3>2. k + (-1) \in DOMAIN todo' /\ (k + (-1)) + 1 = k
      BY <1>1, <1>2, <3>1
    <3> QED
      BY <1>3, <3>2 DEF Writes
  <2> QED
    BY <2>1
<1>8. ASSUME NEW t \in Thread, pc[t] = "closing" PROVE todo' = <<>>
  <2>1. Len(todo) = 1
    BY <1>8 DEF IInv, Locked
  <2> QED
    BY <1>2, <2>1, PartsTyped
<1> QED
  BY <1>4, <1>5, <1>6, <1>7, <1>8

\* A head that empties the buffer is followed by another one.
LEMMA HeadChanges ==
  ASSUME IInv, todo # <<>>, todo[1].op \in Emptying,
         NEW x \in Part, x.op \in Emptying, todo' = <<x>> \o Tail(todo)
  PROVE  /\ Parts' /\ todo' # <<>> /\ todo'[1] = x /\ Head(todo') = x
         /\ \A k \in Writes' : k - 0 \in Writes /\ todo'[k].bytes = todo[k - 0].bytes
         /\ \A k \in Writes : k + 0 \in Writes'
         /\ \A t \in Thread : pc[t] = "closing" => Len(todo') = 1
<1>1. /\ todo \in Seq(Part) /\ Len(todo) \in Nat /\ DOMAIN todo = 1 .. Len(todo)
      /\ Len(todo) <= 4 /\ Len(todo) > 0
  BY IInvTypes DEF IInv, Parts
<1>2. /\ todo' \in Seq(Part)
      /\ Len(todo') = Len(todo)
      /\ todo'[1] = x
      /\ \A i \in 2 .. Len(todo) : todo'[i] = todo[i]
  BY <1>1, NewHead
<1>3. DOMAIN todo' = 1 .. Len(todo) /\ todo' # <<>> /\ Head(todo') = x
  BY <1>1, <1>2, PartsTyped
<1>4. \A k \in DOMAIN todo' : k = 1 \/ (k > 1 /\ todo'[k] = todo[k] /\ k \in DOMAIN todo)
  BY <1>1, <1>2, <1>3
<1>5. Parts'
  <2>1. \A k \in DOMAIN todo' :
          /\ todo'[k].op = "drain" => k = 1
          /\ todo'[k].op = "place" => k = 1 \/ (k = 2 /\ todo'[1].op \in Emptying)
    BY <1>2, <1>4 DEF IInv, Parts
  <2> QED
    BY <1>1, <1>2, <2>1 DEF Parts, Emptying
<1>6. \A k \in Writes' : k - 0 \in Writes /\ todo'[k].bytes = todo[k - 0].bytes
  <2>1. \A k \in DOMAIN todo' : k - 0 = k
    BY <1>1, <1>3
  <2> QED
    BY <1>2, <1>4, <2>1 DEF Writes, Emptying
<1>7. \A k \in Writes : k + 0 \in Writes'
  <2>1. \A k \in Writes : k + 0 = k /\ k \in DOMAIN todo' /\ k # 1
    BY <1>1, <1>3 DEF Writes, Emptying
  <2> QED
    BY <1>4, <2>1 DEF Writes
<1>8. \A t \in Thread : pc[t] = "closing" => Len(todo') = 1
  BY <1>2 DEF IInv, Locked
<1> QED
  BY <1>2, <1>3, <1>5, <1>6, <1>7, <1>8

\* BufWriter::flush has nothing to do, or write_all begins.
LEMMA FlushKeeps ==
  ASSUME IInv, DoFlush, UNCHANGED <<holder, threadVars, printed, alive>>
  PROVE  IInv'
<1>1. /\ todo # <<>> /\ todo[1].op = "flush" /\ todo[1].op \in Emptying
      /\ Head(todo) = todo[1] /\ todo \in Seq(Part) /\ ~Draining
      /\ buf \in Symbols /\ sink \in Symbols /\ Len(buf) \in Nat
  <2>1. todo # <<>> /\ Head(todo).op = "flush"
    BY DEF DoFlush
  <2> QED
    BY <2>1, IInvTypes, LenProperties DEF Emptying, Draining, Symbols
<1>2. UNCHANGED <<buf, sink, count, threw, faults, cut>>
  BY DEF DoFlush
<1>3. CASE buf = <<>>
  <2>1. todo' = Tail(todo) /\ buf' = <<>>
    BY <1>1, <1>2, <1>3, NoHead DEF DoFlush
  <2>2. /\ Parts' /\ ~Draining'
        /\ \A k \in Writes' : k - (-1) \in Writes /\ todo'[k].bytes = todo[k - (-1)].bytes
        /\ \A k \in Writes : k + (-1) \in Writes'
        /\ \A t \in Thread : pc[t] = "closing" => todo' = <<>>
    BY <1>1, <2>1, HeadGone
  <2>3. Stream' = Stream /\ Held' = Held
    <3>1. todo' # <<>> => Head(todo') = todo'[1]
      BY <2>2, PartsTyped DEF Parts
    <3> QED
      BY <1>1, <1>2, <2>2, <3>1 DEF Stream, Draining, Held
  <2> QED
    BY <1>1, <1>2, <2>1, <2>2, <2>3, WriterStays
<1>4. CASE buf # <<>>
  <2>1. /\ todo' = <<Drain(buf)>> \o Tail(todo)
        /\ Drain(buf) \in Part /\ Drain(buf).op = "drain" /\ Drain(buf).bytes = buf
        /\ Drain(buf).op \in Emptying
    BY <1>1, <1>4 DEF DoFlush, Drain, Part, Emptying, Symbols
  <2>2. /\ Parts' /\ todo' # <<>> /\ todo'[1] = Drain(buf) /\ Head(todo') = Drain(buf)
        /\ \A k \in Writes' : k - 0 \in Writes /\ todo'[k].bytes = todo[k - 0].bytes
        /\ \A k \in Writes : k + 0 \in Writes'
        /\ \A t \in Thread : pc[t] = "closing" => Len(todo') = 1
    BY <1>1, <2>1, HeadChanges
  <2>3. Stream' = Stream /\ Held' = Held
    BY <1>1, <1>2, <2>1, <2>2 DEF Stream, Draining, Held
  <2> QED
    BY <1>1, <1>2, <2>1, <2>2, <2>3, WriterStays
<1> QED
  BY <1>3, <1>4

\* write_all: the inner writer takes some of the buffer, or the last of it.
LEMMA DrainKeeps ==
  ASSUME IInv, DoDrain, UNCHANGED <<holder, threadVars, printed, alive>>
  PROVE  IInv'
<1> DEFINE s == todo[1].bytes
<1>1. /\ todo # <<>> /\ todo[1].op = "drain" /\ todo[1].op \in Emptying
      /\ Head(todo) = todo[1] /\ todo \in Seq(Part) /\ Draining
      /\ s \in Symbols /\ buf \in Symbols /\ sink \in Symbols /\ Len(buf) \in Nat
  <2>1. todo # <<>> /\ Head(todo).op = "drain"
    BY DEF DoDrain
  <2>2. Head(todo) = todo[1] /\ 1 \in DOMAIN todo
    BY <2>1, IInvTypes
  <2> QED
    BY <2>1, <2>2, IInvTypes, LenProperties DEF Emptying, Draining, Symbols
<1>2. UNCHANGED <<count, threw, faults, cut>>
  BY DEF DoDrain
<1>3. PICK n \in 1 .. Len(s) :
        /\ sink' = sink \o SubSeq(s, 1, n)
        /\ IF n < Len(s)
           THEN /\ todo' = <<Drain(SubSeq(s, n + 1, Len(s)))>> \o Tail(todo)
                /\ UNCHANGED buf
           ELSE /\ todo' = Tail(todo)
                /\ buf' = <<>>
  BY <1>1 DEF DoDrain
<1>4. Len(s) \in Nat /\ n \in 0 .. Len(s)
  BY <1>1, LenProperties DEF Symbols
<1> DEFINE taken == SubSeq(s, 1, n)
           left == SubSeq(s, n + 1, Len(s))
<1>5. /\ taken \in Symbols /\ left \in Symbols /\ taken \o left = s
      /\ sink' = sink \o taken
      /\ sink' \in Symbols
  BY <1>1, <1>3, <1>4, CutInTwo, ConcatProperties DEF Symbols
<1>6. /\ ToSet(sink') = ToSet(sink) \cup ToSet(taken)
      /\ ToSet(s) = ToSet(taken) \cup ToSet(left)
      /\ ToSet(buf) \subseteq ToSet(sink) \cup ToSet(s)
      /\ ToSet(s) \subseteq ToSet(buf)
  BY <1>1, <1>5, HoldsBoth DEF IInv, Origins
<1>7. Stream = sink \o s
  BY <1>1 DEF Stream
<1>8. CASE n < Len(s)
  <2>1. /\ todo' = <<Drain(left)>> \o Tail(todo) /\ buf' = buf
        /\ Drain(left) \in Part /\ Drain(left).op = "drain" /\ Drain(left).bytes = left
        /\ Drain(left).op \in Emptying
    BY <1>3, <1>5, <1>8 DEF Drain, Part, Emptying
  <2>2. /\ Parts' /\ todo' # <<>> /\ todo'[1] = Drain(left) /\ Head(todo') = Drain(left)
        /\ \A k \in Writes' : k - 0 \in Writes /\ todo'[k].bytes = todo[k - 0].bytes
        /\ \A k \in Writes : k + 0 \in Writes'
        /\ \A t \in Thread : pc[t] = "closing" => Len(todo') = 1
    BY <1>1, <2>1, HeadChanges
  <2>3. Stream' = Stream
    <3>1. Stream' = (sink \o taken) \o left
      BY <1>5, <2>1, <2>2 DEF Stream
    <3>2. (sink \o taken) \o left = sink \o (taken \o left)
      <4>1. sink \in Seq(Symbol) /\ taken \in Seq(Symbol) /\ left \in Seq(Symbol)
        BY <1>1, <1>5 DEF Symbols
      <4>2. \A a, b, c \in Seq(Symbol) : (a \o b) \o c = a \o (b \o c)
        BY ConcatAssociative
      <4> HIDE DEF taken, left
      <4> QED
        BY <4>1, <4>2
    <3> QED
      BY <1>5, <1>7, <3>1, <3>2
  <2>4. Held' = Held
    BY <1>6, <2>1 DEF Held
  <2>5. /\ ToSet(buf') \subseteq ToSet(sink') \cup ToSet(left)
        /\ ToSet(left) \subseteq ToSet(buf')
    BY <1>6, <2>1
  <2>6. todo'[1].bytes = left /\ todo'[1].op \in Emptying
    BY <2>1, <2>2
  <2> QED
    BY <1>1, <1>2, <1>5, <2>1, <2>2, <2>3, <2>4, <2>5, <2>6, WriterStays
<1>9. CASE ~(n < Len(s))
  <2>1. todo' = Tail(todo) /\ buf' = <<>>
    BY <1>3, <1>9
  <2>2. /\ Parts' /\ ~Draining'
        /\ \A k \in Writes' : k - (-1) \in Writes /\ todo'[k].bytes = todo[k - (-1)].bytes
        /\ \A k \in Writes : k + (-1) \in Writes'
        /\ \A t \in Thread : pc[t] = "closing" => todo' = <<>>
    BY <1>1, <2>1, HeadGone
  <2>3. sink' = sink \o s
    <3>1. n = Len(s)
      BY <1>4, <1>9
    <3>2. taken = s
      BY <1>1, <3>1, SubSeqFull DEF Symbols
    <3> QED
      BY <1>5, <3>2
  <2>4. Stream' = Stream
    <3>1. todo' # <<>> => Head(todo') = todo'[1]
      BY <2>2, PartsTyped DEF Parts
    <3>2. Stream' = sink' \o <<>>
      BY <2>1, <2>2, <3>1 DEF Stream, Draining
    <3> QED
      BY <1>5, <1>7, <2>3, <3>2, ConcatEmptySeq DEF Symbols
  <2>5. Held' = Held
    <3>1. ToSet(sink') = ToSet(sink) \cup ToSet(s)
      BY <1>1, <2>3, HoldsBoth
    <3> QED
      BY <1>6, <2>1, <3>1, NothingHeld DEF Held
  <2>6. buf' \in Symbols /\ Len(buf') \in Nat /\ ToSet(buf') \subseteq ToSet(buf)
    BY <2>1, NothingHeld DEF Symbols
  <2> QED
    BY <1>1, <1>2, <1>5, <2>1, <2>2, <2>4, <2>5, <2>6, WriterStays
<1> QED
  BY <1>8, <1>9

\* BufWriter::write puts the slice at the head into the buffer, or past it.
LEMMA PlaceTakes ==
  ASSUME IInv, DoPlace, UNCHANGED <<holder, threadVars, printed, alive>>
  PROVE  \E n \in 0 .. Len(todo[1].bytes) : LET taken == SubSeq(todo[1].bytes, 1, n) IN
           /\ taken \in Symbols /\ Len(taken) = n
           /\ \A i \in 1 .. n : taken[i] = todo[1].bytes[i]
           /\ count' = count + n
           /\ buf' \in Symbols /\ sink' \in Symbols /\ Len(buf') \in Nat
           /\ Stream \in Symbols /\ Stream' = Stream \o taken
           /\ Held' = Held \cup ToSet(taken)
           /\ ToSet(buf') \subseteq ToSet(buf) \cup ToSet(taken)
           /\ ToSet(sink) \subseteq ToSet(sink')
           /\ ToSet(sink') \subseteq ToSet(sink) \cup ToSet(taken)
           /\ cut' = "no" => cut = "no" /\ taken = todo[1].bytes
           /\ cut' \in {"no", "end", "middle"}
<1> DEFINE s == todo[1].bytes
<1>1. /\ todo # <<>> /\ todo[1].op = "place" /\ Head(todo) = todo[1] /\ ~Draining
      /\ s \in Symbols /\ buf \in Symbols /\ sink \in Symbols
      /\ Len(s) \in Nat /\ Len(buf) \in Nat /\ count \in Nat
      /\ todo' = Tail(todo) /\ todo \in Seq(Part)
  <2>1. todo # <<>> /\ Head(todo).op = "place"
    BY DEF DoPlace
  <2>2. Head(todo) = todo[1] /\ 1 \in DOMAIN todo
    BY <2>1, IInvTypes
  <2>3. s \in Symbols /\ buf \in Symbols /\ sink \in Symbols /\ count \in Nat
    BY <2>2, IInvTypes
  <2> QED
    BY <2>1, <2>2, <2>3, LenProperties DEF Draining, Symbols, DoPlace, IInv, Parts
<1>2. ~Draining'
  <2>1. /\ Len(todo') = Len(todo) - 1 /\ todo' \in Seq(Part) /\ Len(todo) \in Nat
        /\ \A i \in 1 .. Len(todo) - 1 : todo'[i] = todo[i + 1]
    BY <1>1, NoHead
  <2>2. todo' # <<>> => Len(todo') > 0
    BY <2>1, PartsTyped
  <2>3. todo' # <<>> => todo'[1] = todo[2] /\ 2 \in DOMAIN todo
    <3>1. SUFFICES ASSUME todo' # <<>> PROVE todo'[1] = todo[2] /\ 2 \in DOMAIN todo
      OBVIOUS
    <3>2. 1 \in 1 .. Len(todo) - 1 /\ 1 + 1 = 2 /\ 2 \in 1 .. Len(todo)
      BY <2>1, <2>2, <3>1
    <3> QED
      BY <2>1, <3>2, IInvTypes
  <2> QED
    BY <2>3 DEF Draining, IInv, Parts
<1>3. todo' # <<>> => Head(todo') = todo'[1]
  BY <1>1, NoHead, PartsTyped
\* n bytes of the slice are taken, by the buffer or by the inner writer.
<1>4. \E n \in 0 .. Len(s) :
        \/ /\ n = Len(s) /\ Len(s) < Cap
           /\ buf' = buf \o SubSeq(s, 1, n) /\ sink' = sink
           /\ count' = count + n /\ cut' = cut
        \/ /\ Len(s) >= Cap
           /\ sink' = sink \o SubSeq(s, 1, n) /\ buf' = buf
           /\ count' = count + n
           /\ cut' = (IF n = Len(s) THEN cut
                      ELSE IF Tail(todo) # <<>> THEN "middle"
                      ELSE IF cut = "no" THEN "end" ELSE cut)
  <2>1. CASE Len(s) < Cap
    <3>1. buf' = buf \o s /\ count' = count + Len(s) /\ UNCHANGED <<sink, cut>>
      <4>1. ~(Len(s) >= Cap)
        BY <1>1, <2>1, CapAssumption
      <4> QED
        BY <1>1, <4>1 DEF DoPlace
    <3>2. s = SubSeq(s, 1, Len(s)) /\ Len(s) \in 0 .. Len(s)
      BY <1>1, SubSeqFull DEF Symbols
    <3> QED
      BY <2>1, <3>1, <3>2
  <2>2. CASE ~(Len(s) < Cap)
    <3>1. \E n \in 1 .. Len(s) :
            /\ sink' = sink \o SubSeq(s, 1, n)
            /\ count' = count + n
            /\ cut' = (IF n = Len(s) THEN cut
                       ELSE IF Tail(todo) # <<>> THEN "middle"
                       ELSE IF cut = "no" THEN "end" ELSE cut)
      BY <1>1, <2>2 DEF DoPlace
    <3>2. buf' = buf /\ Len(s) >= Cap
      BY <1>1, <2>2 DEF DoPlace
    <3>3. 1 .. Len(s) \subseteq 0 .. Len(s)
      BY <1>1
    <3> QED
      BY <3>1, <3>2, <3>3
  <2> QED
    BY <2>1, <2>2
<1>5. PICK n \in 0 .. Len(s) :
        \/ /\ n = Len(s) /\ Len(s) < Cap
           /\ buf' = buf \o SubSeq(s, 1, n) /\ sink' = sink
           /\ count' = count + n /\ cut' = cut
        \/ /\ Len(s) >= Cap
           /\ sink' = sink \o SubSeq(s, 1, n) /\ buf' = buf
           /\ count' = count + n
           /\ cut' = (IF n = Len(s) THEN cut
                      ELSE IF Tail(todo) # <<>> THEN "middle"
                      ELSE IF cut = "no" THEN "end" ELSE cut)
  BY <1>4
<1> DEFINE taken == SubSeq(s, 1, n)
<1>6. /\ taken \in Symbols /\ Len(taken) = n
      /\ \A i \in 1 .. n : taken[i] = s[i]
  <2>1. /\ taken \in Symbols /\ Len(taken) = n
    BY <1>1, CutInTwo
  <2>2. \A i \in 1 .. n : taken[i] = s[i]
    <3>1. \A i \in 1 .. n : s[i] \in Symbol
      BY <1>1, ElementOfSeq DEF Symbols
    <3>2. \A i \in 1 .. n - 1 + 1 : taken[i] = s[1 + i - 1]
      BY <3>1, SubSeqProperties
    <3>3. \A i \in 1 .. n : 1 + i - 1 = i /\ i \in 1 .. n - 1 + 1
      BY <1>1
    <3> QED
      BY <3>2, <3>3
  <2> QED
    BY <2>1, <2>2
<1>7. cut' = "no" => cut = "no" /\ taken = s
  <2>1. n = Len(s) => taken = s
    BY <1>1, SubSeqFull DEF Symbols
  <2> QED
    BY <1>5, <2>1
<1>8. cut' \in {"no", "end", "middle"} /\ count' = count + n
  BY <1>5 DEF IInv, Types
<1>9. /\ buf' \in Symbols /\ sink' \in Symbols /\ Len(buf') \in Nat
      /\ Stream \in Symbols /\ Stream' = Stream \o taken
      /\ Held' = Held \cup ToSet(taken)
      /\ ToSet(buf') \subseteq ToSet(buf) \cup ToSet(taken)
      /\ ToSet(sink) \subseteq ToSet(sink')
      /\ ToSet(sink') \subseteq ToSet(sink) \cup ToSet(taken)
  <2>0. Stream = sink \o buf /\ Stream \in Symbols /\ Stream' = sink' \o buf'
    <3>1. Stream = sink \o buf /\ Stream' = sink' \o buf'
      BY <1>1, <1>2, <1>3 DEF Stream, Draining
    <3> QED
      BY <1>1, <3>1, ConcatProperties DEF Symbols
  <2>1. CASE buf' = buf \o taken /\ sink' = sink
    <3>1. buf' \in Symbols /\ Len(buf') \in Nat
      <4>1. buf' \in Symbols
        BY <1>1, <1>6, <2>1, ConcatProperties DEF Symbols
      <4> QED
        BY <4>1, LenProperties DEF Symbols
    <3>2. sink \o (buf \o taken) = (sink \o buf) \o taken
      <4>1. sink \in Seq(Symbol) /\ buf \in Seq(Symbol) /\ taken \in Seq(Symbol)
        BY <1>1, <1>6 DEF Symbols
      <4>2. \A a, b, c \in Seq(Symbol) : (a \o b) \o c = a \o (b \o c)
        BY ConcatAssociative
      <4> HIDE DEF taken
      <4> QED
        BY <4>1, <4>2
    <3>3. ToSet(buf') = ToSet(buf) \cup ToSet(taken)
      BY <1>1, <1>6, <2>1, HoldsBoth
    <3> QED
      BY <1>1, <2>0, <2>1, <3>1, <3>2, <3>3 DEF Held
  <2>2. CASE sink' = sink \o taken /\ buf' = buf /\ Len(s) >= Cap
    <3>1. sink' \in Symbols
      BY <1>1, <1>6, <2>2, ConcatProperties DEF Symbols
    <3>2. buf = <<>>
      <4>1. buf = <<>> \/ Len(buf) + Len(s) <= Cap
        BY <1>1 DEF IInv, Parts
      <4>2. buf # <<>> => Len(buf) > 0
        BY <1>1, EmptySeq DEF Symbols
      <4> QED
        BY <1>1, <2>2, <4>1, <4>2, CapAssumption
    <3>3. Stream' = sink \o taken /\ Stream = sink
      BY <1>1, <2>0, <2>2, <3>1, <3>2, ConcatEmptySeq DEF Symbols
    <3>4. ToSet(sink') = ToSet(sink) \cup ToSet(taken)
      BY <1>1, <1>6, <2>2, HoldsBoth
    <3> QED
      BY <1>1, <2>0, <2>2, <3>1, <3>3, <3>4 DEF Held
  <2> QED
    BY <1>5, <2>1, <2>2
<1> HIDE DEF taken, s
<1>10. taken = SubSeq(todo[1].bytes, 1, n) /\ s = todo[1].bytes
  BY DEF taken, s
<1> QED
  BY <1>6, <1>7, <1>8, <1>9, <1>10

\* The slice that is placed leaves the parts of the call: the others are as
\* they were, one place further to the front.
LEMMA PlacedGone ==
  ASSUME IInv, todo # <<>>, todo[1].op = "place", todo' = Tail(todo)
  PROVE  /\ 1 \in Writes
         /\ todo' \in Seq(Part) /\ Len(todo') \in Nat /\ Len(todo') <= 3
         /\ \A k \in DOMAIN todo' : todo'[k].op # "drain" /\ todo'[k].op # "place"
         /\ todo' # <<>> => todo'[1].op # "drain" /\ todo'[1].op # "place"
         /\ Writes' \subseteq 1 .. 3
         /\ \A k \in Writes' : k + 1 \in Writes /\ todo'[k].bytes = todo[k + 1].bytes
<1>1. /\ todo \in Seq(Part) /\ Len(todo) \in Nat /\ DOMAIN todo = 1 .. Len(todo)
      /\ Len(todo) <= 4 /\ Len(todo) > 0
  BY IInvTypes DEF IInv, Parts
<1>2. /\ todo' \in Seq(Part)
      /\ Len(todo') = Len(todo) - 1
      /\ \A i \in 1 .. Len(todo) - 1 : todo'[i] = todo[i + 1]
  BY <1>1, NoHead
<1>3. /\ Len(todo') \in Nat /\ DOMAIN todo' = 1 .. Len(todo')
      /\ todo' # <<>> => Len(todo') > 0
  BY <1>2, PartsTyped
<1>4. Len(todo') <= 3
  <2>1. \A m \in Nat : m <= 4 => m - 1 <= 3
    OBVIOUS
  <2>2. Len(todo) - 1 <= 3
    BY <1>1, <2>1
  <2> QED
    BY <1>2, <2>2, Zenon
<1>5. ASSUME NEW k \in DOMAIN todo'
      PROVE  /\ k \in Nat /\ k + 1 \in DOMAIN todo /\ k + 1 > 1 /\ todo'[k] = todo[k + 1]
             /\ todo'[k].op # "drain" /\ todo'[k].op # "place"
  <2>1. k \in 1 .. Len(todo) - 1
    BY <1>2, <1>3
  <2>2. k \in Nat /\ k + 1 \in DOMAIN todo /\ k + 1 > 1 /\ todo'[k] = todo[k + 1]
    BY <1>1, <1>2, <2>1
  <2> QED
    BY <2>2 DEF IInv, Parts, Emptying
<1>6. Writes' \subseteq 1 .. 3
  BY <1>3, <1>4 DEF Writes
<1>7. \A k \in Writes' : k + 1 \in Writes /\ todo'[k].bytes = todo[k + 1].bytes
  BY <1>5 DEF Writes
<1>8. 1 \in Writes
  BY <1>1 DEF Writes
<1>9. todo' # <<>> => 1 \in DOMAIN todo'
  BY <1>3
<1> QED
  BY <1>2, <1>3, <1>4, <1>5, <1>6, <1>7, <1>8, <1>9

\* The characters of the slice that is placed are in order, and come before
\* the others that are to come.
LEMMA PlacedFirst ==
  ASSUME IInv, DoPlace
  PROVE  /\ \A i, j \in DOMAIN todo[1].bytes : i < j => Before(todo[1].bytes[i], todo[1].bytes[j])
         /\ Underway = ToSet(todo[1].bytes) \cup Underway'
         /\ \A c \in ToSet(todo[1].bytes) : \A d \in Underway' : Before(c, d)
         /\ Ordered(Slices, Writes)'
<1>1. /\ todo # <<>> /\ todo[1].op = "place" /\ todo' = Tail(todo)
  <2>1. todo # <<>> /\ Head(todo).op = "place"
    BY DEF DoPlace
  <2> QED
    BY <2>1, IInvTypes DEF DoPlace
<1>2. /\ 1 \in Writes
      /\ \A k \in Writes' : k + 1 \in Writes /\ todo'[k].bytes = todo[k + 1].bytes
      /\ Writes' \subseteq 1 .. 3
      /\ todo' \in Seq(Part)
  BY <1>1, PlacedGone
<1>3. \A k \in Writes : Slices[k] = todo[k].bytes /\ k \in 1 .. Len(todo) /\ Len(todo) \in Nat
  BY IInvTypes DEF Slices, Writes
<1>4. \A k \in Writes' : Slices'[k] = todo'[k].bytes
  BY DEF Slices, Writes
<1>5. Ordered(Slices, Writes)
  BY DEF IInv, ToCome
<1>6. ASSUME NEW i \in DOMAIN todo[1].bytes, NEW j \in DOMAIN todo[1].bytes, i < j
      PROVE  Before(todo[1].bytes[i], todo[1].bytes[j])
  BY <1>2, <1>3, <1>5, <1>6 DEF Ordered
<1>7. Underway = ToSet(todo[1].bytes) \cup Underway'
  <2>1. ASSUME NEW c \in Underway PROVE c \in ToSet(todo[1].bytes) \cup Underway'
    <3>1. PICK k \in Writes : c \in ToSet(todo[k].bytes)
      BY DEF Underway
    <3>2. CASE k = 1
      BY <3>1, <3>2
    <3>3. CASE k # 1
      <4>1. k \in DOMAIN todo /\ todo[k].op \in {"put", "place"} /\ k \in 2 .. Len(todo) /\ Len(todo) \in Nat
        BY <1>3, <3>3 DEF Writes
      <4>2. /\ Len(todo') = Len(todo) - 1 /\ DOMAIN todo' = 1 .. Len(todo')
            /\ \A i \in 1 .. Len(todo) - 1 : todo'[i] = todo[i + 1]
        BY <1>1, <1>2, IInvTypes, NoHead, PartsTyped
      <4>3. k - 1 \in DOMAIN todo' /\ todo'[k - 1] = todo[k]
        <5>1. k - 1 \in 1 .. Len(todo) - 1 /\ (k - 1) + 1 = k
          BY <4>1
        <5> QED
          BY <4>2, <5>1
      <4>4. k - 1 \in Writes' /\ c \in ToSet(todo'[k - 1].bytes)
        BY <3>1, <4>1, <4>3 DEF Writes
      <4> QED
        BY <4>4 DEF Underway
    <3> QED
      BY <3>2, <3>3
  <2>2. ASSUME NEW c \in Underway' PROVE c \in Underway
    <3>1. PICK k \in Writes' : c \in ToSet(todo'[k].bytes)
      BY DEF Underway
    <3>2. k + 1 \in Writes /\ c \in ToSet(todo[k + 1].bytes)
      BY <1>2, <3>1
    <3> QED
      BY <3>2 DEF Underway
  <2>3. ToSet(todo[1].bytes) \subseteq Underway
    BY <1>2 DEF Underway
  <2> QED
    BY <2>1, <2>2, <2>3
<1>8. ASSUME NEW c \in ToSet(todo[1].bytes), NEW d \in Underway'
      PROVE  Before(c, d)
  <2>1. PICK k \in Writes' : d \in ToSet(todo'[k].bytes)
    BY DEF Underway
  <2>2. PICK i \in DOMAIN todo[1].bytes : c = todo[1].bytes[i]
    BY DEF ToSet
  <2>3. k + 1 \in Writes /\ d \in ToSet(todo[k + 1].bytes) /\ 1 < k + 1
    BY <1>2, <2>1
  <2>4. PICK j \in DOMAIN todo[k + 1].bytes : d = todo[k + 1].bytes[j]
    BY <2>3 DEF ToSet
  <2>5. Slices[1] = todo[1].bytes /\ Slices[k + 1] = todo[k + 1].bytes
    BY <1>2, <1>3, <2>3
  <2> QED
    BY <1>2, <1>5, <2>2, <2>3, <2>4, <2>5 DEF Ordered
<1>9. Ordered(Slices, Writes)'
  <2>1. SUFFICES ASSUME NEW k \in Writes', NEW l \in Writes',
                        NEW i \in DOMAIN Slices'[k], NEW j \in DOMAIN Slices'[l],
                        k < l \/ (k = l /\ i < j)
                 PROVE  Before(Slices'[k][i], Slices'[l][j])
    BY DEF Ordered
  <2>2. /\ k + 1 \in Writes /\ l + 1 \in Writes
        /\ Slices'[k] = Slices[k + 1] /\ Slices'[l] = Slices[l + 1]
    BY <1>2, <1>3, <1>4
  <2>3. k + 1 < l + 1 \/ (k + 1 = l + 1 /\ i < j)
    BY <1>2, <2>1
  <2> QED
    BY <1>5, <2>2, <2>3 DEF Ordered
<1> QED
  BY <1>6, <1>7, <1>8, <1>9

\* A number of characters that a piece has, or fewer.
LEMMA FewerGiven ==
  ASSUME NEW m \in Nat, NEW n \in Nat, n <= m, Given(m)
  PROVE  Given(n)
<1>1. \A text \in Texts : \A k \in DOMAIN text : Len(text[k]) \in Nat
  BY TextsAssumption, LenProperties, ElementOfSeq
<1> QED
  BY <1>1 DEF Given

\* The characters that have gone out or wait are held; each knows its call.
LEMMA StreamHeld ==
  ASSUME IInv
  PROVE  /\ Stream \in Symbols /\ Len(Stream) \in Nat /\ DOMAIN Stream = 1 .. Len(Stream)
         /\ \A i \in DOMAIN Stream : Stream[i] \in Held /\ Stream[i] \in Symbol
<1> DEFINE b == IF todo # <<>> /\ Head(todo).op = "drain" THEN Head(todo).bytes ELSE buf
<1>1. sink \in Symbols /\ buf \in Symbols
  BY IInvTypes
<1>2. b \in Symbols /\ ToSet(b) \subseteq ToSet(buf)
  <2>1. CASE todo # <<>> /\ Head(todo).op = "drain"
    <3>1. Head(todo) = todo[1] /\ 1 \in DOMAIN todo /\ Draining
      BY <2>1, IInvTypes DEF Draining
    <3> QED
      BY <2>1, <3>1, IInvTypes DEF IInv, Origins
  <2>2. CASE ~(todo # <<>> /\ Head(todo).op = "drain")
    BY <1>1, <2>2
  <2> QED
    BY <2>1, <2>2
<1>3. Stream = sink \o b
  BY DEF Stream
<1> HIDE DEF b
<1>4. Stream \in Symbols /\ ToSet(Stream) = ToSet(sink) \cup ToSet(b)
  BY <1>1, <1>2, <1>3, HoldsBoth, ConcatProperties DEF Symbols
<1>5. Len(Stream) \in Nat /\ DOMAIN Stream = 1 .. Len(Stream)
  BY <1>4, LenProperties DEF Symbols
<1>6. \A i \in DOMAIN Stream : Stream[i] \in ToSet(Stream) /\ Stream[i] \in Symbol
  BY <1>4, <1>5, ElementOfSeq DEF ToSet, Symbols
<1> QED
  BY <1>2, <1>4, <1>5, <1>6 DEF Held

\* BufWriter::write puts the slice into the buffer, or past it.
LEMMA PlaceKeeps ==
  ASSUME IInv, DoPlace, UNCHANGED <<holder, threadVars, printed, alive>>
  PROVE  IInv'
<1> DEFINE s == todo[1].bytes
<1>1. PICK n \in 0 .. Len(s) : LET taken == SubSeq(s, 1, n) IN
        /\ taken \in Symbols /\ Len(taken) = n
        /\ \A i \in 1 .. n : taken[i] = s[i]
        /\ count' = count + n
        /\ buf' \in Symbols /\ sink' \in Symbols /\ Len(buf') \in Nat
        /\ Stream \in Symbols /\ Stream' = Stream \o taken
        /\ Held' = Held \cup ToSet(taken)
        /\ ToSet(buf') \subseteq ToSet(buf) \cup ToSet(taken)
        /\ ToSet(sink) \subseteq ToSet(sink')
        /\ ToSet(sink') \subseteq ToSet(sink) \cup ToSet(taken)
        /\ cut' = "no" => cut = "no" /\ taken = s
        /\ cut' \in {"no", "end", "middle"}
  BY PlaceTakes
<1> DEFINE taken == SubSeq(s, 1, n)
<1>2. /\ taken \in Symbols /\ Len(taken) = n
      /\ \A i \in 1 .. n : taken[i] = s[i]
      /\ count' = count + n
      /\ buf' \in Symbols /\ sink' \in Symbols /\ Len(buf') \in Nat
      /\ Stream \in Symbols /\ Stream' = Stream \o taken
      /\ Held' = Held \cup ToSet(taken)
      /\ ToSet(buf') \subseteq ToSet(buf) \cup ToSet(taken)
      /\ ToSet(sink) \subseteq ToSet(sink')
      /\ ToSet(sink') \subseteq ToSet(sink) \cup ToSet(taken)
      /\ cut' = "no" => cut = "no" /\ taken = s
      /\ cut' \in {"no", "end", "middle"}
  BY <1>1
<1>3. /\ todo # <<>> /\ todo[1].op = "place" /\ todo' = Tail(todo)
      /\ UNCHANGED <<threw, faults>>
      /\ s \in Symbols /\ Len(s) \in Nat /\ count \in Nat
      /\ DOMAIN s = 1 .. Len(s)
  <2>1. todo # <<>> /\ Head(todo).op = "place" /\ todo' = Tail(todo) /\ UNCHANGED <<threw, faults>>
    BY DEF DoPlace
  <2>2. Head(todo) = todo[1] /\ 1 \in DOMAIN todo /\ count \in Nat
    BY <2>1, IInvTypes
  <2>3. s \in Symbols
    BY <2>2, IInvTypes
  <2> QED
    BY <2>1, <2>2, <2>3, LenProperties DEF Symbols
<1>4. /\ 1 \in Writes
      /\ todo' \in Seq(Part) /\ Len(todo') \in Nat /\ Len(todo') <= 3
      /\ \A k \in DOMAIN todo' : todo'[k].op # "drain" /\ todo'[k].op # "place"
      /\ todo' # <<>> => todo'[1].op # "drain" /\ todo'[1].op # "place"
      /\ Writes' \subseteq 1 .. 3
      /\ \A k \in Writes' : k + 1 \in Writes /\ todo'[k].bytes = todo[k + 1].bytes
  BY <1>3, PlacedGone
<1>5. /\ \A i, j \in DOMAIN s : i < j => Before(s[i], s[j])
      /\ Underway = ToSet(s) \cup Underway'
      /\ \A c \in ToSet(s) : \A d \in Underway' : Before(c, d)
      /\ Ordered(Slices, Writes)'
  BY PlacedFirst
<1> HIDE DEF taken, s
<1>6. /\ UNCHANGED <<holder, pc, kind, rest, calls, unwinding, printed, alive>>
      /\ ~threw /\ threw' = threw /\ ~threw'
      /\ holder \in Thread /\ holder # Nobody /\ pc[holder] \in {"calling", "closing"}
      /\ pc[holder] # "idle" /\ pc[holder] # "want"
  BY <1>3 DEF threadVars, IInv, Locked, Types, TypeOK
<1>7. ToSet(taken) \subseteq ToSet(s) /\ n \in Nat /\ DOMAIN taken = 1 .. n
  <2>1. n \in Nat /\ DOMAIN taken = 1 .. n /\ 1 .. n \subseteq DOMAIN s
    BY <1>2, <1>3, LenProperties DEF Symbols
  <2> QED
    BY <1>2, <2>1 DEF ToSet
<1>8. \A c \in ToSet(taken) : c.by = Self(holder) /\ Known(c)
  <2>1. ASSUME NEW c \in ToSet(taken) PROVE c.by = Self(holder) /\ Known(c)
    <3>1. c.by = Self(holder)
      BY <1>5, <1>7 DEF IInv, Origins
    <3>2. c.by[1] = holder /\ c.by[2] = calls[holder] /\ calls[holder] \in Nat
      BY <1>6, <3>1, StdioAssumption DEF Self, IInv, Types, TypeOK
    <3> QED
      BY <1>6, <3>1, <3>2 DEF Known
  <2> QED
    BY <2>1
<1>9. Given(Wanted)' /\ Given(count)'
  <2>1. \A k \in 1 .. 4 : Size(k) \in Nat
    BY IInvTypes DEF Size
  <2>2. Size(1) = Len(s)
    BY <1>4 DEF Size, s
  <2>3. \A k \in 1 .. 3 : Size(k)' \in Nat /\ Size(k)' <= Size(k + 1)
    BY <1>4, <2>1 DEF Size
  <2>4. Size(4)' = 0
    BY <1>4 DEF Size
  <2>5. /\ Size(1)' \in Nat /\ Size(1)' <= Size(2)
        /\ Size(2)' \in Nat /\ Size(2)' <= Size(3)
        /\ Size(3)' \in Nat /\ Size(3)' <= Size(4)
    BY <2>3
  <2>6. Size(1) \in Nat /\ Size(2) \in Nat /\ Size(3) \in Nat /\ Size(4) \in Nat
    BY <2>1
  <2>7. /\ Wanted \in Nat /\ Wanted' \in Nat /\ Wanted' <= Wanted
        /\ count' \in Nat /\ count' <= Wanted
    <3>1. \A c, a1, a2, a3, a4, b1, b2, b3 \in Nat :
            n <= a1 /\ b1 <= a2 /\ b2 <= a3 /\ b3 <= a4 =>
              /\ c + a1 + a2 + a3 + a4 \in Nat
              /\ (c + n) + b1 + b2 + b3 + 0 \in Nat
              /\ (c + n) + b1 + b2 + b3 + 0 <= c + a1 + a2 + a3 + a4
              /\ c + n \in Nat /\ c + n <= c + a1 + a2 + a3 + a4
      BY <1>7
    <3>2. n <= Size(1)
      BY <1>3, <2>2
    <3>3. Wanted' = (count + n) + Size(1)' + Size(2)' + Size(3)' + 0 /\ count' = count + n
      BY <1>2, <2>4 DEF Wanted
    <3>4. Wanted = count + Size(1) + Size(2) + Size(3) + Size(4) /\ count \in Nat
      BY <1>3 DEF Wanted
    <3>5. /\ count + Size(1) + Size(2) + Size(3) + Size(4) \in Nat
          /\ (count + n) + Size(1)' + Size(2)' + Size(3)' + 0 \in Nat
          /\ (count + n) + Size(1)' + Size(2)' + Size(3)' + 0
               <= count + Size(1) + Size(2) + Size(3) + Size(4)
          /\ count + n \in Nat
          /\ count + n <= count + Size(1) + Size(2) + Size(3) + Size(4)
      BY <1>3, <2>5, <2>6, <3>1, <3>2
    <3> QED
      BY <3>3, <3>4, <3>5, Zenon
  <2> QED
    BY <2>7, FewerGiven DEF IInv, Counts
<1>10. Types'
  <2>1. TypeOK'
    BY <1>6, <1>9 DEF IInv, Types, TypeOK, Given
  <2>2. threw' \in BOOLEAN /\ faults' \in Nat
    BY <1>3 DEF IInv, Types
  <2> QED
    BY <1>2, <1>6, <2>1, <2>2 DEF IInv, Types
<1>11. Parts'
  <2>1. Len(todo') <= 4 /\ Len(todo') # 4
    <3>1. \A m \in Nat : m <= 3 => m <= 4 /\ m # 4
      OBVIOUS
    <3> QED
      BY <1>4, <3>1
  <2> QED
    BY <1>4, <2>1 DEF Parts
<1>12. Counts'
  <2>1. count' \in Nat
    BY <1>2, <1>3, <1>7
  <2> QED
    BY <1>6, <1>9, <2>1 DEF IInv, Counts
<1>13. Locked'
  <2>1. Inside' = {holder'} \ {Nobody}
    BY <1>6 DEF IInv, Locked, Inside
  <2>2. pc[holder] = "calling" /\ \A t \in Thread : pc[t] # "closing"
    BY <1>3, <1>6 DEF IInv, Locked, Emptying
  <2>3. ASSUME NEW t \in Thread
        PROVE  /\ pc'[t] # "idle" => calls'[t] > 0
               /\ pc'[t] \in {"in", "closing"} => kind'[t] = "print"
               /\ pc'[t] \in {"idle", "want", "calling"} => ~unwinding'[t]
               /\ unwinding'[t] \/ pc'[t] = "closing" => rest'[t] = <<>>
               /\ pc'[t] = "want" /\ kind'[t] = "write" => rest'[t] # <<>>
               /\ pc'[t] # "closing"
    BY <1>6, <2>2, <2>3 DEF IInv, Locked
  <2> QED
    BY <1>6, <2>1, <2>3 DEF Locked
<1>14. Origins'
  <2>1. ~Draining'
    BY <1>4 DEF Draining
  <2>2. \A c \in Held' : Known(c)'
    BY <1>2, <1>6, <1>8 DEF IInv, Origins, Known
  <2>3. \A c \in Underway' : c.by = Self(holder)'
    BY <1>5, <1>6 DEF IInv, Origins, Self
  <2> QED
    BY <1>6, <2>1, <2>2, <2>3 DEF IInv, Origins, Self
<1>15. ToCome'
  BY <1>5, <1>6 DEF IInv, ToCome
<1>16. Together'
  <2>1. SUFFICES ASSUME faults = 0 PROVE TextsUninterleaved' /\
          \A i \in DOMAIN Stream' : Stream'[i].by = Self(holder) =>
           /\ \A m \in i .. Len(Stream') : Stream'[m].by = Self(holder)
           /\ \A c \in Underway' \cup Characters(rest[holder]) : Before(Stream'[i], c)
    BY <1>3, <1>6 DEF Together, Self
  <2> DEFINE L == Len(Stream)
  <2>2. /\ TextsUninterleaved
        /\ \A i \in DOMAIN Stream : Stream[i].by = Self(holder) =>
           /\ \A m \in i .. L : Stream[m].by = Self(holder)
           /\ \A c \in Underway \cup Characters(rest[holder]) : Before(Stream[i], c)
    BY <1>6, <2>1 DEF IInv, Together
  <2>3. /\ Len(Stream') = L + n /\ L \in Nat
        /\ DOMAIN Stream' = 1 .. L + n /\ DOMAIN Stream = 1 .. L
        /\ \A i \in 1 .. L + n : Stream'[i] = IF i <= L THEN Stream[i] ELSE taken[i - L]
    <3>1. /\ Stream' \in Seq(Symbol) /\ Len(Stream') = L + n
          /\ \A i \in 1 .. L + n : Stream'[i] = IF i <= L THEN Stream[i] ELSE taken[i - L]
      BY <1>2, ConcatProperties DEF Symbols
    <3> QED
      BY <1>2, <3>1, LenProperties DEF Symbols
  <2> HIDE DEF L
  <2>4. \A i \in 1 .. L : i \in 1 .. L + n /\ Stream'[i] = Stream[i]
    BY <1>7, <2>3
  <2>5. ASSUME NEW i \in L + 1 .. L + n
        PROVE  /\ i - L \in 1 .. n /\ Stream'[i] = taken[i - L] /\ i \in 1 .. L + n
               /\ taken[i - L] \in ToSet(taken)
               /\ Stream'[i].by = Self(holder)
    <3>1. i - L \in 1 .. n /\ Stream'[i] = taken[i - L] /\ i \in 1 .. L + n
      BY <1>7, <2>3
    <3>2. taken[i - L] \in ToSet(taken)
      BY <1>7, <3>1 DEF ToSet
    <3> QED
      BY <1>8, <3>1, <3>2
  <2>6. \A i \in 1 .. L + n : i \in 1 .. L \/ i \in L + 1 .. L + n
    BY <1>7, <2>3
  <2>7. ASSUME NEW i \in DOMAIN Stream', Stream'[i].by = Self(holder)
        PROVE  /\ \A m \in i .. L + n : Stream'[m].by = Self(holder)
               /\ \A c \in Underway' \cup Characters(rest[holder]) : Before(Stream'[i], c)
    <3>1. CASE i \in 1 .. L
      <4>1. \A m \in i .. L + n : m \in i .. L \/ m \in L + 1 .. L + n
        BY <1>7, <2>3, <3>1
      <4>2. \A m \in i .. L : m \in 1 .. L
        BY <2>3, <3>1
      <4> QED
        BY <1>5, <2>2, <2>3, <2>4, <2>5, <2>7, <3>1, <4>1, <4>2
    <3>2. CASE i \in L + 1 .. L + n
      <4>1. \A m \in i .. L + n : m \in L + 1 .. L + n
        BY <1>7, <2>3, <3>2
      <4>2. Stream'[i] \in ToSet(s)
        BY <1>7, <2>5, <3>2
      <4>3. \A c \in Underway' : Before(Stream'[i], c)
        BY <1>5, <4>2
      <4>4. \A c \in Characters(rest[holder]) : Before(Stream'[i], c)
        BY <1>5, <1>6, <4>2 DEF IInv, ToCome
      <4> QED
        BY <2>5, <4>1, <4>3, <4>4
    <3> QED
      BY <2>3, <2>6, <3>1, <3>2
  <2>8. ASSUME NEW i \in DOMAIN Stream', NEW k \in DOMAIN Stream',
               i < k, Stream'[i].by = Stream'[k].by
        PROVE  /\ Before(Stream'[i], Stream'[k])
               /\ \A m \in i .. k : Stream'[m].by = Stream'[i].by
    <3>1. CASE i \in 1 .. L /\ k \in 1 .. L
      <4>1. \A m \in i .. k : m \in 1 .. L
        BY <2>3, <3>1
      <4> QED
        BY <2>1, <2>2, <2>3, <2>4, <2>8, <3>1, <4>1 DEF TextsUninterleaved
    <3>2. CASE i \in 1 .. L /\ k \in L + 1 .. L + n
      <4>1. Stream'[i].by = Self(holder) /\ Stream'[i] = Stream[i]
        BY <2>4, <2>5, <2>8, <3>2
      <4>2. Stream'[k] \in Underway
        BY <1>5, <1>7, <2>5, <3>2
      <4>3. Before(Stream[i], Stream'[k])
        BY <2>2, <2>3, <3>2, <4>1, <4>2
      <4>4. \A m \in i .. k : m \in i .. L + n
        BY <1>7, <2>3, <3>2
      <4> QED
        BY <2>7, <2>8, <4>1, <4>3, <4>4
    <3>3. CASE i \in L + 1 .. L + n /\ k \in L + 1 .. L + n
      <4>1. i - L < k - L /\ i - L \in 1 .. n /\ k - L \in 1 .. n
        BY <1>7, <2>3, <2>8, <3>3
      <4>2. 1 .. n \subseteq DOMAIN s
        BY <1>3, <1>7
      <4>3. Before(Stream'[i], Stream'[k])
        BY <1>2, <1>5, <2>5, <3>3, <4>1, <4>2
      <4>4. \A m \in i .. k : m \in L + 1 .. L + n
        BY <1>7, <2>3, <3>3
      <4> QED
        BY <2>5, <3>3, <4>3, <4>4
    <3>4. ~(i \in L + 1 .. L + n /\ k \in 1 .. L)
      BY <1>7, <2>3, <2>8
    <3> QED
      BY <2>3, <2>6, <3>1, <3>2, <3>3, <3>4
  <2>9. TextsUninterleaved'
    BY <2>8 DEF TextsUninterleaved
  <2> QED
    BY <2>3, <2>7, <2>9
<1>17. Complete'
  <2>1. ASSUME cut' = "no", NEW t \in Thread,
               kind'[t] = "print", pc'[t] # "idle", Well(t)'
        PROVE  \E text \in Texts :
                 Of(Self(t), Held \cup Underway \cup Characters(rest[t]))'
                   = Characters(Signed(text, t, calls'[t]))
    <3>1. Well(t) /\ kind[t] = "print" /\ pc[t] # "idle" /\ cut = "no"
      BY <1>2, <1>6, <2>1 DEF Well
    <3>2. PICK text \in Texts :
            Of(Self(t), Held \cup Underway \cup Characters(rest[t]))
              = Characters(Signed(text, t, calls[t]))
      BY <3>1 DEF IInv, Complete
    <3>3. /\ Self(t)' = Self(t)
          /\ (Held \cup Underway \cup Characters(rest[t]))'
               = Held \cup Underway \cup Characters(rest[t])
      BY <1>2, <1>5, <1>6, <2>1 DEF Self
    <3> QED
      BY <1>6, <3>2, <3>3 DEF Of
  <2>2. ASSUME NEW p \in printed' PROVE Of(p, ToSet(taken)) = {}
    <3>1. p \in printed /\ p \in Thread \X (1 .. MaxCalls)
      BY <1>6, <2>2 DEF IInv, Types, TypeOK
    <3>2. p # Self(holder)
      BY <1>6, <3>1 DEF IInv, Complete, Self
    <3> QED
      BY <1>8, <3>2 DEF Of
  <2>3. ASSUME NEW p \in printed'
        PROVE  Of(p, ToSet(buf')) = {} /\ Of(p, ToSet(sink')) = Of(p, ToSet(sink))
    <3>1. p \in printed /\ Of(p, ToSet(buf)) = {}
      BY <1>6, <2>3 DEF IInv, Complete
    <3> QED
      BY <1>2, <2>2, <3>1 DEF Of
  <2>4. PrintedIsOut'
    BY <1>2, <1>6, <2>3 DEF IInv, Complete, PrintedIsOut, Of
  <2> QED
    BY <1>6, <2>1, <2>3, <2>4 DEF IInv, Complete
<1> QED
  BY <1>10, <1>11, <1>12, <1>13, <1>14, <1>15, <1>16, <1>17 DEF IInv

\* A call that has ended leaves nothing to do.
LEMMA NothingToDo ==
  ASSUME IInv, todo' = <<>>, count' = count
  PROVE  /\ Parts' /\ ~Draining' /\ Underway' = {}
         /\ Ordered(Slices, Writes)'
         /\ Given(Wanted)' /\ Given(count)'
<1>1. todo' \in Seq(Part) /\ Len(todo') = 0 /\ DOMAIN todo' = {}
  BY EmptySeq, LenProperties
<1>2. Parts' /\ ~Draining'
  BY <1>1 DEF Parts, Draining
<1>3. Writes' = {}
  BY <1>1 DEF Writes
<1>4. Underway' = {} /\ Ordered(Slices, Writes)'
  BY <1>3 DEF Underway, Ordered
<1>5. Given(Wanted)' /\ Given(count)'
  <2>1. Wanted' = count + 0 + 0 + 0 + 0
    BY <1>3 DEF Wanted, Size
  <2>2. \A k \in 1 .. 4 : Size(k) \in Nat
    BY IInvTypes DEF Size
  <2>3. Size(1) \in Nat /\ Size(2) \in Nat /\ Size(3) \in Nat /\ Size(4) \in Nat
    BY <2>2
  <2>4. /\ count + 0 + 0 + 0 + 0 = count /\ count \in Nat
        /\ Wanted \in Nat /\ count <= Wanted
    BY <2>3, IInvTypes DEF Wanted
  <2>5. Given(count)
    BY <2>4, FewerGiven DEF IInv, Counts
  <2> QED
    BY <2>1, <2>4, <2>5
<1> QED
  BY <1>2, <1>4, <1>5

\* The inner writer fails: what was underway is lost, what is held is not.
LEMMA ThrowKeeps ==
  ASSUME IInv, Throw, UNCHANGED <<holder, threadVars, printed, alive>>
  PROVE  IInv'
<1>1. /\ todo # <<>> /\ todo' = <<>> /\ threw' = TRUE /\ faults' = faults + 1
      /\ UNCHANGED <<buf, sink, count, cut>>
      /\ UNCHANGED <<holder, pc, kind, rest, calls, unwinding, printed, alive>>
  BY DEF Throw, threadVars
<1>2. /\ Parts' /\ ~Draining' /\ Underway' = {}
      /\ Ordered(Slices, Writes)'
      /\ Given(Wanted)' /\ Given(count)'
  BY <1>1, NothingToDo
<1>3. faults' \in Nat /\ faults' > 0
  BY <1>1, IInvTypes
<1>4. Types'
  <2>1. TypeOK'
    BY <1>1, <1>2 DEF IInv, Types, TypeOK, Given
  <2>2. threw' \in BOOLEAN
    BY <1>1
  <2> QED
    BY <1>1, <1>3, <2>1, <2>2 DEF IInv, Types
<1>5. Counts'
  BY <1>1, <1>2 DEF IInv, Counts
<1>6. Locked'
  <2>1. Inside' = {holder'} \ {Nobody}
    BY <1>1 DEF IInv, Locked, Inside
  <2>2. ASSUME NEW t \in Thread
        PROVE  /\ pc'[t] # "idle" => calls'[t] > 0
               /\ pc'[t] \in {"in", "closing"} => kind'[t] = "print"
               /\ pc'[t] \in {"idle", "want", "calling"} => ~unwinding'[t]
               /\ unwinding'[t] \/ pc'[t] = "closing" => rest'[t] = <<>>
               /\ pc'[t] = "want" /\ kind'[t] = "write" => rest'[t] # <<>>
    BY <1>1, <2>2 DEF IInv, Locked
  <2> QED
    BY <1>1, <1>3, <2>1, <2>2 DEF Locked
<1>7. Origins'
  <2>1. \A c \in Held' : Known(c)'
    BY <1>1 DEF IInv, Origins, Known, Held
  <2> QED
    BY <1>1, <1>2, <2>1 DEF IInv, Origins, Self
<1>8. ToCome'
  BY <1>1, <1>2 DEF IInv, ToCome
<1>9. Together'
  BY <1>3 DEF Together
<1>10. Complete'
  <2>1. ASSUME cut' = "no", NEW t \in Thread,
               kind'[t] = "print", pc'[t] # "idle", Well(t)'
        PROVE  \E text \in Texts :
                 Of(Self(t), Held \cup Underway \cup Characters(rest[t]))'
                   = Characters(Signed(text, t, calls'[t]))
    <3>1. Well(t) /\ kind[t] = "print" /\ pc[t] # "idle" /\ cut = "no" /\ t # holder
      BY <1>1, <2>1 DEF Well, IInv, Locked
    <3>2. PICK text \in Texts :
            Of(Self(t), Held \cup Underway \cup Characters(rest[t]))
              = Characters(Signed(text, t, calls[t]))
      BY <3>1 DEF IInv, Complete
    <3>3. Self(t)' = Self(t) /\ Held' = Held
      BY <1>1 DEF Self, Held
    <3>4. \A c \in Underway : c.by # Self(t)
      BY <3>1 DEF IInv, Origins, Self
    <3>5. Of(Self(t), Held \cup Underway \cup Characters(rest[t]))
            = Of(Self(t), Held \cup Characters(rest[t]))
      BY <3>4 DEF Of
    <3>6. (Held \cup Underway \cup Characters(rest[t]))' = Held \cup Characters(rest[t])
      BY <1>1, <1>2, <3>3
    <3> QED
      BY <1>1, <3>2, <3>3, <3>5, <3>6 DEF Of
  <2>2. PrintedIsOut'
    BY <1>1 DEF IInv, Complete, PrintedIsOut
  <2> QED
    BY <1>1, <2>1, <2>2 DEF IInv, Complete, Of
<1> QED
  BY <1>2, <1>4, <1>5, <1>6, <1>7, <1>8, <1>9, <1>10 DEF IInv

\* Where nobody writes, prints or waits anew, the invariant stays.
LEMMA SameKeeps ==
  ASSUME IInv, UNCHANGED <<writerVars, holder, threadVars, printed>>, alive' \in BOOLEAN
  PROVE  IInv'
<1>1. UNCHANGED <<buf, sink, todo, count, threw, faults, cut, holder, pc, kind, rest, calls,
                  unwinding, printed>>
  BY DEF writerVars, threadVars
<1>2. /\ Writes' = Writes /\ Underway' = Underway /\ Slices' = Slices
      /\ Held' = Held /\ Stream' = Stream /\ Draining' = Draining
  BY <1>1 DEF Writes, Underway, Slices, Held, Stream, Draining
<1>3. Types'
  <2>1. TypeOK'
    BY <1>1 DEF IInv, Types, TypeOK
  <2>2. threw' \in BOOLEAN
    BY <1>1 DEF IInv, Types
  <2> QED
    BY <1>1, <2>1, <2>2 DEF IInv, Types
<1>4. Parts'
  BY <1>1 DEF IInv, Parts
<1>5. Counts'
  <2>1. Wanted' = Wanted
    BY <1>1, <1>2 DEF Wanted, Size
  <2> QED
    BY <1>1, <2>1 DEF IInv, Counts
<1>6. Locked'
  <2>1. Inside' = Inside /\ threw' = threw
    BY <1>1 DEF Inside
  <2> QED
    BY <1>1, <2>1 DEF IInv, Locked
<1>7. Origins'
  <2>1. \A c : Known(c)' = Known(c)
    BY <1>1 DEF Known
  <2> QED
    BY <1>1, <1>2, <2>1 DEF IInv, Origins, Self
<1>8. ToCome'
  BY <1>1, <1>2 DEF IInv, ToCome
<1>9. Together'
  BY <1>1, <1>2 DEF IInv, Together, TextsUninterleaved, Self
<1>10. Complete'
  <2>1. \A t \in Thread : Well(t)' = Well(t) /\ Self(t)' = Self(t)
    BY <1>1 DEF Well, Self
  <2>2. PrintedIsOut'
    BY <1>1 DEF IInv, Complete, PrintedIsOut
  <2> QED
    BY <1>1, <1>2, <2>1, <2>2 DEF IInv, Complete, Of
<1> QED
  BY <1>3, <1>4, <1>5, <1>6, <1>7, <1>8, <1>9, <1>10 DEF IInv

\* Between two calls of the writer, the thread that has the mutex, or takes
\* it, goes on: it passes pieces it had still to write, or none, to the writer,
\* and keeps the others or gives up.
LEMMA ThreadMoves ==
  ASSUME IInv, NEW t \in Thread, NEW x \in {"idle", "in", "calling", "closing"},
         NEW y \in Seq(Symbols), NEW u \in BOOLEAN,
         todo = <<>>, pc[t] # "idle",
         holder = t \/ (holder = Nobody /\ pc[t] = "want"),
         pc' = [pc EXCEPT ![t] = x],
         rest' = [rest EXCEPT ![t] = y],
         unwinding' = [unwinding EXCEPT ![t] = u],
         UNCHANGED <<buf, sink, faults, cut, kind, calls, alive>>,
         IF x = "idle" THEN holder' = Nobody /\ todo' = <<>> ELSE holder' = t,
         Parts', ~Draining', Ordered(Slices, Writes)',
         count' \in Nat, Given(Wanted)', Given(count)',
         threw' \in BOOLEAN, threw' => todo' = <<>> /\ faults > 0,
         todo' # <<>> => x \in {"calling", "closing"},
         x \in {"in", "closing"} => kind[t] = "print",
         x \in {"idle", "calling"} => ~u,
         u \/ x = "closing" => y = <<>>,
         x = "closing" => \/ todo' = <<>> /\ (threw' \/ buf = <<>>)
                          \/ Len(todo') = 1 /\ todo'[1].op \in Emptying,
         Ordered(y, DOMAIN y), \A k \in DOMAIN y : Given(Len(y[k])),
         Underway' \cup Characters(y) \subseteq Characters(rest[t]),
         \A c \in Underway' : \A d \in Characters(y) : Before(c, d),
         kind[t] = "print" /\ x # "idle" /\ ~u /\ (x \in {"calling", "closing"} => ~threw') =>
           Well(t) /\ Characters(rest[t]) \subseteq Underway' \cup Characters(y),
         \/ printed' = printed
         \/ /\ printed' = printed \cup {Self(t)}
            /\ x = "idle" /\ kind[t] = "print" /\ Well(t) /\ buf = <<>> /\ rest[t] = <<>>
  PROVE  IInv'
<1>1. /\ pc \in [Thread -> {"idle", "want", "in", "calling", "closing"}]
      /\ rest \in [Thread -> Seq(Symbols)]
      /\ unwinding \in [Thread -> BOOLEAN]
      /\ calls \in [Thread -> 0 .. MaxCalls] /\ MaxCalls \in Nat /\ Nobody \notin Thread
      /\ kind \in [Thread -> {"print", "write", "flush"}]
  BY StdioAssumption DEF IInv, Types, TypeOK
<1>2. /\ pc'[t] = x /\ rest'[t] = y /\ unwinding'[t] = u
      /\ \A s \in Thread \ {t} :
           pc'[s] = pc[s] /\ rest'[s] = rest[s] /\ unwinding'[s] = unwinding[s]
  BY <1>1
<1>3. /\ Underway = {} /\ ~Draining
      /\ \A c \in Underway' : c.by = Self(t)
      /\ \A c \in Characters(y) : c.by = Self(t)
  <2>1. Underway = {} /\ ~Draining
    <3>1. Writes = {}
      BY EmptySeq DEF Writes
    <3> QED
      BY <3>1 DEF Underway, Draining
  <2>2. \A c \in Characters(rest[t]) : c.by = Self(t)
    BY DEF IInv, Origins
  <2> QED
    BY <2>1, <2>2
<1>4. \A s \in Thread \ {t} : pc[s] \notin {"in", "calling", "closing"}
  <2>1. Inside = {holder} \ {Nobody}
    BY DEF IInv, Locked
  <2> QED
    BY <2>1 DEF Inside
<1>5. Stream' = Stream /\ Held' = Held /\ (\A s \in Thread : Self(s)' = Self(s))
  <2>1. todo' # <<>> => Head(todo') = todo'[1]
    BY PartsTyped DEF Parts
  <2> QED
    BY <2>1 DEF Stream, Held, Draining, Self
<1>6. Types'
  <2>1. pc' \in [Thread -> {"idle", "want", "in", "calling", "closing"}]
    BY <1>1
  <2>2. rest' \in [Thread -> Seq(Symbols)]
    BY <1>1
  <2>3. unwinding' \in [Thread -> BOOLEAN]
    BY <1>1
  <2>4. holder' \in Thread \cup {Nobody}
    OBVIOUS
  <2>5. printed' \subseteq Thread \X (1 .. MaxCalls)
    <3>1. calls[t] \in 1 .. MaxCalls
      BY <1>1 DEF IInv, Locked
    <3>2. printed \subseteq Thread \X (1 .. MaxCalls)
      BY DEF IInv, Types, TypeOK
    <3> QED
      BY <3>1, <3>2 DEF Self
  <2>6. \E text \in Texts : \E k \in DOMAIN text : count' <= Len(text[k])
    BY DEF Given
  <2>7. kind' \in [Thread -> {"print", "write", "flush"}]
    BY <1>1
  <2>8. calls' \in [Thread -> 0 .. MaxCalls]
    BY <1>1
  <2>9. alive' \in BOOLEAN
    BY DEF IInv, Types, TypeOK
  <2>10. /\ buf' \in Symbols /\ sink' \in Symbols /\ faults' \in Nat
         /\ cut' \in {"no", "end", "middle"}
    BY DEF IInv, Types
  <2>11. TypeOK'
    BY <2>1, <2>3, <2>4, <2>5, <2>6, <2>7, <2>8, <2>9 DEF TypeOK
  <2> QED
    BY <2>2, <2>10, <2>11 DEF Types
<1>7. Counts'
  <2>1. ASSUME NEW s \in Thread, NEW k \in DOMAIN rest'[s] PROVE Given(Len(rest'[s][k]))
    BY <1>2 DEF IInv, Counts
  <2> QED
    BY <2>1 DEF Counts
<1>8. Locked'
  <2>1. Inside' = {holder'} \ {Nobody}
    BY <1>1, <1>2, <1>4 DEF Inside
  <2>2. todo' # <<>> => holder' # Nobody /\ pc'[holder'] \in {"calling", "closing"}
    BY <1>1, <1>2
  <2>3. ASSUME NEW s \in Thread
        PROVE  /\ pc'[s] # "idle" => calls'[s] > 0
               /\ pc'[s] \in {"in", "closing"} => kind'[s] = "print"
               /\ pc'[s] \in {"idle", "want", "calling"} => ~unwinding'[s]
               /\ unwinding'[s] \/ pc'[s] = "closing" => rest'[s] = <<>>
               /\ pc'[s] = "want" /\ kind'[s] = "write" => rest'[s] # <<>>
               /\ pc'[s] = "closing" =>
                    \/ todo' = <<>> /\ (threw' \/ buf' = <<>>)
                    \/ Len(todo') = 1 /\ todo'[1].op \in Emptying
    <3>1. CASE s = t
      <4>1. pc'[t] # "idle" => calls'[t] > 0
        BY DEF IInv, Locked
      <4>2. unwinding'[t] \/ pc'[t] = "closing" => rest'[t] = <<>>
        BY <1>2
      <4>3. pc'[t] \in {"idle", "want", "calling"} => ~unwinding'[t]
        BY <1>2
      <4> QED
        BY <1>2, <3>1, <4>1, <4>2, <4>3
    <3>2. CASE s # t
      BY <1>2, <1>4, <3>2 DEF IInv, Locked
    <3> QED
      BY <3>1, <3>2
  <2>4. threw' => todo' = <<>> /\ faults' > 0
    OBVIOUS
  <2> QED
    BY <2>1, <2>2, <2>3, <2>4 DEF Locked
<1>9. Origins'
  <2>1. ASSUME NEW c \in Held' PROVE Known(c)'
    <3>1. Known(c)
      BY <1>5 DEF IInv, Origins
    <3>2. CASE c.by[1] = t
      BY <1>2, <3>1, <3>2 DEF Known
    <3>3. CASE c.by[1] # t
      <4>1. c.by[1] \in Thread
        <5>1. c \in Symbol
          <6>1. sink \in Seq(Symbol) /\ buf \in Seq(Symbol)
            BY DEF IInv, Types, Symbols
          <6> QED
            BY <1>5, <6>1, LenProperties, ElementOfSeq DEF Held, ToSet
        <5> QED
          BY <5>1 DEF Symbol
      <4> QED
        BY <1>2, <3>1, <3>3, <4>1 DEF Known
    <3> QED
      BY <3>2, <3>3
  <2>2. \A c \in Underway' : c.by = Self(holder)'
    <3>1. CASE x = "idle"
      <4>1. todo' = <<>> /\ count' \in Nat
        BY <3>1
      <4>2. Writes' = {}
        BY <4>1, EmptySeq DEF Writes
      <4> QED
        BY <4>2 DEF Underway
    <3>2. CASE x # "idle"
      BY <1>3, <1>5, <3>2 DEF Self
    <3> QED
      BY <3>1, <3>2
  <2>3. ASSUME NEW s \in Thread, NEW c \in Characters(rest'[s]) PROVE c.by = Self(s)'
    BY <1>2, <1>3, <1>5, <2>3 DEF IInv, Origins
  <2> QED
    BY <2>1, <2>2, <2>3 DEF Origins
<1>10. ToCome'
  <2>1. ASSUME NEW s \in Thread PROVE Ordered(rest'[s], DOMAIN rest'[s])
    BY <1>2 DEF IInv, ToCome
  <2>2. holder' # Nobody => \A c \in Underway' : \A d \in Characters(rest'[holder']) : Before(c, d)
    BY <1>2
  <2> QED
    BY <2>1, <2>2 DEF ToCome
<1>11. Together'
  <2>1. SUFFICES ASSUME faults = 0
                 PROVE  /\ TextsUninterleaved'
                        /\ holder' # Nobody =>
                             \A i \in DOMAIN Stream : Stream[i].by = Self(t) =>
                               /\ \A m \in i .. Len(Stream) : Stream[m].by = Self(t)
                               /\ \A c \in Underway' \cup Characters(y) : Before(Stream[i], c)
    <3>1. holder' # Nobody => holder' = t /\ Self(holder)' = Self(t)
      BY <1>5 DEF Self
    <3> QED
      BY <1>2, <1>5, <3>1 DEF Together
  <2>2. TextsUninterleaved'
    BY <1>5, <2>1 DEF IInv, Together, TextsUninterleaved
  <2>3. CASE holder = t
    <3>1. \A i \in DOMAIN Stream : Stream[i].by = Self(t) =>
            /\ \A m \in i .. Len(Stream) : Stream[m].by = Self(t)
            /\ \A c \in Characters(rest[t]) : Before(Stream[i], c)
      BY <1>1, <2>1, <2>3 DEF IInv, Together
    <3> QED
      BY <2>2, <3>1
  <2>4. CASE pc[t] = "want"
    <3>1. ASSUME NEW i \in DOMAIN Stream, Stream[i].by = Self(t) PROVE FALSE
      <4>1. Known(Stream[i])
        BY StreamHeld DEF IInv, Origins
      <4> QED
        BY <2>4, <3>1, <4>1 DEF Known, Self
    <3> QED
      BY <2>2, <3>1
  <2> QED
    BY <2>3, <2>4
<1>12. ASSUME cut' = "no", NEW s \in Thread,
              kind'[s] = "print", pc'[s] # "idle", Well(s)'
       PROVE  \E text \in Texts :
                Of(Self(s), Held \cup Underway \cup Characters(rest[s]))'
                  = Characters(Signed(text, s, calls'[s]))
  <2>1. /\ kind[s] = "print" /\ pc[s] # "idle" /\ Well(s) /\ cut = "no"
        /\ Of(Self(s), Underway' \cup Characters(rest'[s])) = Of(Self(s), Characters(rest[s]))
    <3>1. CASE s = t
      <4>1. ~u /\ x # "idle" /\ (x \in {"calling", "closing"} => ~threw')
        BY <1>2, <1>12, <3>1 DEF Well
      <4>2. Well(t) /\ Characters(rest[t]) = Underway' \cup Characters(y)
        BY <1>12, <3>1, <4>1
      <4> QED
        BY <1>2, <1>12, <3>1, <4>2
    <3>2. CASE s # t
      <4>1. \A c \in Underway' : c.by # Self(s)
        BY <1>3, <3>2 DEF Self
      <4>2. Well(s)
        BY <1>2, <1>4, <1>12, <3>2 DEF Well
      <4> QED
        BY <1>2, <1>12, <3>2, <4>1, <4>2 DEF Of
    <3> QED
      BY <3>1, <3>2
  <2>2. PICK text \in Texts :
          Of(Self(s), Held \cup Underway \cup Characters(rest[s]))
            = Characters(Signed(text, s, calls[s]))
    BY <2>1 DEF IInv, Complete
  <2>3. (Held \cup Underway \cup Characters(rest[s]))'
          = Held \cup (Underway' \cup Characters(rest'[s]))
    BY <1>5
  <2>4. Of(Self(s), Held \cup (Underway' \cup Characters(rest'[s])))
          = Of(Self(s), Held \cup Underway \cup Characters(rest[s]))
    BY <1>3, <2>1 DEF Of
  <2> QED
    BY <1>5, <2>2, <2>3, <2>4 DEF Of
<1>13. ASSUME NEW p \in printed'
       PROVE  /\ p[2] <= calls'[p[1]]
              /\ p[2] = calls'[p[1]] => pc'[p[1]] = "idle"
              /\ Of(p, ToSet(buf')) = {}
  <2>1. CASE p \in printed
    <3>1. /\ p[2] <= calls[p[1]]
          /\ p[2] = calls[p[1]] => pc[p[1]] = "idle"
          /\ Of(p, ToSet(buf)) = {}
          /\ p[1] \in Thread
      BY <2>1 DEF IInv, Complete, Types, TypeOK
    <3> QED
      BY <1>2, <3>1
  <2>2. CASE p = Self(t) /\ x = "idle" /\ buf = <<>>
    <3>1. p[1] = t /\ p[2] = calls[t] /\ calls[t] \in Nat
      BY <1>1, <2>2 DEF Self
    <3>2. ToSet(buf') = {}
      BY <2>2, NothingHeld
    <3> QED
      BY <1>2, <2>2, <3>1, <3>2 DEF Of
  <2> QED
    BY <2>1, <2>2
<1>14. PrintedIsOut'
  <2>1. SUFFICES ASSUME cut = "no", NEW p \in printed'
                 PROVE  \E text \in Texts :
                          {c \in ToSet(sink) : c.by = p} = Characters(Signed(text, p[1], p[2]))
    BY DEF PrintedIsOut
  <2>2. CASE p \in printed
    BY <2>1, <2>2 DEF IInv, Complete, PrintedIsOut
  <2>3. CASE p = Self(t) /\ kind[t] = "print" /\ Well(t) /\ buf = <<>> /\ rest[t] = <<>>
    <3>1. PICK text \in Texts :
            Of(Self(t), Held \cup Underway \cup Characters(rest[t]))
              = Characters(Signed(text, t, calls[t]))
      BY <2>1, <2>3 DEF IInv, Complete
    <3>2. Held \cup Underway \cup Characters(rest[t]) = ToSet(sink)
      <4>1. Characters(rest[t]) = {}
        BY <2>3, EmptySeq DEF Characters
      <4> QED
        BY <1>3, <2>3, <4>1, NothingHeld DEF Held
    <3>3. p[1] = t /\ p[2] = calls[t]
      BY <2>3 DEF Self
    <3>4. Of(p, ToSet(sink)) = Characters(Signed(text, p[1], p[2]))
      BY <2>3, <3>1, <3>2, <3>3
    <3> QED
      BY <3>4 DEF Of
  <2> QED
    BY <2>1, <2>2, <2>3
<1>15. Complete'
  BY <1>12, <1>13, <1>14 DEF Complete
<1> QED
  BY <1>6, <1>7, <1>8, <1>9, <1>10, <1>11, <1>15 DEF IInv

\* LineWriter::write begins: the slice is underway, in one part or in two.
LEMMA WriteBegins ==
  ASSUME NEW s \in Symbols, CallWrite(s), Given(Len(s)),
         \A i, j \in DOMAIN s : i < j => Before(s[i], s[j])
  PROVE  /\ Parts' /\ ~Draining' /\ todo' # <<>>
         /\ Underway' = ToSet(s) /\ Ordered(Slices, Writes)'
         /\ count' \in Nat /\ Given(Wanted)' /\ Given(count)' /\ threw' = FALSE
<1>1. /\ todo' = LineParts(s) /\ count' = 0 /\ threw' = FALSE
      /\ Len(s) \in Nat /\ DOMAIN s = 1 .. Len(s)
  BY LenProperties DEF CallWrite, Symbols
<1>2. Given(count)' /\ count' \in Nat
  BY <1>1, FewerGiven
<1>3. CASE Newlines(s) = {}
  <2>1. todo' = <<Put(s)>>
    BY <1>1, <1>3 DEF LineParts
  <2>2. /\ Put(s) \in Part /\ Put(s).op = "put" /\ Put(s).bytes = s
    BY DEF Put, Part
  <2>3. /\ todo' \in Seq(Part) /\ Len(todo') = 1 /\ DOMAIN todo' = 1 .. 1
        /\ todo'[1] = Put(s) /\ todo' # <<>>
    BY <2>1, <2>2
  <2>4. Parts' /\ ~Draining'
    BY <2>2, <2>3 DEF Parts, Draining
  <2>5. Writes' = {1}
    BY <2>2, <2>3 DEF Writes
  <2>6. Underway' = ToSet(s)
    BY <2>2, <2>3, <2>5 DEF Underway
  <2>7. Ordered(Slices, Writes)'
    <3>1. Slices'[1] = s
      BY <2>2, <2>3 DEF Slices
    <3> QED
      BY <2>5, <3>1 DEF Ordered
  <2>8. Given(Wanted)'
    <3>1. Wanted' = 0 + Len(s) + 0 + 0 + 0
      BY <1>1, <2>2, <2>3, <2>5 DEF Wanted, Size
    <3> QED
      BY <1>1, <3>1
  <2> QED
    BY <1>1, <1>2, <2>3, <2>4, <2>6, <2>7, <2>8
<1>4. CASE Newlines(s) # {}
  <2> DEFINE n == LastNewline(s)
             a == SubSeq(s, 1, n)
             b == SubSeq(s, n + 1, Len(s))
  <2>1. n \in 1 .. Len(s) /\ n \in 0 .. Len(s)
    BY <1>1, <1>4, LastNewlineIsLast DEF Newlines
  <2>2. todo' = <<Put(a), Flush, Put(b)>>
    BY <1>1, <1>4 DEF LineParts
  <2> HIDE DEF n
  <2>3. /\ a \in Symbols /\ b \in Symbols /\ a \o b = s
        /\ Len(a) = n /\ Len(b) = Len(s) - n
    BY <2>1, CutInTwo
  <2> HIDE DEF a, b
  <2>4. /\ Put(a) \in Part /\ Put(a).op = "put" /\ Put(a).bytes = a
        /\ Put(b) \in Part /\ Put(b).op = "put" /\ Put(b).bytes = b
        /\ Flush \in Part /\ Flush.op = "flush"
    BY <2>3 DEF Put, Flush, Part, Symbols
  <2>5. /\ todo' \in Seq(Part) /\ Len(todo') = 3 /\ DOMAIN todo' = 1 .. 3
        /\ todo'[1] = Put(a) /\ todo'[2] = Flush /\ todo'[3] = Put(b) /\ todo' # <<>>
    BY <2>2, <2>4
  <2>6. Parts' /\ ~Draining'
    BY <2>4, <2>5 DEF Parts, Draining
  <2>7. Writes' = {1, 3}
    BY <2>4, <2>5 DEF Writes
  <2>8. Underway' = ToSet(s)
    <3>1. ToSet(s) = ToSet(a) \cup ToSet(b)
      BY <2>3, HoldsBoth
    <3> QED
      BY <2>4, <2>5, <2>7, <3>1 DEF Underway
  <2>9. Ordered(Slices, Writes)'
    <3>1. Slices'[1] = a /\ Slices'[3] = b
      BY <2>4, <2>5 DEF Slices
    <3>2. DOMAIN a = 1 .. n /\ DOMAIN b = 1 .. Len(s) - n /\ n \in Nat
      BY <1>1, <2>1, <2>3, LenProperties DEF Symbols
    <3>3. \A i \in 1 .. n + (Len(s) - n) : s[i] = IF i <= n THEN a[i] ELSE b[i - n]
      BY <2>3, ConcatProperties DEF Symbols
    <3>4. \A i \in 1 .. n : i \in DOMAIN s /\ a[i] = s[i]
      <4>1. \A i \in 1 .. n : i \in DOMAIN s /\ i \in 1 .. n + (Len(s) - n) /\ i <= n
        BY <1>1, <2>1
      <4> QED
        BY <3>3, <4>1
    <3>5. \A i \in 1 .. Len(s) - n : n + i \in DOMAIN s /\ b[i] = s[n + i]
      <4>1. \A i \in 1 .. Len(s) - n :
              /\ n + i \in DOMAIN s /\ n + i \in 1 .. n + (Len(s) - n)
              /\ ~(n + i <= n) /\ (n + i) - n = i
        BY <1>1, <2>1
      <4> QED
        BY <3>3, <4>1
    <3>6. \A i, j \in DOMAIN a : i < j => Before(a[i], a[j])
      BY <3>2, <3>4
    <3>7. \A i, j \in DOMAIN b : i < j => Before(b[i], b[j])
      <4>1. \A i, j \in DOMAIN b : i < j => n + i < n + j
        BY <1>1, <3>2
      <4> QED
        BY <3>2, <3>5, <4>1
    <3>8. \A i \in DOMAIN a, j \in DOMAIN b : Before(a[i], b[j])
      <4>1. \A i \in DOMAIN a, j \in DOMAIN b : i < n + j
        BY <1>1, <3>2
      <4> QED
        BY <3>2, <3>4, <3>5, <4>1
    <3> QED
      BY <2>7, <3>1, <3>6, <3>7, <3>8 DEF Ordered
  <2>10. Given(Wanted)'
    <3>1. Wanted' = 0 + n + 0 + (Len(s) - n) + 0
      <4>1. /\ Size(1)' = Len(a) /\ Size(2)' = 0 /\ Size(3)' = Len(b) /\ Size(4)' = 0
        BY <2>4, <2>5, <2>7 DEF Size
      <4>2. Wanted' = 0 + Len(a) + 0 + Len(b) + 0
        BY <1>1, <4>1 DEF Wanted
      <4> QED
        BY <2>3, <4>2
    <3>2. 0 + n + 0 + (Len(s) - n) + 0 = Len(s)
      BY <1>1, <2>1
    <3> QED
      BY <3>1, <3>2
  <2> QED
    BY <1>1, <1>2, <2>5, <2>6, <2>8, <2>9, <2>10
<1> QED
  BY <1>3, <1>4

\* LineWriter::flush begins: nothing is written.
LEMMA FlushBegins ==
  ASSUME CallFlush
  PROVE  /\ Parts' /\ ~Draining' /\ Len(todo') = 1 /\ todo'[1].op \in Emptying /\ todo' # <<>>
         /\ Underway' = {} /\ Ordered(Slices, Writes)'
         /\ count' \in Nat /\ Given(Wanted)' /\ Given(count)' /\ threw' = FALSE
<1>1. todo' = <<Flush>> /\ count' = 0 /\ threw' = FALSE
  BY DEF CallFlush
<1>2. Flush \in Part /\ Flush.op = "flush"
  BY DEF Flush, Part, Symbols
<1>3. /\ todo' \in Seq(Part) /\ Len(todo') = 1 /\ DOMAIN todo' = 1 .. 1
      /\ todo'[1] = Flush /\ todo' # <<>>
  BY <1>1, <1>2
<1>4. Parts' /\ ~Draining' /\ todo'[1].op \in Emptying
  BY <1>2, <1>3 DEF Parts, Draining, Emptying
<1>5. Writes' = {}
  BY <1>2, <1>3 DEF Writes
<1>6. Underway' = {} /\ Ordered(Slices, Writes)'
  BY <1>5 DEF Underway, Ordered
<1>7. Given(0)
  <2>1. PICK text \in Texts : TRUE
    BY TextsAssumption
  <2>2. 1 \in DOMAIN text /\ Len(text[1]) \in Nat
    <3>1. text \in Seq(Seq(Char)) /\ text # <<>>
      BY TextsAssumption
    <3>2. Len(text) \in Nat /\ Len(text) # 0 /\ DOMAIN text = 1 .. Len(text)
      BY <3>1, EmptySeq, LenProperties
    <3>3. 1 \in 1 .. Len(text)
      BY <3>2
    <3> QED
      BY <3>1, <3>2, <3>3, LenProperties, ElementOfSeq
  <2> QED
    BY <2>2 DEF Given
<1>8. Given(Wanted)' /\ Given(count)'
  <2>1. Wanted' = 0 + 0 + 0 + 0 + 0
    BY <1>1, <1>5 DEF Wanted, Size
  <2> QED
    BY <1>1, <1>7, <2>1
<1> QED
  BY <1>1, <1>3, <1>4, <1>6, <1>8

\* The first of the pieces that a thread has still to write, and the others.
LEMMA FirstPiece ==
  ASSUME NEW r \in Seq(Symbols), r # <<>>, Ordered(r, DOMAIN r)
  PROVE  /\ Head(r) \in Symbols /\ Tail(r) \in Seq(Symbols)
         /\ 1 \in DOMAIN r /\ Head(r) = r[1]
         /\ \A k \in DOMAIN Tail(r) : k + 1 \in DOMAIN r /\ Tail(r)[k] = r[k + 1]
         /\ Characters(r) = ToSet(Head(r)) \cup Characters(Tail(r))
         /\ \A i, j \in DOMAIN Head(r) : i < j => Before(Head(r)[i], Head(r)[j])
         /\ Ordered(Tail(r), DOMAIN Tail(r))
         /\ \A c \in ToSet(Head(r)) : \A d \in Characters(Tail(r)) : Before(c, d)
<1> DEFINE h == Head(r)
           q == Tail(r)
<1>1. /\ Len(r) \in Nat /\ Len(r) > 0 /\ DOMAIN r = 1 .. Len(r)
      /\ q \in Seq(Symbols) /\ Len(q) = Len(r) - 1 /\ DOMAIN q = 1 .. Len(r) - 1
      /\ \A k \in 1 .. Len(r) - 1 : q[k] = r[k + 1]
  <2>1. /\ Len(r) \in Nat /\ Len(r) > 0
        /\ q \in Seq(Symbols) /\ Len(q) = Len(r) - 1
        /\ \A k \in 1 .. Len(r) - 1 : q[k] = r[k + 1]
    BY NoHead
  <2> QED
    BY <2>1, LenProperties
<1>2. 1 \in DOMAIN r /\ h = r[1] /\ h \in Symbols
  <2>1. 1 \in 1 .. Len(r)
    BY <1>1
  <2> QED
    BY <1>1, <2>1, HeadTailProperties, ElementOfSeq
<1> HIDE DEF h, q
<1>3. \A k \in DOMAIN q : k + 1 \in DOMAIN r /\ q[k] = r[k + 1] /\ 1 < k + 1 /\ k \in Nat
  <2>1. \A k \in 1 .. Len(r) - 1 : k + 1 \in 1 .. Len(r) /\ 1 < k + 1 /\ k \in Nat
    BY <1>1
  <2> QED
    BY <1>1, <2>1
<1>4. \A k \in DOMAIN r : k = 1 \/ (k - 1 \in DOMAIN q /\ r[k] = q[k - 1])
  <2>1. \A k \in 1 .. Len(r) : k = 1 \/ (k - 1 \in 1 .. Len(r) - 1 /\ (k - 1) + 1 = k)
    BY <1>1
  <2> QED
    BY <1>1, <2>1
<1>5. Characters(r) = ToSet(h) \cup Characters(q)
  BY <1>2, <1>3, <1>4 DEF Characters
<1>6. \A i, j \in DOMAIN h : i < j => Before(h[i], h[j])
  BY <1>2 DEF Ordered
<1>7. Ordered(q, DOMAIN q)
  <2>1. SUFFICES ASSUME NEW k \in DOMAIN q, NEW l \in DOMAIN q,
                        NEW i \in DOMAIN q[k], NEW j \in DOMAIN q[l],
                        k < l \/ (k = l /\ i < j)
                 PROVE  Before(q[k][i], q[l][j])
    BY DEF Ordered
  <2>2. k + 1 < l + 1 \/ (k + 1 = l + 1 /\ i < j)
    BY <1>3, <2>1
  <2> QED
    BY <1>3, <2>1, <2>2 DEF Ordered
<1>8. ASSUME NEW c \in ToSet(h), NEW d \in Characters(q) PROVE Before(c, d)
  <2>1. PICK k \in DOMAIN q : d \in ToSet(q[k])
    BY DEF Characters
  <2>2. PICK i \in DOMAIN h : c = h[i]
    BY DEF ToSet
  <2>3. PICK j \in DOMAIN q[k] : d = q[k][j]
    BY <2>1 DEF ToSet
  <2> QED
    BY <1>2, <1>3, <2>2, <2>3 DEF Ordered
<1> QED
  BY <1>1, <1>2, <1>3, <1>5, <1>6, <1>7, <1>8 DEF h, q

\* A text that a thread writes is in order, and its characters know the call.
LEMMA SignedText ==
  ASSUME NEW text \in Seq(Seq(Char)), NEW t \in Thread, NEW n \in Nat
  PROVE  /\ Signed(text, t, n) \in Seq(Symbols)
         /\ DOMAIN Signed(text, t, n) = DOMAIN text
         /\ \A k \in DOMAIN text : Len(Signed(text, t, n)[k]) = Len(text[k])
         /\ Ordered(Signed(text, t, n), DOMAIN Signed(text, t, n))
         /\ \A c \in Characters(Signed(text, t, n)) : c.by = <<t, n>>
<1> DEFINE r == Signed(text, t, n)
           P(k) == [i \in DOMAIN text[k] |->
                     [by |-> <<t, n>>, piece |-> k, at |-> i, char |-> text[k][i]]]
<1>1. /\ Len(text) \in Nat /\ DOMAIN text = 1 .. Len(text)
      /\ \A k \in DOMAIN text :
           /\ k \in Nat /\ text[k] \in Seq(Char) /\ Len(text[k]) \in Nat
           /\ DOMAIN text[k] = 1 .. Len(text[k])
           /\ \A i \in DOMAIN text[k] : i \in Nat /\ text[k][i] \in Char
  <2>1. Len(text) \in Nat /\ DOMAIN text = 1 .. Len(text)
    BY LenProperties
  <2>2. ASSUME NEW k \in DOMAIN text
        PROVE  /\ k \in Nat /\ text[k] \in Seq(Char) /\ Len(text[k]) \in Nat
               /\ DOMAIN text[k] = 1 .. Len(text[k])
    BY <2>1, LenProperties, ElementOfSeq
  <2>3. ASSUME NEW k \in DOMAIN text, NEW i \in DOMAIN text[k]
        PROVE  i \in Nat /\ text[k][i] \in Char
    BY <2>2, ElementOfSeq
  <2> QED
    BY <2>1, <2>2, <2>3
<1>2. r = [k \in 1 .. Len(text) |-> P(k)]
  BY <1>1 DEF Signed
<1>3. ASSUME NEW k \in DOMAIN text
      PROVE  P(k) \in Symbols /\ Len(P(k)) = Len(text[k]) /\ DOMAIN P(k) = DOMAIN text[k]
  <2>1. \A i \in 1 .. Len(text[k]) :
          [by |-> <<t, n>>, piece |-> k, at |-> i, char |-> text[k][i]] \in Symbol
    BY <1>1 DEF Symbol
  <2>2. P(k) = [i \in 1 .. Len(text[k]) |->
                  [by |-> <<t, n>>, piece |-> k, at |-> i, char |-> text[k][i]]]
    BY <1>1
  <2>3. P(k) \in [1 .. Len(text[k]) -> Symbol]
    BY <2>1, <2>2
  <2>4. P(k) \in Symbols
    BY <1>1, <2>3, SeqDef DEF Symbols
  <2> QED
    BY <1>1, <2>2, <2>4, LenProperties DEF Symbols
<1> HIDE DEF P, r
<1>4. r \in Seq(Symbols) /\ DOMAIN r = DOMAIN text /\ \A k \in DOMAIN text : r[k] = P(k)
  <2>1. r \in [1 .. Len(text) -> Symbols]
    BY <1>1, <1>2, <1>3
  <2> QED
    <3>1. r \in Seq(Symbols)
      <4>1. Seq(Symbols) = UNION {[1 .. m -> Symbols] : m \in Nat}
        BY SeqDef, Zenon
      <4> QED
        BY <1>1, <2>1, <4>1, Zenon
    <3>2. DOMAIN r = DOMAIN text
      BY <1>1, <2>1
    <3>3. \A k \in DOMAIN text : r[k] = P(k)
      BY <1>1, <1>2
    <3> QED
      BY <3>1, <3>2, <3>3
<1>5. ASSUME NEW k \in DOMAIN text, NEW i \in DOMAIN P(k)
      PROVE  P(k)[i].by = <<t, n>> /\ P(k)[i].piece = k /\ P(k)[i].at = i
  BY <1>3 DEF P
<1>6. Ordered(r, DOMAIN r)
  BY <1>4, <1>5 DEF Ordered, Before
<1>7. \A c \in Characters(r) : c.by = <<t, n>>
  BY <1>4, <1>5 DEF Characters, ToSet
<1> QED
  BY <1>3, <1>4, <1>6, <1>7 DEF r

\* A call begins with a number that no character knows.
LEMMA BeginKeeps ==
  ASSUME IInv, NEW t \in Thread, Begin(t)
  PROVE  IInv'
<1> DEFINE n == calls[t] + 1
<1>1. /\ pc[t] = "idle" /\ calls' = [calls EXCEPT ![t] = n] /\ pc' = [pc EXCEPT ![t] = "want"]
      /\ UNCHANGED <<buf, sink, todo, count, threw, faults, cut, holder, unwinding, printed, alive>>
      /\ calls[t] < MaxCalls
  BY DEF Begin, writerVars
<1>2. /\ pc \in [Thread -> {"idle", "want", "in", "calling", "closing"}]
      /\ rest \in [Thread -> Seq(Symbols)]
      /\ unwinding \in [Thread -> BOOLEAN]
      /\ calls \in [Thread -> 0 .. MaxCalls] /\ MaxCalls \in Nat /\ Nobody \notin Thread
      /\ kind \in [Thread -> {"print", "write", "flush"}]
  BY StdioAssumption DEF IInv, Types, TypeOK
<1>3. n \in 1 .. MaxCalls /\ n \in Nat /\ calls[t] \in Nat /\ calls'[t] = n /\ n > calls[t]
  BY <1>1, <1>2
<1> DEFINE Chosen ==
             \E r \in Seq(Symbols), x \in {"print", "write", "flush"} :
               /\ rest' = [rest EXCEPT ![t] = r] /\ kind' = [kind EXCEPT ![t] = x]
               /\ Ordered(r, DOMAIN r)
               /\ \A k \in DOMAIN r : Given(Len(r[k]))
               /\ \A c \in Characters(r) : c.by = <<t, n>>
               /\ x = "write" => r # <<>>
               /\ x = "print" => \E text \in Texts : r = Signed(text, t, n)
<1>4. Chosen
  <2>1. ASSUME NEW text \in Texts, kind' = [kind EXCEPT ![t] = "print"],
               rest' = [rest EXCEPT ![t] = Signed(text, t, calls'[t])]
        PROVE  Chosen
    <3> DEFINE r == Signed(text, t, n)
    <3>1. /\ r \in Seq(Symbols) /\ DOMAIN r = DOMAIN text
          /\ \A k \in DOMAIN text : Len(r[k]) = Len(text[k])
          /\ Ordered(r, DOMAIN r)
          /\ \A c \in Characters(r) : c.by = <<t, n>>
      BY <1>3, TextsAssumption, SignedText
    <3>2. rest' = [rest EXCEPT ![t] = r] /\ r = Signed(text, t, n)
      BY <1>3, <2>1
    <3> HIDE DEF r
    <3>3. \A k \in DOMAIN r : Given(Len(r[k]))
      <4>1. \A k \in DOMAIN text : Len(text[k]) \in Nat
        BY TextsAssumption, LenProperties, ElementOfSeq
      <4> QED
        BY <3>1, <4>1 DEF Given
    <3> QED
      BY <2>1, <3>1, <3>2, <3>3
  <2>2. ASSUME NEW text \in Texts, kind' = [kind EXCEPT ![t] = "write"],
               rest' = [rest EXCEPT ![t] = Signed(<<text[1]>>, t, calls'[t])]
        PROVE  Chosen
    <3> DEFINE one == <<text[1]>>
               r == Signed(one, t, n)
    <3>1. text \in Seq(Seq(Char)) /\ 1 \in DOMAIN text /\ Len(text[1]) \in Nat
      <4>1. text \in Seq(Seq(Char)) /\ text # <<>>
        BY TextsAssumption
      <4>2. Len(text) \in Nat /\ Len(text) # 0 /\ DOMAIN text = 1 .. Len(text)
        BY <4>1, EmptySeq, LenProperties
      <4>3. 1 \in 1 .. Len(text)
        BY <4>2
      <4> QED
        BY <4>1, <4>2, <4>3, LenProperties, ElementOfSeq
    <3>2. /\ one \in Seq(Seq(Char)) /\ DOMAIN one = {1} /\ one[1] = text[1]
      <4>1. text[1] \in Seq(Char)
        BY <3>1, LenProperties, ElementOfSeq
      <4> QED
        BY <4>1
    <3>3. rest' = [rest EXCEPT ![t] = r]
      BY <1>3, <2>2
    <3> HIDE DEF one
    <3>4. /\ r \in Seq(Symbols) /\ DOMAIN r = {1}
          /\ Len(r[1]) = Len(text[1])
          /\ Ordered(r, DOMAIN r)
          /\ \A c \in Characters(r) : c.by = <<t, n>>
      BY <1>3, <3>2, SignedText
    <3> HIDE DEF r
    <3>5. r # <<>>
      BY <3>4, EmptySeq
    <3>6. \A k \in DOMAIN r : Given(Len(r[k]))
      BY <3>1, <3>4 DEF Given
    <3> QED
      BY <2>2, <3>3, <3>4, <3>5, <3>6
  <2>3. ASSUME kind' = [kind EXCEPT ![t] = "flush"], rest' = [rest EXCEPT ![t] = <<>>]
        PROVE  Chosen
    <3>1. /\ <<>> \in Seq(Symbols) /\ DOMAIN <<>> = {} /\ Characters(<<>>) = {}
          /\ Ordered(<<>>, DOMAIN <<>>)
      BY EmptySeq DEF Characters, Ordered
    <3> QED
      BY <2>3, <3>1
  <2> QED
    BY <2>1, <2>2, <2>3 DEF Begin
<1>5. PICK r \in Seq(Symbols), x \in {"print", "write", "flush"} :
        /\ rest' = [rest EXCEPT ![t] = r] /\ kind' = [kind EXCEPT ![t] = x]
        /\ Ordered(r, DOMAIN r)
        /\ \A k \in DOMAIN r : Given(Len(r[k]))
        /\ \A c \in Characters(r) : c.by = <<t, n>>
        /\ x = "write" => r # <<>>
        /\ x = "print" => \E text \in Texts : r = Signed(text, t, n)
  BY <1>4
<1> HIDE DEF n
<1>6. /\ pc'[t] = "want" /\ rest'[t] = r /\ kind'[t] = x /\ Self(t)' = <<t, n>>
      /\ \A s \in Thread \ {t} :
           /\ pc'[s] = pc[s] /\ rest'[s] = rest[s] /\ kind'[s] = kind[s] /\ calls'[s] = calls[s]
           /\ Self(s)' = Self(s)
  BY <1>1, <1>2, <1>3, <1>5 DEF Self
<1>7. /\ Writes' = Writes /\ Underway' = Underway /\ Slices' = Slices
      /\ Held' = Held /\ Stream' = Stream /\ Draining' = Draining
  BY <1>1 DEF Writes, Underway, Slices, Held, Stream, Draining
<1>8. holder # t /\ holder \in Thread \cup {Nobody} /\ Inside = {holder} \ {Nobody}
  <2>1. holder \in Thread \cup {Nobody} /\ Inside = {holder} \ {Nobody}
    BY DEF IInv, Types, TypeOK, Locked
  <2>2. t \notin Inside /\ t # Nobody
    BY <1>1, <1>2 DEF Inside
  <2> QED
    BY <2>1, <2>2
<1>9. holder # Nobody => /\ holder \in Thread \ {t} /\ rest'[holder] = rest[holder]
                         /\ Self(holder)' = Self(holder) /\ pc'[holder] = pc[holder]
  BY <1>1, <1>6, <1>8 DEF Self
<1>10. Underway # {} => holder # Nobody
  <2>1. todo = <<>> => Writes = {}
    BY EmptySeq DEF Writes
  <2> QED
    BY <2>1 DEF Underway, IInv, Locked
<1>11. ASSUME NEW c \in Held
       PROVE  c.by[1] \in Thread /\ c.by # <<t, n>> /\ Known(c)'
  <2>1. c \in Symbol /\ Known(c)
    <3>1. sink \in Seq(Symbol) /\ buf \in Seq(Symbol)
      BY DEF IInv, Types, Symbols
    <3> QED
      BY <3>1, LenProperties, ElementOfSeq DEF Held, ToSet, IInv, Origins
  <2>2. c.by[1] \in Thread /\ c.by[2] \in Nat
    BY <2>1 DEF Symbol
  <2>3. c.by[1] = t => c.by[2] <= calls[t] /\ c.by[2] < n
    BY <1>3, <2>1, <2>2 DEF Known
  <2>4. Known(c)'
    <3>1. CASE c.by[1] = t
      BY <1>3, <2>2, <2>3, <3>1 DEF Known
    <3>2. CASE c.by[1] # t
      BY <1>6, <2>1, <2>2, <3>2 DEF Known
    <3> QED
      BY <3>1, <3>2
  <2>5. c.by # <<t, n>>
    BY <1>3, <2>2, <2>3
  <2> QED
    BY <2>2, <2>4, <2>5
<1>12. Types'
  <2>1. /\ pc' \in [Thread -> {"idle", "want", "in", "calling", "closing"}]
        /\ kind' \in [Thread -> {"print", "write", "flush"}]
    BY <1>1, <1>2, <1>5
  <2>2. calls' \in [Thread -> 0 .. MaxCalls]
    BY <1>1, <1>2, <1>3
  <2>3. rest' \in [Thread -> Seq(Symbols)]
    BY <1>2, <1>5
  <2>4. unwinding' \in [Thread -> BOOLEAN]
    BY <1>1, <1>2
  <2>5. TypeOK'
    BY <1>1, <2>1, <2>2, <2>4 DEF IInv, Types, TypeOK
  <2>6. threw' \in BOOLEAN
    BY <1>1 DEF IInv, Types
  <2> QED
    BY <1>1, <2>3, <2>5, <2>6 DEF IInv, Types
<1>13. Parts'
  BY <1>1 DEF IInv, Parts
<1>14. Counts'
  <2>1. Wanted' = Wanted /\ count' = count
    BY <1>1, <1>7 DEF Wanted, Size
  <2>2. ASSUME NEW s \in Thread, NEW k \in DOMAIN rest'[s] PROVE Given(Len(rest'[s][k]))
    BY <1>5, <1>6, <2>2 DEF IInv, Counts
  <2> QED
    BY <2>1, <2>2 DEF IInv, Counts
<1>15. Locked'
  <2>1. Inside' = {holder'} \ {Nobody}
    BY <1>1, <1>6, <1>8 DEF Inside
  <2>2. todo' # <<>> => holder' # Nobody /\ pc'[holder'] \in {"calling", "closing"}
    BY <1>1, <1>9 DEF IInv, Locked
  <2>3. threw' => todo' = <<>> /\ faults' > 0
    BY <1>1 DEF IInv, Locked
  <2>4. ASSUME NEW s \in Thread
        PROVE  /\ pc'[s] # "idle" => calls'[s] > 0
               /\ pc'[s] \in {"in", "closing"} => kind'[s] = "print"
               /\ pc'[s] \in {"idle", "want", "calling"} => ~unwinding'[s]
               /\ unwinding'[s] \/ pc'[s] = "closing" => rest'[s] = <<>>
               /\ pc'[s] = "want" /\ kind'[s] = "write" => rest'[s] # <<>>
               /\ pc'[s] = "closing" =>
                    \/ todo' = <<>> /\ (threw' \/ buf' = <<>>)
                    \/ Len(todo') = 1 /\ todo'[1].op \in Emptying
    <3>1. CASE s = t
      <4>1. ~unwinding'[t]
        BY <1>1 DEF IInv, Locked
      <4> QED
        BY <1>3, <1>5, <1>6, <3>1, <4>1
    <3>2. CASE s # t
      <4>1. threw' = threw /\ unwinding'[s] = unwinding[s]
        BY <1>1
      <4> QED
        BY <1>1, <1>6, <3>2, <4>1 DEF IInv, Locked
    <3> QED
      BY <3>1, <3>2
  <2> QED
    BY <2>1, <2>2, <2>3, <2>4 DEF Locked
<1>16. Origins'
  <2>1. \A c \in Underway' : c.by = Self(holder)'
    BY <1>7, <1>9, <1>10 DEF IInv, Origins
  <2>2. ASSUME NEW s \in Thread, NEW c \in Characters(rest'[s]) PROVE c.by = Self(s)'
    BY <1>5, <1>6, <2>2 DEF IInv, Origins
  <2>3. Draining' => /\ ToSet(buf') \subseteq ToSet(sink') \cup ToSet(todo'[1].bytes)
                     /\ ToSet(todo'[1].bytes) \subseteq ToSet(buf')
    BY <1>1, <1>7 DEF IInv, Origins
  <2> QED
    BY <1>7, <1>11, <2>1, <2>2, <2>3 DEF Origins
<1>17. ToCome'
  <2>1. ASSUME NEW s \in Thread PROVE Ordered(rest'[s], DOMAIN rest'[s])
    BY <1>5, <1>6 DEF IInv, ToCome
  <2>2. holder' # Nobody => \A c \in Underway' : \A d \in Characters(rest'[holder']) : Before(c, d)
    BY <1>1, <1>7, <1>9 DEF IInv, ToCome
  <2> QED
    BY <1>7, <2>1, <2>2 DEF IInv, ToCome
<1>18. Together'
  <2>1. TextsUninterleaved' = TextsUninterleaved
    BY <1>1, <1>7 DEF TextsUninterleaved
  <2> QED
    BY <1>1, <1>7, <1>9, <2>1 DEF IInv, Together
<1>19. ASSUME cut' = "no", NEW s \in Thread,
              kind'[s] = "print", pc'[s] # "idle", Well(s)'
       PROVE  \E text \in Texts :
                Of(Self(s), Held \cup Underway \cup Characters(rest[s]))'
                  = Characters(Signed(text, s, calls'[s]))
  <2>1. (Held \cup Underway \cup Characters(rest[s]))' = Held \cup Underway \cup Characters(rest'[s])
    BY <1>7
  <2>2. CASE s = t
    <3>1. PICK text \in Texts : r = Signed(text, t, n)
      BY <1>5, <1>6, <1>19, <2>2
    <3>2. \A c \in Underway : c.by # <<t, n>>
      <4>1. \A c \in Underway : c.by[1] = holder
        BY DEF IInv, Origins, Self
      <4> QED
        BY <1>8, <4>1
    <3>3. Of(<<t, n>>, Held \cup Underway \cup Characters(r)) = Characters(r)
      BY <1>5, <1>11, <3>2 DEF Of
    <3> QED
      BY <1>3, <1>6, <2>1, <2>2, <3>1, <3>3 DEF Of
  <2>3. CASE s # t
    <3>1. Well(s) /\ kind[s] = "print" /\ pc[s] # "idle" /\ cut = "no"
      BY <1>1, <1>6, <1>19, <2>3 DEF Well
    <3>2. PICK text \in Texts :
            Of(Self(s), Held \cup Underway \cup Characters(rest[s]))
              = Characters(Signed(text, s, calls[s]))
      BY <3>1 DEF IInv, Complete
    <3> QED
      BY <1>6, <2>1, <2>3, <3>2 DEF Of
  <2> QED
    BY <2>2, <2>3
<1>20. ASSUME NEW p \in printed'
       PROVE  /\ p[2] <= calls'[p[1]]
              /\ p[2] = calls'[p[1]] => pc'[p[1]] = "idle"
              /\ Of(p, ToSet(buf')) = {}
  <2>1. /\ p[2] <= calls[p[1]]
        /\ p[2] = calls[p[1]] => pc[p[1]] = "idle"
        /\ Of(p, ToSet(buf)) = {}
        /\ p[1] \in Thread /\ p[2] \in Nat
    BY <1>1 DEF IInv, Complete, Types, TypeOK
  <2>2. CASE p[1] = t
    BY <1>1, <1>3, <2>1, <2>2
  <2>3. CASE p[1] # t
    BY <1>1, <1>6, <2>1, <2>3
  <2> QED
    BY <2>2, <2>3
<1>21. Complete'
  <2>1. PrintedIsOut'
    BY <1>1 DEF IInv, Complete, PrintedIsOut
  <2> QED
    BY <1>19, <1>20, <2>1 DEF Complete
<1> QED
  BY <1>12, <1>13, <1>14, <1>15, <1>16, <1>17, <1>18, <1>21 DEF IInv

\* While nobody holds the mutex nothing is being written, and the thread that
\* is in a call holds it.
LEMMA MutexHeld ==
  ASSUME IInv, NEW t \in Thread
  PROVE  /\ holder = Nobody => todo = <<>>
         /\ pc[t] \in {"in", "calling", "closing"} => holder = t
         /\ pc[t] \in {"in", "want"} /\ holder \in {t, Nobody} => todo = <<>>
         /\ Given(0) /\ Given(count) /\ count \in Nat /\ threw \in BOOLEAN
<1>1. Inside = {holder} \ {Nobody} /\ Nobody \notin Thread
  BY StdioAssumption DEF IInv, Locked
<1>2. pc[t] \in {"in", "calling", "closing"} => holder = t
  BY <1>1 DEF Inside
<1>3. Given(0) /\ Given(count) /\ count \in Nat
  <2>1. Given(count) /\ count \in Nat
    BY DEF IInv, Types, TypeOK, Counts, Given
  <2> QED
    BY <2>1, FewerGiven
<1>4. threw \in BOOLEAN
  BY DEF IInv, Types
<1> QED
  BY <1>2, <1>3, <1>4 DEF IInv, Locked

\* print takes the mutex.
LEMMA LockPrintKeeps ==
  ASSUME IInv, NEW t \in Thread, LockPrint(t)
  PROVE  IInv'
<1>1. /\ pc[t] = "want" /\ kind[t] = "print" /\ holder = Nobody /\ holder' = t
      /\ pc' = [pc EXCEPT ![t] = "in"]
      /\ UNCHANGED <<buf, sink, todo, count, threw, faults, cut, kind, rest, calls, unwinding,
                     printed, alive>>
  BY DEF LockPrint, writerVars
<1>2. todo = <<>> /\ todo' = <<>> /\ threw \in BOOLEAN /\ count \in Nat
  BY <1>1, MutexHeld
<1>3. /\ Parts' /\ ~Draining' /\ Underway' = {}
      /\ Ordered(Slices, Writes)' /\ Given(Wanted)' /\ Given(count)'
  BY <1>1, <1>2, NothingToDo
<1>4. /\ rest[t] \in Seq(Symbols) /\ rest' = [rest EXCEPT ![t] = rest[t]]
      /\ unwinding[t] \in BOOLEAN /\ unwinding' = [unwinding EXCEPT ![t] = unwinding[t]]
      /\ ~unwinding[t]
  BY <1>1 DEF IInv, Types, TypeOK, Locked
<1>5. /\ Ordered(rest[t], DOMAIN rest[t])
      /\ \A k \in DOMAIN rest[t] : Given(Len(rest[t][k]))
      /\ threw' \in BOOLEAN /\ (threw' => todo' = <<>> /\ faults > 0)
  <2>1. threw' = threw
    BY <1>1
  <2> QED
    BY <1>2, <2>1 DEF IInv, ToCome, Counts, Locked
<1>6. Well(t)
  BY <1>1, <1>4 DEF Well
<1> QED
  BY <1>1, <1>2, <1>3, <1>4, <1>5, <1>6, ThreadMoves

\* Lock::write_str passes a piece to the writer.
LEMMA PieceKeeps ==
  ASSUME IInv, NEW t \in Thread, Piece(t)
  PROVE  IInv'
<1>1. /\ pc[t] = "in" /\ rest[t] # <<>> /\ CallWrite(Head(rest[t]))
      /\ rest' = [rest EXCEPT ![t] = Tail(rest[t])]
      /\ pc' = [pc EXCEPT ![t] = "calling"]
      /\ UNCHANGED <<holder, kind, calls, unwinding, printed, alive>>
  BY DEF Piece, IInv, Types
<1>2. todo = <<>> /\ UNCHANGED <<buf, sink, faults, cut>> /\ holder = t
  BY <1>1, MutexHeld DEF CallWrite, Ready
<1>3. rest[t] \in Seq(Symbols) /\ Ordered(rest[t], DOMAIN rest[t])
  BY DEF IInv, Types, ToCome
<1>4. /\ Head(rest[t]) \in Symbols /\ Tail(rest[t]) \in Seq(Symbols)
      /\ 1 \in DOMAIN rest[t] /\ Head(rest[t]) = rest[t][1]
      /\ \A k \in DOMAIN Tail(rest[t]) : k + 1 \in DOMAIN rest[t] /\ Tail(rest[t])[k] = rest[t][k + 1]
      /\ Characters(rest[t]) = ToSet(Head(rest[t])) \cup Characters(Tail(rest[t]))
      /\ \A i, j \in DOMAIN Head(rest[t]) : i < j => Before(Head(rest[t])[i], Head(rest[t])[j])
      /\ Ordered(Tail(rest[t]), DOMAIN Tail(rest[t]))
      /\ \A c \in ToSet(Head(rest[t])) : \A d \in Characters(Tail(rest[t])) : Before(c, d)
  BY <1>1, <1>3, FirstPiece
<1>5. /\ Given(Len(Head(rest[t])))
      /\ \A k \in DOMAIN Tail(rest[t]) : Given(Len(Tail(rest[t])[k]))
  BY <1>4 DEF IInv, Counts
<1>6. /\ Parts' /\ ~Draining' /\ todo' # <<>>
      /\ Underway' = ToSet(Head(rest[t])) /\ Ordered(Slices, Writes)'
      /\ count' \in Nat /\ Given(Wanted)' /\ Given(count)' /\ threw' = FALSE
  BY <1>1, <1>4, <1>5, WriteBegins
<1>7. /\ unwinding[t] \in BOOLEAN /\ unwinding' = [unwinding EXCEPT ![t] = FALSE]
      /\ kind[t] = "print"
  <2>1. unwinding[t] = FALSE /\ unwinding \in [Thread -> BOOLEAN] /\ kind[t] = "print"
    BY <1>1 DEF IInv, Types, TypeOK, Locked
  <2> QED
    BY <1>1, <2>1
<1>8. Well(t)
  <2>1. ~unwinding[t]
    BY <1>1 DEF IInv, Locked
  <2> QED
    BY <1>1, <2>1 DEF Well
<1> DEFINE y == Tail(rest[t])
<1>9. /\ y \in Seq(Symbols) /\ rest' = [rest EXCEPT ![t] = y]
      /\ Ordered(y, DOMAIN y) /\ \A k \in DOMAIN y : Given(Len(y[k]))
      /\ Underway' \cup Characters(y) = Characters(rest[t])
      /\ \A c \in Underway' : \A d \in Characters(y) : Before(c, d)
  BY <1>1, <1>4, <1>5, <1>6
<1> HIDE DEF y
<1> QED
  BY <1>1, <1>2, <1>6, <1>7, <1>8, <1>9, ThreadMoves

\* The writer returns to print, or throws.
LEMMA PieceReturnKeeps ==
  ASSUME IInv, NEW t \in Thread, PieceReturn(t)
  PROVE  IInv'
<1> DEFINE y == IF threw THEN <<>> ELSE rest[t]
<1>1. /\ pc[t] = "calling" /\ kind[t] = "print" /\ todo = <<>>
      /\ pc' = [pc EXCEPT ![t] = "in"]
      /\ rest' = [rest EXCEPT ![t] = y]
      /\ unwinding' = [unwinding EXCEPT ![t] = threw]
      /\ UNCHANGED <<buf, sink, todo, count, threw, faults, cut, holder, kind, calls, printed, alive>>
  BY DEF PieceReturn, Ready, writerVars, IInv, Types
<1>2. holder = t /\ threw \in BOOLEAN /\ count \in Nat /\ todo' = <<>>
  BY <1>1, MutexHeld
<1>3. /\ Parts' /\ ~Draining' /\ Underway' = {}
      /\ Ordered(Slices, Writes)' /\ Given(Wanted)' /\ Given(count)'
  BY <1>1, <1>2, NothingToDo
<1>4. /\ rest[t] \in Seq(Symbols)
      /\ Ordered(rest[t], DOMAIN rest[t])
      /\ \A k \in DOMAIN rest[t] : Given(Len(rest[t][k]))
  BY DEF IInv, Types, ToCome, Counts
<1>5. /\ y \in Seq(Symbols) /\ Ordered(y, DOMAIN y) /\ \A k \in DOMAIN y : Given(Len(y[k]))
      /\ Characters(y) \subseteq Characters(rest[t])
      /\ threw => y = <<>>
      /\ ~threw => y = rest[t]
  <2>1. CASE threw
    <3>1. <<>> \in Seq(Symbols) /\ DOMAIN <<>> = {} /\ Characters(<<>>) = {}
      BY EmptySeq DEF Characters
    <3> QED
      BY <2>1, <3>1 DEF Ordered
  <2>2. CASE ~threw
    BY <1>4, <2>2
  <2> QED
    BY <2>1, <2>2
<1> HIDE DEF y
<1>6. /\ threw' \in BOOLEAN /\ (threw' => todo' = <<>> /\ faults > 0)
  <2>1. threw' = threw
    BY <1>1
  <2> QED
    BY <1>1, <1>2, <2>1 DEF IInv, Locked
<1>7. ~threw => Well(t)
  <2>1. ~unwinding[t]
    BY <1>1 DEF IInv, Locked
  <2> QED
    BY <2>1 DEF Well
<1> QED
  BY <1>1, <1>2, <1>3, <1>5, <1>6, <1>7, ThreadMoves

\* ~Lock flushes.
LEMMA CloseKeeps ==
  ASSUME IInv, NEW t \in Thread, Close(t)
  PROVE  IInv'
<1>1. /\ pc[t] = "in" /\ rest[t] = <<>> /\ CallFlush
      /\ pc' = [pc EXCEPT ![t] = "closing"]
      /\ UNCHANGED <<holder, kind, rest, calls, unwinding, printed, alive>>
  BY DEF Close
<1>2. todo = <<>> /\ UNCHANGED <<buf, sink, faults, cut>> /\ holder = t
  BY <1>1, MutexHeld DEF CallFlush, Ready
<1>3. /\ Parts' /\ ~Draining' /\ Len(todo') = 1 /\ todo'[1].op \in Emptying /\ todo' # <<>>
      /\ Underway' = {} /\ Ordered(Slices, Writes)'
      /\ count' \in Nat /\ Given(Wanted)' /\ Given(count)' /\ threw' = FALSE
  BY <1>1, FlushBegins
<1>4. /\ <<>> \in Seq(Symbols) /\ rest' = [rest EXCEPT ![t] = <<>>]
      /\ Characters(<<>>) = {} /\ DOMAIN <<>> = {} /\ Ordered(<<>>, DOMAIN <<>>)
  <2>1. rest' = [rest EXCEPT ![t] = <<>>]
    BY <1>1 DEF IInv, Types
  <2> QED
    BY <2>1, EmptySeq DEF Characters, Ordered
<1>5. /\ unwinding[t] \in BOOLEAN /\ unwinding' = [unwinding EXCEPT ![t] = unwinding[t]]
      /\ kind[t] = "print"
      /\ ~unwinding[t] => Well(t)
  BY <1>1 DEF IInv, Types, TypeOK, Locked, Well
<1> QED
  BY <1>1, <1>2, <1>3, <1>4, <1>5, ThreadMoves

\* ~Lock unlocks: what was printed has gone out.
LEMMA ClosedKeeps ==
  ASSUME IInv, NEW t \in Thread, Closed(t)
  PROVE  IInv'
<1>1. /\ pc[t] = "closing" /\ todo = <<>>
      /\ UNCHANGED <<writerVars, kind, rest, calls>>
      /\ UNCHANGED <<buf, sink, todo, count, threw, faults, cut>>
  BY DEF Closed, Ready, writerVars
<1>2. CASE threw
  <2>1. alive' = FALSE /\ UNCHANGED <<holder, threadVars, printed>>
    BY <1>1, <1>2 DEF Closed, threadVars
  <2> QED
    BY <1>1, <2>1, SameKeeps
<1>3. CASE ~threw
  <2>1. /\ holder' = Nobody
        /\ pc' = [pc EXCEPT ![t] = "idle"]
        /\ unwinding' = [unwinding EXCEPT ![t] = FALSE]
        /\ printed' = (IF unwinding[t] THEN printed ELSE printed \cup {Self(t)})
        /\ alive' = alive
    BY <1>3 DEF Closed, Self
  <2>2. /\ holder = t /\ threw \in BOOLEAN /\ count \in Nat /\ todo' = <<>>
    BY <1>1, MutexHeld
  <2>3. /\ Parts' /\ ~Draining' /\ Underway' = {}
        /\ Ordered(Slices, Writes)' /\ Given(Wanted)' /\ Given(count)'
    BY <1>1, <2>2, NothingToDo
  <2>4. rest[t] = <<>> /\ buf = <<>> /\ kind[t] = "print"
    BY <1>1, <1>3, EmptySeq DEF IInv, Locked
  <2>5. /\ <<>> \in Seq(Symbols) /\ rest' = [rest EXCEPT ![t] = <<>>]
        /\ Characters(<<>>) = {} /\ DOMAIN <<>> = {} /\ Ordered(<<>>, DOMAIN <<>>)
    <3>1. rest' = [rest EXCEPT ![t] = <<>>]
      BY <1>1, <2>4 DEF IInv, Types
    <3> QED
      BY <3>1, EmptySeq DEF Characters, Ordered
  <2>6. threw' = FALSE
    BY <1>1, <1>3, <2>2
  <2>7. \/ printed' = printed
        \/ printed' = printed \cup {Self(t)} /\ Well(t)
    <3>1. CASE unwinding[t]
      BY <2>1, <3>1
    <3>2. CASE ~unwinding[t]
      BY <1>3, <2>1, <3>2 DEF Well
    <3> QED
      BY <3>1, <3>2
  <2> QED
    BY <1>1, <2>1, <2>2, <2>3, <2>4, <2>5, <2>6, <2>7, ThreadMoves
<1> QED
  BY <1>2, <1>3

\* Stdout::write_str and Stdout::flush take the mutex and begin.
LEMMA LockCallKeeps ==
  ASSUME IInv, NEW t \in Thread, LockCall(t)
  PROVE  IInv'
<1>1. /\ pc[t] = "want" /\ holder = Nobody /\ holder' = t
      /\ rest' = [rest EXCEPT ![t] = <<>>]
      /\ pc' = [pc EXCEPT ![t] = "calling"]
      /\ UNCHANGED <<kind, calls, unwinding, printed, alive>>
      /\ UNCHANGED <<buf, sink, faults, cut>>
      /\ kind[t] # "print"
  BY DEF LockCall, CallWrite, CallFlush
<1>2. todo = <<>>
  BY <1>1, MutexHeld
<1>3. /\ <<>> \in Seq(Symbols)
      /\ Characters(<<>>) = {} /\ DOMAIN <<>> = {} /\ Ordered(<<>>, DOMAIN <<>>)
  BY EmptySeq DEF Characters, Ordered
<1>4. unwinding' = [unwinding EXCEPT ![t] = FALSE]
  <2>1. unwinding[t] = FALSE /\ unwinding \in [Thread -> BOOLEAN]
    BY <1>1 DEF IInv, Types, TypeOK, Locked
  <2> QED
    BY <1>1, <2>1
<1>5. /\ Parts' /\ ~Draining' /\ todo' # <<>>
      /\ Underway' \subseteq Characters(rest[t]) /\ Ordered(Slices, Writes)'
      /\ count' \in Nat /\ Given(Wanted)' /\ Given(count)' /\ threw' = FALSE
  <2>1. CASE kind[t] = "write" /\ CallWrite(Head(rest[t]))
    <3>1. rest[t] \in Seq(Symbols) /\ Ordered(rest[t], DOMAIN rest[t]) /\ rest[t] # <<>>
      BY <1>1, <2>1 DEF IInv, Types, ToCome, Locked
    <3>2. /\ Head(rest[t]) \in Symbols
          /\ 1 \in DOMAIN rest[t] /\ Head(rest[t]) = rest[t][1]
          /\ Characters(rest[t]) = ToSet(Head(rest[t])) \cup Characters(Tail(rest[t]))
          /\ \A i, j \in DOMAIN Head(rest[t]) : i < j => Before(Head(rest[t])[i], Head(rest[t])[j])
      BY <3>1, FirstPiece
    <3>3. Given(Len(Head(rest[t])))
      BY <3>2 DEF IInv, Counts
    <3>4. /\ Parts' /\ ~Draining' /\ todo' # <<>>
          /\ Underway' = ToSet(Head(rest[t])) /\ Ordered(Slices, Writes)'
          /\ count' \in Nat /\ Given(Wanted)' /\ Given(count)' /\ threw' = FALSE
      BY <2>1, <3>2, <3>3, WriteBegins
    <3> QED
      BY <3>2, <3>4
  <2>2. CASE CallFlush
    BY <2>2, FlushBegins
  <2> QED
    BY <2>1, <2>2 DEF LockCall
<1> QED
  BY <1>1, <1>2, <1>3, <1>4, <1>5, ThreadMoves

\* The guard of Stdout::write_str and Stdout::flush unlocks.
LEMMA UnlockKeeps ==
  ASSUME IInv, NEW t \in Thread, Unlock(t)
  PROVE  IInv'
<1>1. /\ pc[t] = "calling" /\ kind[t] # "print" /\ todo = <<>> /\ holder' = Nobody
      /\ pc' = [pc EXCEPT ![t] = "idle"]
      /\ UNCHANGED <<buf, sink, todo, count, threw, faults, cut, kind, rest, calls, unwinding,
                     printed, alive>>
  BY DEF Unlock, Ready, writerVars
<1>2. holder = t /\ threw \in BOOLEAN /\ count \in Nat /\ todo' = <<>>
  BY <1>1, MutexHeld
<1>3. /\ Parts' /\ ~Draining' /\ Underway' = {}
      /\ Ordered(Slices, Writes)' /\ Given(Wanted)' /\ Given(count)'
  BY <1>1, <1>2, NothingToDo
<1>4. /\ rest[t] \in Seq(Symbols) /\ rest' = [rest EXCEPT ![t] = rest[t]]
      /\ unwinding' = [unwinding EXCEPT ![t] = FALSE]
  <2>1. unwinding[t] = FALSE /\ unwinding \in [Thread -> BOOLEAN]
    BY <1>1 DEF IInv, Types, TypeOK, Locked
  <2>2. unwinding' = [unwinding EXCEPT ![t] = FALSE]
    BY <1>1, <2>1
  <2> QED
    BY <1>1, <2>2 DEF IInv, Types
<1>5. /\ Ordered(rest[t], DOMAIN rest[t])
      /\ \A k \in DOMAIN rest[t] : Given(Len(rest[t][k]))
      /\ threw' \in BOOLEAN /\ (threw' => todo' = <<>> /\ faults > 0)
  <2>1. threw' = threw
    BY <1>1
  <2> QED
    BY <1>2, <2>1 DEF IInv, ToCome, Counts, Locked
<1> QED
  BY <1>1, <1>2, <1>3, <1>4, <1>5, ThreadMoves

\* At the start nothing is written.
LEMMA InitIInv == Init => IInv
<1> SUFFICES ASSUME Init PROVE IInv
  OBVIOUS
<1>1. /\ buf = <<>> /\ sink = <<>> /\ todo = <<>> /\ count = 0 /\ threw = FALSE
      /\ faults = 0 /\ cut = "no" /\ holder = Nobody
      /\ pc = [t \in Thread |-> "idle"] /\ kind = [t \in Thread |-> "print"]
      /\ rest = [t \in Thread |-> <<>>] /\ calls = [t \in Thread |-> 0]
      /\ unwinding = [t \in Thread |-> FALSE] /\ printed = {} /\ alive = TRUE
  BY DEF Init, InitWriter
<1>2. /\ <<>> \in Seq(Part) /\ <<>> \in Seq(Symbols) /\ <<>> \in Symbols
      /\ Len(<<>>) = 0 /\ DOMAIN <<>> = {} /\ ToSet(<<>>) = {}
  BY EmptySeq, LenProperties, NothingHeld DEF Symbols
<1>3. /\ Writes = {} /\ Underway = {} /\ ~Draining /\ Held = {}
      /\ \A t \in Thread : rest[t] = <<>> /\ Characters(rest[t]) = {}
  BY <1>1, <1>2 DEF Writes, Underway, Draining, Held, Characters
<1>4. Stream = <<>>
  BY <1>1, <1>2, ConcatEmptySeq DEF Stream
<1>5. Given(0)
  <2>1. PICK text \in Texts : TRUE
    BY TextsAssumption
  <2>2. text \in Seq(Seq(Char)) /\ text # <<>>
    BY TextsAssumption
  <2>3. Len(text) \in Nat /\ Len(text) # 0 /\ DOMAIN text = 1 .. Len(text)
    BY <2>2, EmptySeq, LenProperties
  <2>4. 1 \in 1 .. Len(text)
    BY <2>3
  <2>5. 1 \in DOMAIN text /\ Len(text[1]) \in Nat
    BY <2>2, <2>3, <2>4, LenProperties, ElementOfSeq
  <2> QED
    BY <2>5 DEF Given
<1>6. Types
  <2>1. 0 \in 0 .. MaxCalls
    BY StdioAssumption
  <2>2. TypeOK
    BY <1>1, <1>5, <2>1 DEF TypeOK, Given
  <2> QED
    BY <1>1, <1>2, <2>2 DEF Types
<1>7. Parts
  BY <1>1, <1>2 DEF Parts
<1>8. Counts
  <2>1. Wanted = 0 + 0 + 0 + 0 + 0
    BY <1>1, <1>3 DEF Wanted, Size
  <2> QED
    BY <1>1, <1>2, <1>3, <1>5, <2>1 DEF Counts
<1>9. Locked
  BY <1>1, <1>3 DEF Locked, Inside
<1>10. Origins
  BY <1>3 DEF Origins
<1>11. ToCome
  BY <1>1, <1>2, <1>3 DEF ToCome, Ordered
<1>12. Together
  BY <1>1, <1>2, <1>4 DEF Together, TextsUninterleaved
<1>13. Complete
  BY <1>1 DEF Complete, PrintedIsOut
<1> QED
  BY <1>6, <1>7, <1>8, <1>9, <1>10, <1>11, <1>12, <1>13 DEF IInv

\* Every step keeps the invariant.
LEMMA NextIInv == IInv /\ [Next]_vars => IInv'
<1> SUFFICES ASSUME IInv, [Next]_vars PROVE IInv'
  OBVIOUS
<1>1. CASE Writer
  <2>1. Step /\ UNCHANGED <<holder, threadVars, printed, alive>>
    BY <1>1 DEF Writer
  <2> QED
    BY <2>1, PutKeeps, PlaceKeeps, FlushKeeps, DrainKeeps DEF Step
<1>2. CASE Fault
  BY <1>2, ThrowKeeps DEF Fault
<1>3. ASSUME NEW t \in Thread, Begin(t) PROVE IInv'
  BY <1>3, BeginKeeps
<1>4. ASSUME NEW t \in Thread, Proceed(t) PROVE IInv'
  BY <1>4, LockPrintKeeps, PieceKeeps, PieceReturnKeeps, CloseKeeps, ClosedKeeps, LockCallKeeps,
     UnlockKeeps DEF Proceed
<1>5. CASE UNCHANGED vars
  <2>1. UNCHANGED <<writerVars, holder, threadVars, printed>> /\ alive' = alive
    BY <1>5 DEF vars
  <2>2. alive' \in BOOLEAN
    BY <2>1 DEF IInv, Types, TypeOK
  <2> QED
    BY <2>1, <2>2, SameKeeps
<1> QED
  BY <1>1, <1>2, <1>3, <1>4, <1>5 DEF Next

\* The inductive invariant holds of every behaviour of print, write_str and
\* flush, however the threads interleave and the inner writer fails.
THEOREM StdioInvariant == Spec => []IInv
<1>1. Init => IInv
  BY InitIInv
<1>2. IInv /\ [Next]_vars => IInv'
  BY NextIInv
<1> QED
  BY <1>1, <1>2, PTL DEF Spec

\* The writer is used by the thread that holds the mutex of stdout, and by no
\* other, whichever way the calls before ended.
THEOREM StdioWriterIsLocked == Spec => []WriterIsLocked
<1>1. IInv => WriterIsLocked
  BY DEF IInv, Types, Locked, WriterIsLocked
<1> QED
  BY <1>1, StdioInvariant, PTL

\* As long as the inner writer does not fail, the pieces of one text come out
\* together and in order.
THEOREM StdioTextsUninterleaved == Spec => []TextsUninterleaved
<1>1. IInv => TextsUninterleaved
  BY DEF IInv, Together, TextsUninterleaved
<1> QED
  BY <1>1, StdioInvariant, PTL

\* When print has returned, what it wrote has gone out: no character of it
\* waits in the buffer, although writes of others may have failed.
THEOREM StdioPrintedIsOut == Spec => []PrintedIsOut
<1>1. IInv => PrintedIsOut
  BY DEF IInv, Complete
<1> QED
  BY <1>1, StdioInvariant, PTL
=============================================================================
