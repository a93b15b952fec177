-------------------------- MODULE LineWriterProofs --------------------------
(***************************************************************************)
(* Proofs about LineWriterClient, for every capacity, stream, slice and    *)
(* inner writer: what the caller was told is written is delivered once and *)
(* in order, a complete line goes out, and a failure costs nothing that    *)
(* was accepted before it.                                                 *)
(*                                                                         *)
(* The argument is an invariant of the parts that the running call has     *)
(* still to do: they are what is left of write(arg), which comes in two    *)
(* stages, up to the last newline of arg and from there.                   *)
(***************************************************************************)
EXTENDS LineWriterClient, SequenceTheorems, FiniteSetTheorems, TLAPS

Bytes == Seq(Int)
Part == [op : {"put", "place", "flush", "drain"}, bytes : Bytes]

\* A head that empties the buffer.
Emptying == {"flush", "drain"}

\* The two slices that LineWriter::write makes of its argument.
Split == IF Newlines(arg) = {} THEN 0 ELSE LastNewline(arg)
First == SubSeq(arg, 1, Split)
Second == SubSeq(arg, Split + 1, Len(arg))

\* The k-th part of the call puts s into the writer, after a flush if it is
\* not the head.
Writes(s, k) == todo[k].op \in {"put", "place"} /\ todo[k].bytes = s
Puts(s, k) ==
  /\ k \in {1, 2}
  /\ k = 2 => todo[1].op \in Emptying
  /\ Writes(s, k)

\* The slice that ends with a newline is to be written, then flushed.
FirstStage ==
  /\ Split > 0
  /\ count = 0
  /\ \E k \in {1, 2} :
       /\ Len(todo) = k + 2
       /\ Puts(First, k)
       /\ todo[k + 1].op = "flush"
       /\ Writes(Second, k + 2)

\* The slice without a newline is to be written; unless the first was taken
\* in part, all of it is counted.
LastStage ==
  /\ count <= Split
  /\ cut # "middle" => count = Split
  /\ \E k \in {1, 2} : Len(todo) = k /\ Puts(Second, k)

Writing ==
  phase = "writing" =>
    /\ Len(arg) \in 1 .. MaxSlice
    /\ next + Len(arg) <= MaxStream + 1
    /\ count <= Len(arg)
    /\ todo = <<>> \/ FirstStage \/ LastStage

Elsewhere ==
  /\ phase \in {"open", "closed"} => todo = <<>>
  /\ phase \in {"flushing", "closing"} =>
       todo = <<>> \/ (Len(todo) = 1 /\ todo[1].op \in Emptying)

\* A slice that is placed fits, or finds the buffer empty; write_all runs as
\* the head of the parts only.
Parts ==
  /\ todo \in Seq(Part)
  /\ todo # <<>> /\ todo[1].op = "place" =>
       buf = <<>> \/ Len(buf) + Len(todo[1].bytes) <= Cap
  /\ \A k \in DOMAIN todo : k > 1 => todo[k].op # "drain"
  /\ threw => faults > 0 /\ todo = <<>>

\* What has gone out and what waits to, and how much of it the running call
\* has counted.
Draining == todo # <<>> /\ todo[1].op = "drain"
Stream == sink \o (IF Draining THEN todo[1].bytes ELSE buf)
Counted == IF phase = "writing" THEN SubSeq(arg, 1, count) ELSE <<>>

InOrder ==
  faults = 0 =>
    /\ Len(Stream) = Len(told) + Len(Counted)
    /\ cut # "middle" => Stream = told \o Counted

\* A newline waits in the buffer only when a flush comes next.
LinesKept ==
  faults = 0 =>
    \/ Newlines(buf) = {}
    \/ Len(todo) = 2 /\ todo[1].op \in Emptying

\* What was accepted is in the sink or the buffer, and write_all, which keeps
\* the buffer as it was, has still to write what the sink lacks of it.
Held == ToSet(sink) \cup ToSet(buf)
Kept ==
  /\ cut # "middle" => ToSet(told) \subseteq Held
  /\ cut # "middle" /\ ~threw => ToSet(Counted) \subseteq Held
  /\ Draining => ToSet(buf) \subseteq ToSet(sink) \cup ToSet(todo[1].bytes)

\* The inductive invariant.
IInv ==
  /\ TypeOK /\ Parts
  /\ Writing /\ Elsewhere
  /\ InOrder /\ LinesKept /\ Kept
-----------------------------------------------------------------------------
\* Slice::rfind finds the last newline when there is one.
LEMMA LastNewlineIsLast ==
  ASSUME NEW s \in Bytes, Newlines(s) # {}
  PROVE  /\ LastNewline(s) \in Newlines(s)
         /\ \A k \in Newlines(s) : k <= LastNewline(s)
<1> DEFINE L == Len(s)
           Behind == {(i + 1) .. L : i \in Newlines(s)}
<1>1. L \in Nat /\ Newlines(s) \subseteq 1 .. L
  BY LenProperties DEF Newlines, Bytes
<1> HIDE DEF L
<1>2. Behind \subseteq FiniteSubsetsOf(1 .. L) /\ Behind # {}
  <2>1. Behind \subseteq SUBSET (1 .. L)
    BY <1>1
  <2>2. IsFiniteSet(1 .. L)
    BY <1>1, FS_Interval
  <2>3. FiniteSubsetsOf(1 .. L) = SUBSET (1 .. L)
    BY <2>2, FS_FiniteSubsetsOfFinite
  <2> QED
    BY <2>1, <2>3
<1>3. IsWellFoundedOn(StrictSubsetOrdering(1 .. L), FiniteSubsetsOf(1 .. L))
  BY FS_StrictSubsetOrderingWellFounded
<1>4. PICK least \in Behind :
        \A B \in Behind : ~(<<B, least>> \in StrictSubsetOrdering(1 .. L))
  <2> HIDE DEF Behind
  <2> QED
    BY <1>2, <1>3, WFMin
<1>5. PICK i \in Newlines(s) : least = (i + 1) .. L
  BY <1>4
<1>6. ASSUME NEW k \in Newlines(s) PROVE k <= i
  <2>1. SUFFICES ASSUME k > i PROVE FALSE
    BY <1>1
  <2>2. (k + 1) .. L \subseteq (i + 1) .. L
    BY <1>1, <2>1
  <2>3. k \in (i + 1) .. L /\ k \notin (k + 1) .. L
    BY <1>1, <2>1
  <2>4. (k + 1) .. L \in SUBSET (1 .. L) /\ (i + 1) .. L \in SUBSET (1 .. L)
    BY <1>1
  <2>5. <<(k + 1) .. L, (i + 1) .. L>> \in StrictSubsetOrdering(1 .. L)
    BY <2>2, <2>3, <2>4 DEF StrictSubsetOrdering
  <2> QED
    BY <1>4, <1>5, <2>5
<1> QED
  BY <1>6 DEF LastNewline

\* The parts of a call without their head, with another head, and with two
\* parts for their head.
LEMMA NoHead ==
  ASSUME NEW S, NEW t \in Seq(S), t # <<>>
  PROVE  /\ Len(t) \in Nat /\ Len(t) > 0
         /\ Tail(t) \in Seq(S)
         /\ Len(Tail(t)) = Len(t) - 1
         /\ \A i \in 1 .. Len(t) - 1 : Tail(t)[i] = t[i + 1]
         /\ <<>> \o Tail(t) = Tail(t)
<1>1. Len(t) \in Nat /\ Len(t) > 0
  BY EmptySeq, LenProperties
<1>2. /\ Tail(t) \in Seq(S)
      /\ Len(Tail(t)) = Len(t) - 1
      /\ \A i \in 1 .. Len(t) - 1 : Tail(t)[i] = t[i + 1]
  BY HeadTailProperties
<1>3. <<>> \o Tail(t) = Tail(t)
  BY <1>2, ConcatEmptySeq
<1> QED
  BY <1>1, <1>2, <1>3

\* The first element of a sequence replaced by one ...
LEMMA NewHead ==
  ASSUME NEW S, NEW t \in Seq(S), t # <<>>, NEW x \in S
  PROVE  /\ <<x>> \o Tail(t) \in Seq(S)
         /\ Len(<<x>> \o Tail(t)) = Len(t)
         /\ (<<x>> \o Tail(t))[1] = x
         /\ \A i \in 2 .. Len(t) : (<<x>> \o Tail(t))[i] = t[i]
<1>1. /\ <<x>> \in Seq(S) /\ Len(<<x>>) = 1 /\ <<x>>[1] = x
  OBVIOUS
<1>2. /\ <<x>> \o Tail(t) \in Seq(S)
      /\ Len(<<x>> \o Tail(t)) = 1 + Len(Tail(t))
      /\ \A i \in 1 .. 1 + Len(Tail(t)) : (<<x>> \o Tail(t))[i] =
           IF i <= 1 THEN <<x>>[i] ELSE Tail(t)[i - 1]
  BY <1>1, NoHead, ConcatProperties
<1> QED
  BY <1>1, <1>2, NoHead

\* ... and by two.
LEMMA NewHeads ==
  ASSUME NEW S, NEW t \in Seq(S), t # <<>>, NEW x \in S, NEW y \in S
  PROVE  /\ <<x, y>> \o Tail(t) \in Seq(S)
         /\ Len(<<x, y>> \o Tail(t)) = Len(t) + 1
         /\ (<<x, y>> \o Tail(t))[1] = x
         /\ (<<x, y>> \o Tail(t))[2] = y
         /\ \A i \in 3 .. Len(t) + 1 : (<<x, y>> \o Tail(t))[i] = t[i - 1]
<1>1. /\ <<x, y>> \in Seq(S) /\ Len(<<x, y>>) = 2
      /\ <<x, y>>[1] = x /\ <<x, y>>[2] = y
  OBVIOUS
<1>2. /\ <<x, y>> \o Tail(t) \in Seq(S)
      /\ Len(<<x, y>> \o Tail(t)) = 2 + Len(Tail(t))
      /\ \A i \in 1 .. 2 + Len(Tail(t)) : (<<x, y>> \o Tail(t))[i] =
           IF i <= 2 THEN <<x, y>>[i] ELSE Tail(t)[i - 2]
  BY <1>1, NoHead, ConcatProperties
<1> QED
  BY <1>1, <1>2, NoHead

\* What a sequence holds, when two are joined or one is cut in two.
LEMMA HoldsBoth ==
  ASSUME NEW s \in Bytes, NEW t \in Bytes
  PROVE  ToSet(s \o t) = ToSet(s) \cup ToSet(t)
<1>1. /\ s \o t \in Bytes
      /\ Range(s \o t) = Range(s) \cup Range(t)
  BY RangeConcatenation, ConcatProperties DEF Bytes
<1>2. ToSet(s \o t) = Range(s \o t) /\ ToSet(s) = Range(s) /\ ToSet(t) = Range(t)
  BY DEF ToSet, Range
<1> QED
  BY <1>1, <1>2

\* Bytes cut in two, and put together again.
LEMMA CutInTwo ==
  ASSUME NEW s \in Bytes, NEW n \in 0 .. Len(s)
  PROVE  /\ SubSeq(s, 1, n) \in Bytes
         /\ Len(SubSeq(s, 1, n)) = n
         /\ SubSeq(s, n + 1, Len(s)) \in Bytes
         /\ Len(SubSeq(s, n + 1, Len(s))) = Len(s) - n
         /\ SubSeq(s, 1, n) \o SubSeq(s, n + 1, Len(s)) = s
<1>1. Len(s) \in Nat /\ \A i \in 1 .. Len(s) : s[i] \in Int
  BY LenProperties, ElementOfSeq DEF Bytes
<1>2. /\ SubSeq(s, 1, n) \in Bytes
      /\ Len(SubSeq(s, 1, n)) = n
  BY <1>1, SubSeqProperties DEF Bytes
<1>3. /\ SubSeq(s, n + 1, Len(s)) \in Bytes
      /\ Len(SubSeq(s, n + 1, Len(s))) = Len(s) - n
  <2>1. n + 1 \in Int /\ Len(s) \in Int /\ \A i \in n + 1 .. Len(s) : s[i] \in Int
    BY <1>1
  <2>2. /\ SubSeq(s, n + 1, Len(s)) \in Seq(Int)
        /\ Len(SubSeq(s, n + 1, Len(s))) = IF n + 1 <= Len(s) THEN Len(s) - (n + 1) + 1 ELSE 0
    BY <2>1, SubSeqProperties
  <2> QED
    BY <1>1, <2>2 DEF Bytes
<1>4. SubSeq(s, 1, n) \o SubSeq(s, n + 1, Len(s)) = SubSeq(s, 1, Len(s))
  <2>1. /\ 1 \in 1 .. Len(s) + 1
        /\ n \in 1 - 1 .. Len(s)
        /\ Len(s) \in n .. Len(s)
    BY <1>1
  <2> QED
    BY <2>1, ConcatAdjacentSubSeq DEF Bytes
<1> QED
  BY <1>2, <1>3, <1>4, SubSeqFull DEF Bytes

\* The slice that write makes for the end has no newline.
LEMMA TheSlices ==
  ASSUME arg \in Bytes
  PROVE  /\ Split \in 0 .. Len(arg)
         /\ First \in Bytes /\ Len(First) = Split
         /\ Second \in Bytes /\ Len(Second) = Len(arg) - Split
         /\ Newlines(Second) = {}
<1>1. Len(arg) \in Nat /\ DOMAIN arg = 1 .. Len(arg)
  BY LenProperties DEF Bytes
<1>2. Split \in 0 .. Len(arg) /\ \A k \in Newlines(arg) : k <= Split
  <2>1. CASE Newlines(arg) = {}
    BY <1>1, <2>1 DEF Split
  <2>2. CASE Newlines(arg) # {}
    <3>1. Split \in Newlines(arg) /\ \A k \in Newlines(arg) : k <= Split
      BY <2>2, LastNewlineIsLast DEF Split
    <3>2. Newlines(arg) \subseteq 1 .. Len(arg)
      BY <1>1 DEF Newlines
    <3> QED
      BY <1>1, <3>1, <3>2
  <2> QED
    BY <2>1, <2>2
<1>3. /\ First \in Bytes /\ Len(First) = Split
      /\ Second \in Bytes /\ Len(Second) = Len(arg) - Split
  BY <1>2, CutInTwo DEF First, Second
<1>4. Newlines(Second) = {}
  <2>1. \A i \in 1 .. Len(arg) - Split : Second[i] = arg[Split + i]
    <3>1. \A i \in Split + 1 .. Len(arg) : arg[i] \in Int
      BY <1>1, <1>2, ElementOfSeq DEF Bytes
    <3>2. Split + 1 \in Int /\ Len(arg) \in Int
      BY <1>1, <1>2
    <3>3. \A i \in 1 .. Len(arg) - (Split + 1) + 1 : Second[i] = arg[(Split + 1) + i - 1]
      BY <3>1, <3>2, SubSeqProperties DEF Second
    <3> QED
      BY <1>1, <1>2, <3>3
  <2>2. DOMAIN Second = 1 .. Len(arg) - Split
    BY <1>3, LenProperties DEF Bytes
  <2>3. ASSUME NEW i \in Newlines(Second) PROVE FALSE
    <3>1. i \in 1 .. Len(arg) - Split /\ IsNewline(Second[i])
      BY <2>2 DEF Newlines
    <3>2. IsNewline(arg[Split + i])
      BY <2>1, <3>1
    <3>3. Split + i \in Newlines(arg)
      BY <1>1, <1>2, <3>1, <3>2 DEF Newlines
    <3> QED
      BY <1>2, <1>1, <3>1, <3>3
  <2> QED
    BY <2>3
<1> QED
  BY <1>2, <1>3, <1>4
-----------------------------------------------------------------------------
\* The parts have their types.
LEMMA PartsTyped ==
  ASSUME NEW t \in Seq(Part)
  PROVE  /\ Len(t) \in Nat /\ DOMAIN t = 1 .. Len(t)
         /\ t # <<>> => Len(t) > 0 /\ Head(t) = t[1] /\ t[1] \in Part
         /\ Len(t) > 0 => t # <<>>
         /\ \A k \in DOMAIN t : t[k] \in Part
         /\ \A k \in DOMAIN t :
              t[k].op \in {"put", "place", "flush", "drain"} /\ t[k].bytes \in Seq(Int)
<1>1. Len(t) \in Nat /\ DOMAIN t = 1 .. Len(t)
  BY LenProperties
<1>2. t # <<>> => Len(t) > 0
  BY <1>1, EmptySeq
<1>3. Len(t) > 0 => t # <<>>
  BY EmptySeq
<1>4. \A k \in DOMAIN t : t[k] \in Part
  BY <1>1, ElementOfSeq
<1> QED
  BY <1>1, <1>2, <1>3, <1>4 DEF Part, Bytes

\* A slice at the head of the parts is the next of arg that is to be counted.
LEMMA HeadIsNext ==
  ASSUME IInv, todo # <<>>, todo[1].op \in {"put", "place"}
  PROVE  /\ phase = "writing" /\ ~threw /\ ~Draining
         /\ todo[1].bytes \in Bytes
         /\ count + Len(todo[1].bytes) <= Len(arg)
         /\ cut # "middle" =>
              \A n \in 0 .. Len(todo[1].bytes) :
                SubSeq(arg, 1, count) \o SubSeq(todo[1].bytes, 1, n) = SubSeq(arg, 1, count + n)
<1> DEFINE s == todo[1].bytes
<1>1. /\ arg \in Bytes /\ count \in Nat /\ todo \in Seq(Part)
      /\ threw => todo = <<>>
  BY DEF IInv, TypeOK, Parts, Bytes
<1>2. phase = "writing"
  BY DEF IInv, TypeOK, Elsewhere, Emptying
<1>3. /\ Len(arg) \in Nat
      /\ Split \in 0 .. Len(arg)
      /\ First \in Bytes /\ Len(First) = Split
      /\ Second \in Bytes /\ Len(Second) = Len(arg) - Split
  BY <1>1, TheSlices, LenProperties DEF Bytes
<1>4. FirstStage \/ LastStage
  BY <1>2 DEF IInv, Writing
<1>5. CASE FirstStage
  <2>1. count = 0 /\ s = First
    BY <1>5 DEF FirstStage, Puts, Writes, Emptying
  <2>2. ASSUME NEW n \in 0 .. Len(s)
        PROVE  SubSeq(arg, 1, count) \o SubSeq(s, 1, n) = SubSeq(arg, 1, count + n)
    <3>1. SubSeq(arg, 1, count) = <<>> /\ count + n = n
      BY <1>3, <2>1, SubSeqEmpty
    <3>2. SubSeq(s, 1, n) \in Bytes
      BY <1>3, <2>1, CutInTwo
    <3>3. SubSeq(s, 1, n) = SubSeq(arg, 1, n)
      <4>1. CASE n = 0
        BY <4>1, SubSeqEmpty
      <4>2. CASE n > 0
        <5>1. /\ 1 \in 1 .. Len(arg) /\ Split \in 1 .. Len(arg)
              /\ 1 \in 1 .. Split - 1 + 1 /\ n \in 1 .. Split - 1 + 1
          BY <1>3, <2>1, <4>2
        <5>2. SubSeq(SubSeq(arg, 1, Split), 1, n) = SubSeq(arg, 1 + 1 - 1, 1 + n - 1)
          BY <1>1, <5>1, SubSeqOfSubSeq DEF Bytes
        <5> QED
          BY <1>3, <2>1, <5>2 DEF First
      <4> QED
        BY <1>3, <2>1, <4>1, <4>2
    <3> QED
      BY <3>1, <3>2, <3>3, ConcatEmptySeq DEF Bytes
  <2> QED
    BY <1>1, <1>2, <1>3, <2>1, <2>2 DEF Draining
<1>6. CASE LastStage
  <2>1. count <= Split /\ s = Second /\ (cut # "middle" => count = Split)
    BY <1>6 DEF LastStage, Puts, Writes, Emptying
  <2>2. ASSUME count = Split, NEW n \in 0 .. Len(s)
        PROVE  SubSeq(arg, 1, count) \o SubSeq(s, 1, n) = SubSeq(arg, 1, count + n)
    <3>1. SubSeq(s, 1, n) = SubSeq(arg, count + 1, count + n)
      <4>0. n = 0 \/ n > 0
        BY <1>3, <2>1
      <4>1. CASE n = 0
        BY <1>3, <2>2, <4>1, SubSeqEmpty
      <4>2. CASE n > 0
        <5>1. /\ Split + 1 \in 1 .. Len(arg) /\ Len(arg) \in 1 .. Len(arg)
              /\ 1 \in 1 .. Len(arg) - (Split + 1) + 1
              /\ n \in 1 .. Len(arg) - (Split + 1) + 1
          BY <1>3, <2>1, <4>2
        <5>2. SubSeq(SubSeq(arg, Split + 1, Len(arg)), 1, n)
                = SubSeq(arg, (Split + 1) + 1 - 1, (Split + 1) + n - 1)
          <6> DEFINE from == Split + 1
          <6> HIDE DEF from
          <6>1. /\ from \in 1 .. Len(arg) /\ Len(arg) \in 1 .. Len(arg)
                /\ 1 \in 1 .. Len(arg) - from + 1
                /\ n \in 1 .. Len(arg) - from + 1
            BY <5>1 DEF from
          <6>2. SubSeq(SubSeq(arg, from, Len(arg)), 1, n) = SubSeq(arg, from + 1 - 1, from + n - 1)
            BY <1>1, <6>1, SubSeqOfSubSeq DEF Bytes
          <6> QED
            BY <6>2 DEF from
        <5>3. (Split + 1) + 1 - 1 = Split + 1 /\ (Split + 1) + n - 1 = Split + n
          BY <1>3, <4>2
        <5> QED
          BY <2>1, <2>2, <5>2, <5>3 DEF Second
      <4> QED
        BY <4>0, <4>1, <4>2
    <3>2. /\ 1 \in 1 .. Len(arg) + 1
          /\ count \in 1 - 1 .. Len(arg)
          /\ count + n \in count .. Len(arg)
      BY <1>3, <2>1, <2>2
    <3> QED
      BY <1>1, <3>1, <3>2, ConcatAdjacentSubSeq DEF Bytes
  <2> QED
    BY <1>1, <1>2, <1>3, <2>1, <2>2 DEF Draining
<1> QED
  BY <1>4, <1>5, <1>6

\* Whatever empties the buffer is at the head of what a stage has to do, and
\* what is left without it is what the stage has to do.
LEMMA HeadGone ==
  ASSUME IInv, todo # <<>>, todo[1].op \in Emptying,
         todo' = Tail(todo), UNCHANGED <<count, cut, arg, next, told, phase, threw>>
  PROVE  /\ Writing' /\ Elsewhere'
         /\ todo' \in Seq(Part)
         /\ \A k \in DOMAIN todo' : todo'[k].op # "drain"
<1>1. /\ todo \in Seq(Part) /\ Len(todo) \in Nat
      /\ Flush \in Part /\ todo[1] \in Part
  BY PartsTyped, EmptySeq DEF IInv, Parts, Flush, Part, Bytes
<1>2. /\ todo' \in Seq(Part)
      /\ Len(todo') = Len(todo) - 1
      /\ \A i \in 1 .. Len(todo) - 1 : todo'[i] = todo[i + 1]
  BY <1>1, NoHead
<1>3. DOMAIN todo = 1 .. Len(todo) /\ DOMAIN todo' = 1 .. Len(todo) - 1
  BY <1>1, <1>2, PartsTyped
<1>4. \A k \in DOMAIN todo' : todo'[k].op # "drain"
  BY <1>1, <1>2, <1>3 DEF IInv, Parts
<1>5. Len(todo) = 1 => todo' = <<>>
  BY <1>1, <1>2, PartsTyped
<1>6. Elsewhere'
  BY <1>5 DEF IInv, Elsewhere
<1>7. First' = First /\ Second' = Second /\ Split' = Split
  BY DEF First, Second, Split
<1>8. Writing'
  <2>1. SUFFICES ASSUME phase = "writing" PROVE FirstStage' \/ LastStage'
    BY DEF IInv, Writing
  <2>2. CASE FirstStage
    <3>1. /\ Len(todo) = 4 /\ Writes(First, 2)
          /\ todo[3].op = "flush" /\ Writes(Second, 4)
      BY <1>1, <2>2 DEF FirstStage, Puts, Writes, Emptying
    <3>2. /\ Len(todo') = 3 /\ todo'[1] = todo[2]
          /\ todo'[2] = todo[3] /\ todo'[3] = todo[4]
      BY <1>2, <3>1
    <3>3. Puts(First, 1)' /\ (todo'[2]).op = "flush" /\ Writes(Second, 3)'
      BY <1>7, <3>1, <3>2 DEF Puts, Writes
    <3>4. Split' > 0 /\ count' = 0
      BY <1>7, <2>2 DEF FirstStage
    <3> QED
      BY <3>2, <3>3, <3>4 DEF FirstStage
  <2>3. CASE LastStage
    <3>1. Len(todo) = 2 /\ Writes(Second, 2)
      BY <1>1, <2>3 DEF LastStage, Puts, Writes, Emptying
    <3>2. Len(todo') = 1 /\ todo'[1] = todo[2]
      <4>1. 1 \in 1 .. Len(todo) - 1
        BY <3>1
      <4>2. todo'[1] = todo[1 + 1]
        BY <1>2, <4>1
      <4> QED
        BY <1>2, <3>1, <4>2
    <3>3. Puts(Second, 1)'
      BY <1>7, <3>1, <3>2 DEF Puts, Writes
    <3> QED
      BY <1>7, <2>3, <3>2, <3>3 DEF LastStage
  <2> QED
    BY <2>1, <2>2, <2>3 DEF IInv, Writing
<1> QED
  BY <1>2, <1>4, <1>6, <1>8

\* A step that changes neither the stream nor what is counted keeps what is
\* said of the bytes, if what was held is held.
LEMMA BytesStay ==
  ASSUME IInv, Stream' = Stream, Held \subseteq Held',
         UNCHANGED <<faults, cut, arg, told, phase, threw>>,
         phase = "writing" => count' = count,
         Draining' => ToSet(buf') \subseteq ToSet(sink') \cup ToSet(todo'[1].bytes)
  PROVE  InOrder' /\ Kept'
<1>1. Counted' = Counted
  BY DEF Counted
<1>2. InOrder'
  BY <1>1 DEF IInv, InOrder
<1>3. Kept'
  BY <1>1 DEF IInv, Kept
<1> QED
  BY <1>2, <1>3

\* BufWriter::write tests whether the slice fits.
LEMMA PutKeeps ==
  ASSUME IInv, DoPut, UNCHANGED <<arg, next, told, phase>>
  PROVE  IInv'
<1> DEFINE s == todo[1].bytes
<1>1. /\ todo \in Seq(Part) /\ todo # <<>> /\ todo[1].op = "put"
      /\ Len(todo) \in Nat /\ Len(todo) > 0 /\ DOMAIN todo = 1 .. Len(todo)
      /\ Head(todo) = todo[1] /\ todo[1] \in Part
  BY PartsTyped DEF IInv, Parts, DoPut
<1>2. /\ phase = "writing" /\ ~threw /\ ~Draining /\ s \in Bytes
  BY <1>1, HeadIsNext
<1>3. /\ Flush \in Part /\ Place(s) \in Part
      /\ Flush.op = "flush" /\ Place(s).op = "place" /\ Place(s).bytes = s
  BY <1>2 DEF Flush, Place, Part, Bytes
<1>4. \/ /\ Len(buf) + Len(s) > Cap
         /\ todo' = <<Flush, Place(s)>> \o Tail(todo)
      \/ /\ ~(Len(buf) + Len(s) > Cap)
         /\ todo' = <<Place(s)>> \o Tail(todo)
  BY <1>1 DEF DoPut
<1>5. /\ First' = First /\ Second' = Second /\ Split' = Split
      /\ UNCHANGED <<buf, sink, count, threw, faults, cut>>
  BY DEF First, Second, Split, DoPut
<1>6. Elsewhere'
  BY <1>2 DEF Elsewhere
<1>7. LinesKept'
  BY <1>1, <1>5 DEF IInv, LinesKept, Emptying, Newlines
<1>8. CASE Len(buf) + Len(s) > Cap
  <2>1. /\ todo' \in Seq(Part)
        /\ Len(todo') = Len(todo) + 1
        /\ todo'[1] = Flush /\ todo'[2] = Place(s)
        /\ \A i \in 3 .. Len(todo) + 1 : todo'[i] = todo[i - 1]
    <3>1. todo' = <<Flush, Place(s)>> \o Tail(todo)
      BY <1>4, <1>8
    <3> QED
      BY <1>1, <1>3, <3>1, NewHeads
  <2>2. DOMAIN todo' = 1 .. Len(todo) + 1 /\ todo' # <<>>
    BY <1>1, <2>1, PartsTyped
  <2>3. \A k \in DOMAIN todo' : k > 1 => todo'[k].op # "drain"
    <3> SUFFICES ASSUME NEW k \in DOMAIN todo', k > 1 PROVE todo'[k].op # "drain"
      OBVIOUS
    <3>1. CASE k = 2
      BY <1>3, <2>1, <3>1
    <3>2. CASE k > 2
      BY <1>1, <2>1, <2>2, <3>2 DEF IInv, Parts
    <3> QED
      BY <2>2, <3>1, <3>2
  <2>4. Parts'
    BY <1>2, <1>3, <1>5, <2>1, <2>3 DEF Parts
  <2>5. Writing'
    <3>1. CASE FirstStage
      <4>1. /\ Len(todo) = 3 /\ Writes(First, 1)
            /\ todo[2].op = "flush" /\ Writes(Second, 3)
        BY <1>1, <3>1 DEF FirstStage, Puts, Emptying
      <4>2. /\ Len(todo') = 4
            /\ todo'[3] = todo[2] /\ todo'[4] = todo[3]
        BY <2>1, <4>1
      <4>3. Puts(First, 2)' /\ (todo'[3]).op = "flush" /\ Writes(Second, 4)'
        BY <1>3, <1>5, <2>1, <4>1, <4>2 DEF Puts, Writes, Emptying
      <4>4. Split' > 0 /\ count' = 0
        BY <1>5, <3>1 DEF FirstStage
      <4> QED
        BY <1>5, <4>2, <4>3, <4>4 DEF FirstStage, IInv, Writing
    <3>2. CASE LastStage
      <4>1. Len(todo) = 1 /\ Writes(Second, 1)
        BY <1>1, <3>2 DEF LastStage, Puts, Emptying
      <4>2. Len(todo') = 2 /\ Puts(Second, 2)'
        BY <1>3, <1>5, <2>1, <4>1 DEF Puts, Writes, Emptying
      <4> QED
        BY <1>5, <3>2, <4>2 DEF LastStage, IInv, Writing
    <3> QED
      BY <1>1, <1>2, <3>1, <3>2 DEF IInv, Writing
  <2>6. ~Draining' /\ Stream' = Stream
    BY <1>2, <1>3, <1>5, <2>1 DEF Draining, Stream
  <2>7. InOrder' /\ Kept'
    BY <1>5, <2>6, BytesStay DEF Held
  <2>8. TypeOK'
    BY <1>5, <2>1, PartsTyped DEF IInv, TypeOK
  <2> QED
    BY <1>6, <1>7, <2>4, <2>5, <2>7, <2>8 DEF IInv
<1>9. CASE ~(Len(buf) + Len(s) > Cap)
  <2>1. /\ todo' \in Seq(Part)
        /\ Len(todo') = Len(todo)
        /\ todo'[1] = Place(s)
        /\ \A i \in 2 .. Len(todo) : todo'[i] = todo[i]
    <3>1. todo' = <<Place(s)>> \o Tail(todo)
      BY <1>4, <1>9
    <3> QED
      BY <1>1, <1>3, <3>1, NewHead
  <2>2. DOMAIN todo' = 1 .. Len(todo) /\ todo' # <<>>
    BY <1>1, <2>1, PartsTyped
  <2>3. \A k \in DOMAIN todo' : k > 1 => todo'[k].op # "drain"
    BY <1>1, <2>1, <2>2 DEF IInv, Parts
  <2>4. Len(buf) + Len(s) <= Cap
    <3>1. Len(buf) \in Nat /\ Len(s) \in Nat
      BY <1>2, LenProperties DEF IInv, TypeOK, Bytes
    <3> QED
      BY <1>9, <3>1, CapAssumption
  <2>5. Parts'
    BY <1>2, <1>3, <1>5, <2>1, <2>3, <2>4 DEF Parts
  <2>6. Writing'
    <3>1. CASE FirstStage
      <4>1. /\ Len(todo) = 3 /\ Writes(First, 1)
            /\ todo[2].op = "flush" /\ Writes(Second, 3)
        BY <1>1, <3>1 DEF FirstStage, Puts, Emptying
      <4>2. /\ Len(todo') = 3
            /\ todo'[2] = todo[2] /\ todo'[3] = todo[3]
        BY <2>1, <4>1
      <4>3. Puts(First, 1)' /\ (todo'[2]).op = "flush" /\ Writes(Second, 3)'
        BY <1>3, <1>5, <2>1, <4>1, <4>2 DEF Puts, Writes
      <4>4. Split' > 0 /\ count' = 0
        BY <1>5, <3>1 DEF FirstStage
      <4> QED
        BY <1>5, <4>2, <4>3, <4>4 DEF FirstStage, IInv, Writing
    <3>2. CASE LastStage
      <4>1. Len(todo) = 1 /\ Writes(Second, 1)
        BY <1>1, <3>2 DEF LastStage, Puts, Emptying
      <4>2. Len(todo') = 1 /\ Puts(Second, 1)'
        BY <1>3, <1>5, <2>1, <4>1 DEF Puts, Writes
      <4> QED
        BY <1>5, <3>2, <4>2 DEF LastStage, IInv, Writing
    <3> QED
      BY <1>1, <1>2, <3>1, <3>2 DEF IInv, Writing
  <2>7. ~Draining' /\ Stream' = Stream
    BY <1>2, <1>3, <1>5, <2>1 DEF Draining, Stream
  <2>8. InOrder' /\ Kept'
    BY <1>5, <2>7, BytesStay DEF Held
  <2>9. TypeOK'
    BY <1>5, <2>1, PartsTyped DEF IInv, TypeOK
  <2> QED
    BY <1>6, <1>7, <2>5, <2>6, <2>8, <2>9 DEF IInv
<1> QED
  BY <1>8, <1>9

\* A head that empties the buffer is followed by another one.
LEMMA HeadChanges ==
  ASSUME IInv, todo # <<>>, todo[1].op \in Emptying,
         NEW x \in Part, x.op \in Emptying, todo' = <<x>> \o Tail(todo),
         UNCHANGED <<count, cut, arg, next, told, phase, threw>>
  PROVE  /\ Writing' /\ Elsewhere'
         /\ todo' \in Seq(Part) /\ todo' # <<>>
         /\ Len(todo') = Len(todo)
         /\ todo'[1] = x
         /\ \A k \in DOMAIN todo' : k > 1 => todo'[k].op # "drain"
<1>1. /\ todo \in Seq(Part) /\ Len(todo) \in Nat /\ Len(todo) > 0
      /\ DOMAIN todo = 1 .. Len(todo)
  BY PartsTyped DEF IInv, Parts
<1>2. /\ todo' \in Seq(Part)
      /\ Len(todo') = Len(todo)
      /\ todo'[1] = x
      /\ \A i \in 2 .. Len(todo) : todo'[i] = todo[i]
  BY <1>1, NewHead
<1>3. DOMAIN todo' = 1 .. Len(todo) /\ todo' # <<>>
  BY <1>1, <1>2, PartsTyped
<1>4. \A k \in DOMAIN todo' : k > 1 => todo'[k].op # "drain"
  BY <1>1, <1>2, <1>3 DEF IInv, Parts
<1>5. Elsewhere'
  BY <1>2 DEF IInv, Elsewhere
<1>6. First' = First /\ Second' = Second /\ Split' = Split
  BY DEF First, Second, Split
<1>7. Writing'
  <2>1. CASE FirstStage
    <3>1. /\ Len(todo) = 4 /\ Writes(First, 2)
          /\ todo[3].op = "flush" /\ Writes(Second, 4)
      BY <1>1, <2>1 DEF FirstStage, Puts, Writes, Emptying
    <3>2. /\ Len(todo') = 4 /\ todo'[2] = todo[2]
          /\ todo'[3] = todo[3] /\ todo'[4] = todo[4]
      <4>1. 2 \in 2 .. Len(todo) /\ 3 \in 2 .. Len(todo) /\ 4 \in 2 .. Len(todo)
        BY <3>1
      <4> QED
        BY <1>2, <3>1, <4>1
    <3>3. Puts(First, 2)' /\ (todo'[3]).op = "flush" /\ Writes(Second, 4)'
      BY <1>2, <1>6, <3>1, <3>2 DEF Puts, Writes
    <3>4. Split' > 0 /\ count' = 0
      BY <1>6, <2>1 DEF FirstStage
    <3>5. FirstStage'
      <4>1. /\ Len(todo') = 2 + 2 /\ Puts(First, 2)'
            /\ (todo'[2 + 1]).op = "flush" /\ Writes(Second, 2 + 2)'
        BY <3>2, <3>3
      <4> QED
        BY <3>4, <4>1 DEF FirstStage
    <3> QED
      BY <3>5 DEF IInv, Writing
  <2>2. CASE LastStage
    <3>1. Len(todo) = 2 /\ Writes(Second, 2)
      BY <1>1, <2>2 DEF LastStage, Puts, Writes, Emptying
    <3>2. Len(todo') = 2 /\ todo'[2] = todo[2]
      BY <1>2, <3>1
    <3>3. Puts(Second, 2)'
      BY <1>2, <1>6, <3>1, <3>2 DEF Puts, Writes
    <3> QED
      BY <1>6, <2>2, <3>2, <3>3 DEF LastStage, IInv, Writing
  <2> QED
    BY <2>1, <2>2 DEF IInv, Writing
<1> QED
  BY <1>2, <1>3, <1>4, <1>5, <1>7

\* An empty sequence holds nothing.
LEMMA NothingHeld == Newlines(<<>>) = {} /\ ToSet(<<>>) = {} /\ Len(<<>>) = 0
BY EmptySeq, LenProperties DEF Newlines, ToSet

\* BufWriter::flush has nothing to do, or write_all begins.
LEMMA FlushKeeps ==
  ASSUME IInv, DoFlush, UNCHANGED <<arg, next, told, phase>>
  PROVE  IInv'
<1>1. /\ todo \in Seq(Part) /\ todo # <<>> /\ todo[1].op = "flush"
      /\ Head(todo) = todo[1] /\ todo[1].op \in Emptying
      /\ ~threw
  BY PartsTyped DEF IInv, Parts, DoFlush, Emptying
<1>2. UNCHANGED <<buf, sink, count, threw, faults, cut>>
  BY DEF DoFlush
<1>3. CASE buf = <<>>
  <2>1. todo' = Tail(todo)
    BY <1>1, <1>3, NoHead DEF DoFlush
  <2>2. /\ Writing' /\ Elsewhere'
        /\ todo' \in Seq(Part)
        /\ \A k \in DOMAIN todo' : todo'[k].op # "drain"
    BY <1>1, <1>2, <2>1, HeadGone
  <2>3. ~Draining'
    BY <2>2, PartsTyped DEF Draining
  <2>4. Stream' = Stream /\ ~Draining
    BY <1>1, <1>2, <2>3 DEF Stream, Draining
  <2>5. InOrder' /\ Kept'
    BY <1>2, <2>3, <2>4, BytesStay DEF Held
  <2>6. LinesKept'
    BY <1>2, <1>3, NothingHeld DEF LinesKept
  <2>7. Parts'
    BY <1>1, <1>2, <1>3, <2>2 DEF Parts
  <2>8. TypeOK'
    BY <1>2, <2>2, PartsTyped DEF IInv, TypeOK
  <2> QED
    BY <2>2, <2>5, <2>6, <2>7, <2>8 DEF IInv
<1>4. CASE buf # <<>>
  <2>1. /\ todo' = <<Drain(buf)>> \o Tail(todo)
        /\ Drain(buf) \in Part /\ Drain(buf).op = "drain" /\ Drain(buf).bytes = buf
        /\ Drain(buf).op \in Emptying
    BY <1>1, <1>4 DEF DoFlush, Drain, Part, Bytes, IInv, TypeOK, Emptying
  <2>2. /\ Writing' /\ Elsewhere'
        /\ todo' \in Seq(Part) /\ todo' # <<>>
        /\ Len(todo') = Len(todo)
        /\ todo'[1] = Drain(buf)
        /\ \A k \in DOMAIN todo' : k > 1 => todo'[k].op # "drain"
    BY <1>1, <1>2, <2>1, HeadChanges
  <2>3. Stream' = Stream
    BY <1>1, <1>2, <2>1, <2>2 DEF Stream, Draining
  <2>4. InOrder' /\ Kept'
    BY <1>2, <2>1, <2>2, <2>3, BytesStay DEF Held
  <2>5. LinesKept'
    BY <1>1, <1>2, <2>1, <2>2 DEF IInv, LinesKept, Newlines
  <2>6. Parts'
    BY <1>1, <1>2, <2>1, <2>2 DEF Parts
  <2>7. TypeOK'
    BY <1>2, <2>2, PartsTyped DEF IInv, TypeOK
  <2> QED
    BY <2>2, <2>4, <2>5, <2>6, <2>7 DEF IInv
<1> QED
  BY <1>3, <1>4

\* write_all: the inner writer takes some of the buffer, or the last of it.
LEMMA DrainKeeps ==
  ASSUME IInv, DoDrain, UNCHANGED <<arg, next, told, phase>>
  PROVE  IInv'
<1> DEFINE s == todo[1].bytes
<1>1. /\ todo \in Seq(Part) /\ todo # <<>> /\ todo[1].op = "drain"
      /\ Head(todo) = todo[1] /\ todo[1].op \in Emptying
      /\ s \in Bytes /\ ~threw /\ Draining
      /\ sink \in Bytes /\ buf \in Bytes
  BY PartsTyped DEF IInv, TypeOK, Parts, DoDrain, Emptying, Part, Draining, Bytes
<1>2. UNCHANGED <<count, threw, faults, cut>>
  BY DEF DoDrain
<1>3. PICK n \in 1 .. Len(s) :
        /\ sink' = sink \o SubSeq(s, 1, n)
        /\ IF n < Len(s)
           THEN /\ todo' = <<Drain(SubSeq(s, n + 1, Len(s)))>> \o Tail(todo)
                /\ UNCHANGED buf
           ELSE /\ todo' = Tail(todo)
                /\ buf' = <<>>
  BY <1>1 DEF DoDrain
<1>4. Len(s) \in Nat /\ n \in 0 .. Len(s)
  BY <1>1, LenProperties DEF Bytes
<1> DEFINE taken == SubSeq(s, 1, n)
           left == SubSeq(s, n + 1, Len(s))
<1>5. /\ taken \in Bytes /\ left \in Bytes /\ taken \o left = s
      /\ sink' = sink \o taken
      /\ sink' \in Bytes
  BY <1>1, <1>3, <1>4, CutInTwo, ConcatProperties DEF Bytes
<1>6. /\ ToSet(sink') = ToSet(sink) \cup ToSet(taken)
      /\ ToSet(s) = ToSet(taken) \cup ToSet(left)
      /\ ToSet(buf) \subseteq ToSet(sink) \cup ToSet(s)
  BY <1>1, <1>5, HoldsBoth DEF IInv, Kept
<1>7. Stream = sink \o s
  BY <1>1 DEF Stream
<1>8. CASE n < Len(s)
  <2>1. /\ todo' = <<Drain(left)>> \o Tail(todo) /\ buf' = buf
        /\ Drain(left) \in Part /\ Drain(left).op = "drain" /\ Drain(left).bytes = left
        /\ Drain(left).op \in Emptying
    BY <1>3, <1>5, <1>8 DEF Drain, Part, Emptying
  <2>2. /\ Writing' /\ Elsewhere'
        /\ todo' \in Seq(Part) /\ todo' # <<>>
        /\ Len(todo') = Len(todo)
        /\ todo'[1] = Drain(left)
        /\ \A k \in DOMAIN todo' : k > 1 => todo'[k].op # "drain"
    BY <1>1, <1>2, <2>1, HeadChanges
  <2>3. Draining' /\ todo'[1].bytes = left
    BY <2>1, <2>2 DEF Draining
  <2>4. Stream' = Stream
    <3>1. Stream' = (sink \o taken) \o left
      BY <1>5, <2>3 DEF Stream
    <3>2. (sink \o taken) \o left = sink \o (taken \o left)
      <4>1. sink \in Seq(Int) /\ taken \in Seq(Int) /\ left \in Seq(Int)
        BY <1>1, <1>5 DEF Bytes
      <4>2. \A a, b, c \in Seq(Int) : (a \o b) \o c = a \o (b \o c)
        BY ConcatAssociative
      <4> HIDE DEF taken, left
      <4> QED
        BY <4>1, <4>2
    <3> QED
      BY <1>5, <1>7, <3>1, <3>2
  <2>5. InOrder' /\ Kept'
    <3>1. Held \subseteq Held'
      BY <1>6, <2>1 DEF Held
    <3>2. ToSet(buf') \subseteq ToSet(sink') \cup ToSet(left)
      BY <1>6, <2>1
    <3> QED
      BY <1>2, <2>3, <2>4, <3>1, <3>2, BytesStay
  <2>6. LinesKept'
    BY <1>1, <1>2, <2>1, <2>2 DEF IInv, LinesKept, Newlines
  <2>7. Parts'
    BY <1>1, <1>2, <2>1, <2>2 DEF Parts
  <2>8. TypeOK'
    BY <1>2, <1>5, <2>1, <2>2, PartsTyped DEF IInv, TypeOK, Bytes
  <2> QED
    BY <2>2, <2>5, <2>6, <2>7, <2>8 DEF IInv
<1>9. CASE ~(n < Len(s))
  <2>1. todo' = Tail(todo) /\ buf' = <<>>
    BY <1>3, <1>9
  <2>2. /\ Writing' /\ Elsewhere'
        /\ todo' \in Seq(Part)
        /\ \A k \in DOMAIN todo' : todo'[k].op # "drain"
    BY <1>1, <1>2, <2>1, HeadGone
  <2>3. ~Draining'
    BY <2>2, PartsTyped DEF Draining
  <2>4. sink' = sink \o s
    <3>1. n = Len(s)
      BY <1>4, <1>9
    <3>2. taken = s
      BY <1>1, <3>1, SubSeqFull DEF Bytes
    <3> QED
      BY <1>5, <3>2
  <2>5. Stream' = Stream
    BY <1>5, <1>7, <2>1, <2>3, <2>4, ConcatEmptySeq DEF Stream, Bytes
  <2>6. InOrder' /\ Kept'
    <3>1. ToSet(sink') = ToSet(sink) \cup ToSet(s)
      BY <1>1, <2>4, HoldsBoth
    <3>2. Held \subseteq Held'
      BY <1>6, <3>1 DEF Held
    <3> QED
      BY <1>2, <2>3, <2>5, <3>2, BytesStay
  <2>7. LinesKept'
    BY <2>1, NothingHeld DEF LinesKept
  <2>8. Parts'
    BY <1>1, <1>2, <2>1, <2>2 DEF Parts
  <2>9. TypeOK'
    <3>1. <<>> \in Seq(Int) /\ Len(<<>>) <= Cap
      BY NothingHeld, CapAssumption
    <3> QED
      BY <1>2, <1>5, <2>1, <2>2, <3>1, PartsTyped DEF IInv, TypeOK, Bytes
  <2> QED
    BY <2>2, <2>6, <2>7, <2>8, <2>9 DEF IInv
<1> QED
  BY <1>8, <1>9

\* BufWriter::write puts the slice into the buffer, or past it.
LEMMA PlaceKeeps ==
  ASSUME IInv, DoPlace, UNCHANGED <<arg, next, told, phase>>
  PROVE  IInv'
<1> DEFINE s == todo[1].bytes
<1>1. /\ todo \in Seq(Part) /\ todo # <<>> /\ todo[1].op = "place"
      /\ Head(todo) = todo[1] /\ Len(todo) \in Nat
  BY PartsTyped DEF IInv, Parts, DoPlace
<1>2. /\ phase = "writing" /\ ~threw /\ ~Draining
      /\ s \in Bytes
      /\ count + Len(s) <= Len(arg)
      /\ cut # "middle" =>
           \A n \in 0 .. Len(s) :
             SubSeq(arg, 1, count) \o SubSeq(s, 1, n) = SubSeq(arg, 1, count + n)
  BY <1>1, HeadIsNext
<1>3. /\ sink \in Bytes /\ buf \in Bytes /\ arg \in Bytes /\ told \in Bytes
      /\ Len(s) \in Nat /\ Len(arg) \in Nat /\ Len(buf) \in Nat /\ count \in Nat
  BY <1>2, LenProperties DEF IInv, TypeOK, Bytes
<1>4. /\ UNCHANGED <<threw, faults>>
      /\ todo' = Tail(todo)
  BY DEF DoPlace
\* n bytes of the slice are taken, by the buffer or by the inner writer.
<1>5. \E n \in 0 .. Len(s) :
        \/ /\ n = Len(s) /\ Len(s) < Cap
           /\ buf' = buf \o SubSeq(s, 1, n) /\ sink' = sink
           /\ count' = count + n /\ cut' = cut
        \/ /\ Len(s) >= Cap
           /\ sink' = sink \o SubSeq(s, 1, n) /\ buf' = buf
           /\ count' = count + n
           /\ cut' = (IF n = Len(s) THEN cut
                      ELSE IF Tail(todo) # <<>> THEN "middle"
                      ELSE IF cut = "no" THEN "end" ELSE cut)
  <2>1. CASE Len(s) < Cap
    <3>1. buf' = buf \o s /\ count' = count + Len(s) /\ UNCHANGED <<sink, cut>>
      <4>1. ~(Len(s) >= Cap)
        BY <1>3, <2>1, CapAssumption
      <4> QED
        BY <1>1, <4>1 DEF DoPlace
    <3>2. s = SubSeq(s, 1, Len(s)) /\ Len(s) \in 0 .. Len(s)
      BY <1>2, <1>3, SubSeqFull DEF Bytes
    <3> QED
      BY <2>1, <3>1, <3>2
  <2>2. CASE ~(Len(s) < Cap)
    <3>1. \E n \in 1 .. Len(s) :
            /\ sink' = sink \o SubSeq(s, 1, n)
            /\ count' = count + n
            /\ cut' = (IF n = Len(s) THEN cut
                       ELSE IF Tail(todo) # <<>> THEN "middle"
                       ELSE IF cut = "no" THEN "end" ELSE cut)
      BY <1>1, <2>2 DEF DoPlace
    <3>2. buf' = buf /\ Len(s) >= Cap
      BY <1>1, <2>2 DEF DoPlace
    <3>3. 1 .. Len(s) \subseteq 0 .. Len(s)
      BY <1>3
    <3> QED
      BY <3>1, <3>2, <3>3
  <2> QED
    BY <2>1, <2>2
<1>6. PICK n \in 0 .. Len(s) :
        \/ /\ n = Len(s) /\ Len(s) < Cap
           /\ buf' = buf \o SubSeq(s, 1, n) /\ sink' = sink
           /\ count' = count + n /\ cut' = cut
        \/ /\ Len(s) >= Cap
           /\ sink' = sink \o SubSeq(s, 1, n) /\ buf' = buf
           /\ count' = count + n
           /\ cut' = (IF n = Len(s) THEN cut
                      ELSE IF Tail(todo) # <<>> THEN "middle"
                      ELSE IF cut = "no" THEN "end" ELSE cut)
  BY <1>5
<1> DEFINE taken == SubSeq(s, 1, n)
<1>7. taken \in Bytes /\ Len(taken) = n /\ count' = count + n
  BY <1>2, <1>6, CutInTwo
<1>8. /\ todo' \in Seq(Part)
      /\ Len(todo') = Len(todo) - 1 /\ Len(todo) > 0
      /\ \A i \in 1 .. Len(todo) - 1 : todo'[i] = todo[i + 1]
      /\ DOMAIN todo = 1 .. Len(todo) /\ DOMAIN todo' = 1 .. Len(todo) - 1
      /\ \A k \in DOMAIN todo' : todo'[k].op # "drain"
  <2>1. /\ todo' \in Seq(Part)
        /\ Len(todo') = Len(todo) - 1 /\ Len(todo) > 0
        /\ \A i \in 1 .. Len(todo) - 1 : todo'[i] = todo[i + 1]
    BY <1>1, <1>4, NoHead
  <2>2. DOMAIN todo = 1 .. Len(todo) /\ DOMAIN todo' = 1 .. Len(todo) - 1
    BY <1>1, <2>1, PartsTyped
  <2> QED
    BY <1>1, <2>1, <2>2 DEF IInv, Parts
<1>9. ~Draining' /\ Elsewhere'
  BY <1>2, <1>8, PartsTyped DEF Draining, Elsewhere
<1>10. First' = First /\ Second' = Second /\ Split' = Split
  BY DEF First, Second, Split
\* A slice without a newline ends the call; the other one is followed by a
\* flush.
<1>11. \/ /\ FirstStage /\ Len(todo) = 3 /\ s = First /\ count = 0
          /\ todo[2].op = "flush" /\ Writes(Second, 3)
       \/ /\ LastStage /\ Len(todo) = 1 /\ s = Second
  <2>1. CASE FirstStage
    BY <1>1, <2>1 DEF FirstStage, Puts, Writes, Emptying
  <2>2. CASE LastStage
    BY <1>1, <2>2 DEF LastStage, Puts, Writes, Emptying
  <2> QED
    BY <1>1, <1>2, <2>1, <2>2 DEF IInv, Writing
<1>12. /\ buf' \in Bytes /\ sink' \in Bytes /\ Len(buf') <= Cap
       /\ Stream' = Stream \o taken
       /\ Held' = Held \cup ToSet(taken)
  <2>1. CASE buf' = buf \o taken /\ sink' = sink /\ Len(s) < Cap /\ n = Len(s)
    <3>1. buf' \in Bytes /\ Len(buf') = Len(buf) + Len(s)
      BY <1>3, <1>7, <2>1, ConcatProperties DEF Bytes
    <3>2. Len(buf') <= Cap
      <4>1. buf = <<>> \/ Len(buf) + Len(s) <= Cap
        BY <1>1 DEF IInv, Parts
      <4> QED
        BY <1>3, <2>1, <3>1, <4>1, NothingHeld, CapAssumption
    <3>3. Stream' = sink \o (buf \o taken) /\ Stream = sink \o buf
      BY <1>2, <1>9, <2>1 DEF Stream
    <3>4. sink \o (buf \o taken) = (sink \o buf) \o taken
      <4>1. sink \in Seq(Int) /\ buf \in Seq(Int) /\ taken \in Seq(Int)
        BY <1>3, <1>7 DEF Bytes
      <4> HIDE DEF taken
      <4> QED
        BY <4>1, ConcatAssociative
    <3>5. ToSet(buf') = ToSet(buf) \cup ToSet(taken)
      BY <1>3, <1>7, <2>1, HoldsBoth
    <3> QED
      BY <1>3, <2>1, <3>1, <3>2, <3>3, <3>4, <3>5 DEF Held
  <2>2. CASE sink' = sink \o taken /\ buf' = buf /\ Len(s) >= Cap
    <3>1. sink' \in Bytes
      BY <1>3, <1>7, <2>2, ConcatProperties DEF Bytes
    <3>2. buf = <<>>
      <4>1. buf = <<>> \/ Len(buf) + Len(s) <= Cap
        BY <1>1 DEF IInv, Parts
      <4>2. buf # <<>> => Len(buf) > 0
        BY <1>3, EmptySeq DEF Bytes
      <4> QED
        BY <1>3, <2>2, <4>1, <4>2, CapAssumption
    <3>3. Stream' = (sink \o taken) \o <<>> /\ Stream = sink \o <<>>
      BY <1>2, <1>9, <2>2, <3>2 DEF Stream
    <3>4. Stream' = sink \o taken /\ Stream = sink
      BY <1>3, <2>2, <3>1, <3>3, ConcatEmptySeq DEF Bytes
    <3>5. ToSet(sink') = ToSet(sink) \cup ToSet(taken)
      BY <1>3, <1>7, <2>2, HoldsBoth
    <3> QED
      BY <1>3, <2>2, <3>1, <3>4, <3>5 DEF Held, IInv, TypeOK
  <2> QED
    BY <1>6, <2>1, <2>2
<1>13. InOrder'
  <2>1. SUFFICES ASSUME faults = 0
                 PROVE  /\ Len(Stream') = Len(told') + Len(Counted')
                        /\ cut' # "middle" => Stream' = told' \o Counted'
    BY <1>4 DEF InOrder
  <2>2. /\ Counted = SubSeq(arg, 1, count) /\ Counted' = SubSeq(arg, 1, count + n)
        /\ Counted \in Bytes /\ Len(Counted) = count
        /\ Counted' \in Bytes /\ Len(Counted') = count + n
    <3>1. count \in 0 .. Len(arg) /\ count + n \in 0 .. Len(arg)
      BY <1>2, <1>3
    <3>2. Counted = SubSeq(arg, 1, count) /\ Counted' = SubSeq(arg, 1, count + n)
      BY <1>2, <1>7 DEF Counted
    <3> QED
      BY <1>3, <3>1, <3>2, CutInTwo
  <2>3. Stream \in Bytes /\ Len(Stream) \in Nat /\ Len(told) \in Nat
    <3>1. Stream \in Bytes
      BY <1>2, <1>3, ConcatProperties DEF Stream, Bytes
    <3> QED
      BY <1>3, <3>1, LenProperties DEF Bytes
  <2>4. Len(Stream') = Len(Stream) + n
    BY <1>7, <1>12, <2>3, ConcatProperties DEF Bytes
  <2>5. Len(Stream') = Len(told') + Len(Counted')
    <3>1. Len(Stream) = Len(told) + Len(Counted)
      BY <2>1 DEF IInv, InOrder
    <3> QED
      BY <1>3, <2>2, <2>3, <2>4, <3>1
  <2>6. ASSUME cut' # "middle" PROVE Stream' = told' \o Counted'
    <3>1. cut # "middle"
      BY <1>6, <2>6
    <3>2. Stream' = (told \o Counted) \o taken
      BY <1>12, <2>1, <3>1 DEF IInv, InOrder
    <3>3. (told \o Counted) \o taken = told \o (Counted \o taken)
      <4>1. told \in Seq(Int) /\ Counted \in Seq(Int) /\ taken \in Seq(Int)
        BY <1>3, <1>7, <2>2 DEF Bytes
      <4> HIDE DEF taken
      <4> QED
        BY <4>1, ConcatAssociative
    <3>4. Counted \o taken = Counted'
      BY <1>2, <2>2, <3>1
    <3> QED
      BY <3>2, <3>3, <3>4
  <2> QED
    BY <2>5, <2>6
<1>14. Kept'
  <2>1. Held \subseteq Held' /\ (cut' # "middle" => cut # "middle")
    BY <1>6, <1>12
  <2>2. ASSUME cut' # "middle" PROVE ToSet(Counted') \subseteq Held'
    <3>1. Counted = SubSeq(arg, 1, count) /\ Counted' = SubSeq(arg, 1, count + n)
      BY <1>2, <1>7 DEF Counted
    <3>2. count \in 0 .. Len(arg)
      BY <1>2, <1>3
    <3>3. Counted \in Bytes
      BY <1>3, <3>1, <3>2, CutInTwo
    <3>4. Counted' = Counted \o taken
      BY <1>2, <2>1, <2>2, <3>1
    <3>5. ToSet(Counted') = ToSet(Counted) \cup ToSet(taken)
      BY <1>7, <3>3, <3>4, HoldsBoth
    <3> QED
      BY <1>2, <1>12, <2>1, <2>2, <3>5 DEF IInv, Kept
  <2> QED
    BY <1>9, <2>1, <2>2 DEF IInv, Kept
<1>15. LinesKept'
  <2>1. CASE Len(todo) = 3 /\ todo[2].op = "flush"
    <3>1. Len(todo') = 2 /\ todo'[1] = todo[2]
      <4>1. 1 \in 1 .. Len(todo) - 1 /\ 1 + 1 = 2
        BY <2>1
      <4> QED
        BY <1>8, <2>1, <4>1
    <3> QED
      BY <2>1, <3>1 DEF LinesKept, Emptying
  <2>2. CASE s = Second
    <3>1. SUFFICES ASSUME faults = 0 PROVE Newlines(buf') = {}
      BY <1>4 DEF LinesKept
    <3>2. Newlines(buf) = {}
      BY <1>1, <3>1 DEF IInv, LinesKept, Emptying
    <3>3. Newlines(s) = {}
      BY <1>3, <2>2, TheSlices
    <3>4. CASE buf' = buf \o s
      <4>1. /\ buf' \in Seq(Int) /\ Len(buf') = Len(buf) + Len(s)
            /\ \A i \in 1 .. Len(buf) + Len(s) :
                 buf'[i] = IF i <= Len(buf) THEN buf[i] ELSE s[i - Len(buf)]
        BY <1>2, <1>3, <3>4, ConcatProperties DEF Bytes
      <4>2. /\ DOMAIN buf' = 1 .. Len(buf) + Len(s)
            /\ DOMAIN buf = 1 .. Len(buf) /\ DOMAIN s = 1 .. Len(s)
        BY <1>2, <1>3, <4>1, LenProperties DEF Bytes
      <4>3. ASSUME NEW i \in DOMAIN buf' PROVE ~IsNewline(buf'[i])
        <5>1. CASE i <= Len(buf)
          <6>1. i \in DOMAIN buf /\ buf'[i] = buf[i]
            BY <1>3, <4>1, <4>2, <4>3, <5>1
          <6> QED
            BY <3>2, <6>1 DEF Newlines
        <5>2. CASE i > Len(buf)
          <6>1. i - Len(buf) \in DOMAIN s /\ buf'[i] = s[i - Len(buf)]
            BY <1>3, <4>1, <4>2, <4>3, <5>2
          <6> QED
            BY <3>3, <6>1 DEF Newlines
        <5> QED
          BY <1>3, <4>2, <4>3, <5>1, <5>2
      <4> QED
        BY <4>3 DEF Newlines
    <3>5. CASE buf' = buf
      BY <3>2, <3>5
    <3> QED
      BY <1>2, <1>6, <3>4, <3>5, SubSeqFull DEF Bytes
  <2> QED
    BY <1>11, <2>1, <2>2
<1>16. Parts'
  BY <1>2, <1>4, <1>8, <1>11, PartsTyped DEF Parts
<1>17. Writing'
  <2>1. count' <= Len(arg)
    BY <1>2, <1>3, <1>7
  <2>2. CASE FirstStage /\ Len(todo) = 3 /\ s = First /\ count = 0
             /\ todo[2].op = "flush" /\ Writes(Second, 3)
    <3>1. /\ Len(todo') = 2 /\ todo'[1] = todo[2] /\ todo'[2] = todo[3]
      <4>1. 1 \in 1 .. Len(todo) - 1 /\ 2 \in 1 .. Len(todo) - 1 /\ 1 + 1 = 2 /\ 2 + 1 = 3
        BY <2>2
      <4> QED
        BY <1>8, <2>2, <4>1
    <3>2. Puts(Second, 2)'
      BY <1>10, <2>2, <3>1 DEF Puts, Writes, Emptying
    <3>3. Len(s) = Split
      BY <1>3, <2>2, TheSlices
    <3>4. count' <= Split
      BY <1>3, <1>7, <2>2, <3>3
    <3>5. cut' # "middle" => count' = Split
      <4>1. todo' # <<>>
        BY <1>8, <3>1, PartsTyped
      <4> QED
        BY <1>4, <1>6, <1>7, <2>2, <3>3, <4>1
    <3>6. LastStage'
      BY <1>10, <3>1, <3>2, <3>4, <3>5 DEF LastStage
    <3> QED
      BY <2>1, <3>6 DEF IInv, Writing
  <2>3. CASE Len(todo) = 1
    <3>1. todo' = <<>>
      BY <1>8, <2>3, PartsTyped
    <3> QED
      BY <2>1, <3>1 DEF IInv, Writing
  <2> QED
    BY <1>11, <2>2, <2>3
<1>18. TypeOK'
  <2>1. count' \in 0 .. MaxSlice
    <3>1. Len(arg) <= MaxSlice
      BY <1>2 DEF IInv, Writing
    <3> QED
      BY <1>2, <1>3, <1>7, <3>1, ClientAssumption
  <2>2. cut' \in {"no", "end", "middle"}
    BY <1>6 DEF IInv, TypeOK
  <2> QED
    BY <1>4, <1>8, <1>12, <2>1, <2>2, PartsTyped DEF IInv, TypeOK, Bytes
<1> QED
  BY <1>9, <1>13, <1>14, <1>15, <1>16, <1>17, <1>18 DEF IInv

\* The inner writer fails: the call ends, and the buffer keeps what it held.
LEMMA ThrowKeeps ==
  ASSUME IInv, Throw, UNCHANGED <<arg, next, told, phase>>
  PROVE  IInv'
<1>1. /\ todo' = <<>> /\ threw' = TRUE
      /\ faults' = faults + 1 /\ faults \in Nat /\ faults' \in 0 .. MaxFaults
      /\ faults' > 0 /\ faults' # 0
      /\ UNCHANGED <<buf, sink, count, cut>>
  BY WriterAssumption DEF Throw, IInv, TypeOK
<1>2. <<>> \in Seq(Part) /\ DOMAIN <<>> = {}
  OBVIOUS
<1>3. ~Draining'
  BY <1>1 DEF Draining
<1>4. Parts'
  BY <1>1, <1>2 DEF Parts
<1>5. Writing' /\ Elsewhere'
  BY <1>1 DEF IInv, Writing, Elsewhere
<1>6. InOrder' /\ LinesKept'
  BY <1>1 DEF InOrder, LinesKept
<1>7. threw'
  BY <1>1
<1>8. Held' = Held
  BY <1>1 DEF Held
<1>9. Kept'
  BY <1>1, <1>3, <1>7, <1>8 DEF IInv, Kept
<1>10. threw' \in BOOLEAN
  BY <1>1
<1>11. TypeOK'
  BY <1>1, <1>2, <1>10 DEF IInv, TypeOK
<1> QED
  BY <1>4, <1>5, <1>6, <1>9, <1>11 DEF IInv

\* While no call runs, nothing is counted.
LEMMA NothingCounted ==
  ASSUME IInv, ~Draining, ~Draining', Counted = <<>>, Counted' = <<>>,
         UNCHANGED <<buf, sink, faults, cut, told>>
  PROVE  InOrder' /\ Kept'
<1>1. Stream' = Stream /\ Held' = Held
  BY DEF Stream, Held
<1>2. InOrder'
  BY <1>1 DEF IInv, InOrder
<1>3. ToSet(Counted') \subseteq Held'
  BY NothingHeld
<1>4. Kept'
  BY <1>1, <1>3 DEF IInv, Kept
<1> QED
  BY <1>2, <1>4

\* LineWriter::write is called.
LEMMA WriteKeeps ==
  ASSUME IInv, Write
  PROVE  IInv'
<1>1. PICK n \in 1 .. MaxSlice :
        /\ next + n <= MaxStream + 1
        /\ \E s \in Slices(n) : CallWrite(s) /\ arg' = s
  BY DEF Write
<1>2. /\ phase = "open" /\ phase' = "writing" /\ UNCHANGED <<next, told>>
      /\ todo = <<>> /\ next \in Int
  BY DEF Write, IInv, Elsewhere, TypeOK
<1>3. /\ arg' \in Bytes /\ Len(arg') = n
      /\ CallWrite(arg')
  <2>1. PICK s \in Slices(n) : CallWrite(s) /\ arg' = s
    BY <1>1
  <2>2. PICK nl \in SUBSET (1 .. n) :
          s = [i \in 1 .. n |-> IF i \in nl THEN 1 - next - i ELSE next + i - 1]
    BY DEF Slices
  <2>3. s \in [1 .. n -> Int]
    BY <1>2, <2>2
  <2>4. n \in Nat
    BY ClientAssumption
  <2>5. s \in Seq(Int) /\ Len(s) = n
    BY <2>3, <2>4
  <2> QED
    BY <2>1, <2>5 DEF Bytes
<1>4. /\ todo' = LineParts(arg') /\ count' = 0 /\ threw' = FALSE
      /\ UNCHANGED <<buf, sink, faults, cut>>
  BY <1>3 DEF CallWrite
<1>5. ~threw'
  BY <1>4
<1>6. /\ Split' \in 0 .. Len(arg')
      /\ First' \in Bytes /\ Second' \in Bytes
  <2>1. (Newlines(arg') = {} => Split' = 0) /\ (Newlines(arg') # {} => Split' = LastNewline(arg'))
    BY DEF Split
  <2>2. Newlines(arg') # {} => LastNewline(arg') \in Newlines(arg')
    BY <1>3, LastNewlineIsLast
  <2>3. Newlines(arg') \subseteq 1 .. Len(arg')
    BY <1>3, LenProperties DEF Newlines, Bytes
  <2>4. Split' \in 0 .. Len(arg')
    BY <1>3, <2>1, <2>2, <2>3, ClientAssumption
  <2> QED
    BY <1>3, <2>4, CutInTwo DEF First, Second
<1>7. ASSUME Newlines(arg') = {}
      PROVE  /\ todo' \in Seq(Part)
             /\ FirstStage' \/ LastStage'
             /\ Parts' /\ ~Draining'
  <2>1. todo' = <<Put(arg')>>
    BY <1>4, <1>7 DEF LineParts
  <2>2. Split' = 0 /\ Second' = arg'
    <3>1. Split' = 0
      BY <1>7 DEF Split
    <3>2. Second' = SubSeq(arg', 1, Len(arg'))
      BY <3>1 DEF Second
    <3> QED
      BY <1>3, <3>1, <3>2, SubSeqFull DEF Bytes
  <2>3. /\ Put(arg') \in Part /\ Put(arg').op = "put" /\ Put(arg').bytes = arg'
    BY <1>3 DEF Put, Part
  <2>4. /\ todo' \in Seq(Part) /\ Len(todo') = 1 /\ todo'[1] = Put(arg')
        /\ todo' # <<>> /\ DOMAIN todo' = {1}
    BY <2>1, <2>3
  <2>5. LastStage'
    <3>1. Puts(Second, 1)'
      BY <2>2, <2>3, <2>4 DEF Puts, Writes
    <3> QED
      BY <1>4, <2>2, <2>4, <3>1 DEF LastStage
  <2>6. Parts'
    BY <1>5, <2>3, <2>4 DEF Parts
  <2>7. ~Draining'
    BY <2>3, <2>4 DEF Draining
  <2> QED
    BY <2>4, <2>5, <2>6, <2>7
<1>8. ASSUME Newlines(arg') # {}
      PROVE  /\ todo' \in Seq(Part)
             /\ FirstStage' \/ LastStage'
             /\ Parts' /\ ~Draining'
  <2>1. todo' = <<Put(First'), Flush, Put(Second')>>
    BY <1>4, <1>8 DEF LineParts, First, Second, Split
  <2>2. Split' > 0
    <3>1. Split' \in Newlines(arg')
      BY <1>3, <1>8, LastNewlineIsLast DEF Split
    <3>2. Newlines(arg') \subseteq 1 .. Len(arg')
      BY <1>3, LenProperties DEF Newlines, Bytes
    <3> QED
      BY <1>6, <3>1, <3>2
  <2>3. /\ Put(First') \in Part /\ Put(First').op = "put" /\ Put(First').bytes = First'
        /\ Put(Second') \in Part /\ Put(Second').op = "put" /\ Put(Second').bytes = Second'
        /\ Flush \in Part /\ Flush.op = "flush"
    BY <1>6 DEF Put, Flush, Part, Bytes
  <2>4. /\ todo' \in Seq(Part) /\ Len(todo') = 3 /\ todo' # <<>> /\ DOMAIN todo' = 1 .. 3
        /\ todo'[1] = Put(First') /\ todo'[2] = Flush /\ todo'[3] = Put(Second')
    BY <2>1, <2>3
  <2>5. FirstStage'
    <3>1. /\ Len(todo') = 1 + 2 /\ Puts(First, 1)'
          /\ (todo'[1 + 1]).op = "flush" /\ Writes(Second, 1 + 2)'
      BY <2>3, <2>4 DEF Puts, Writes
    <3> QED
      BY <1>4, <2>2, <3>1 DEF FirstStage
  <2>6. Parts'
    <3>1. \A k \in DOMAIN todo' : k > 1 => todo'[k].op # "drain"
      BY <2>3, <2>4
    <3> QED
      BY <1>5, <2>3, <2>4, <3>1 DEF Parts
  <2>7. ~Draining'
    BY <2>3, <2>4 DEF Draining
  <2> QED
    BY <2>4, <2>5, <2>6, <2>7
<1>9. todo' \in Seq(Part) /\ (FirstStage' \/ LastStage') /\ Parts' /\ ~Draining'
  BY <1>7, <1>8
<1>10. Writing' /\ Elsewhere'
  BY <1>1, <1>2, <1>3, <1>4, <1>9, ClientAssumption DEF Writing, Elsewhere
<1>11. Counted = <<>> /\ Counted' = <<>>
  BY <1>2, <1>4, SubSeqEmpty DEF Counted
<1>12. ~Draining
  BY <1>2 DEF Draining
<1>13. InOrder' /\ Kept'
  BY <1>2, <1>4, <1>9, <1>11, <1>12, NothingCounted
<1>14. LinesKept'
  BY <1>2, <1>4, NothingHeld DEF IInv, LinesKept, Newlines
<1>15. TypeOK'
  <2>1. threw' \in BOOLEAN
    BY <1>4
  <2> QED
    BY <1>2, <1>3, <1>4, <1>9, <2>1, PartsTyped, ClientAssumption DEF IInv, TypeOK, Bytes
<1> QED
  BY <1>9, <1>10, <1>13, <1>14, <1>15 DEF IInv

\* write has returned to the client, with a count or an exception.
LEMMA ReturnKeeps ==
  ASSUME IInv, Return
  PROVE  IInv'
<1>1. /\ phase = "writing" /\ todo = <<>>
      /\ phase' = "open" /\ arg' = <<>>
      /\ UNCHANGED <<buf, sink, todo, count, threw, faults, cut>>
  BY DEF Return, Ready, writerVars
<1>2. Len(arg) \in Nat /\ count \in 0 .. Len(arg) /\ told \in Bytes /\ arg \in Bytes
  BY <1>1, LenProperties DEF IInv, TypeOK, Writing, Bytes
<1>3. Counted = SubSeq(arg, 1, count) /\ Counted' = <<>> /\ Counted \in Bytes
  BY <1>1, <1>2, CutInTwo DEF Counted
<1>4. ~Draining /\ ~Draining' /\ Stream' = Stream /\ Held' = Held
  BY <1>1 DEF Draining, Stream, Held
<1>5. Parts' /\ Writing' /\ Elsewhere' /\ LinesKept'
  BY <1>1 DEF IInv, Parts, Writing, Elsewhere, LinesKept, Newlines
<1>6. CASE threw
  <2>1. told' = told /\ next' = next + Len(arg) /\ faults > 0 /\ faults \in Nat
    BY <1>6 DEF Return, IInv, Parts, TypeOK
  <2>2. InOrder'
    BY <1>1, <2>1 DEF InOrder
  <2>3. Kept'
    BY <1>1, <1>3, <1>4, <2>1, NothingHeld DEF IInv, Kept
  <2>4. TypeOK'
    <3>1. next' \in 1 .. MaxStream + 1
      BY <1>1, <1>2, <2>1, ClientAssumption DEF IInv, Writing, TypeOK
    <3> QED
      BY <1>1, <2>1, <3>1 DEF IInv, TypeOK
  <2> QED
    BY <1>5, <2>2, <2>3, <2>4 DEF IInv
<1>7. CASE ~threw
  <2>1. told' = told \o Counted /\ next' = next + count
    BY <1>3, <1>7 DEF Return
  <2>2. /\ told' \in Bytes /\ Len(told') = Len(told) + Len(Counted)
        /\ told' \o <<>> = told'
        /\ ToSet(told') = ToSet(told) \cup ToSet(Counted)
    <3>1. told' \in Bytes /\ Len(told') = Len(told) + Len(Counted)
      BY <1>2, <1>3, <2>1, ConcatProperties DEF Bytes
    <3> QED
      BY <1>2, <1>3, <2>1, <3>1, HoldsBoth, ConcatEmptySeq DEF Bytes
  <2>3. InOrder'
    <3>1. Len(told') + Len(Counted') = Len(told) + Len(Counted)
      <4>1. Len(told') \in Nat
        BY <2>2, LenProperties DEF Bytes
      <4>2. Len(Counted') = 0
        BY <1>3, NothingHeld
      <4> QED
        BY <2>2, <4>1, <4>2
    <3>2. told' \o Counted' = told \o Counted
      BY <1>3, <2>1, <2>2
    <3> QED
      BY <1>1, <1>4, <3>1, <3>2 DEF IInv, InOrder
  <2>4. Kept'
    BY <1>1, <1>3, <1>4, <1>7, <2>2, NothingHeld DEF IInv, Kept
  <2>5. TypeOK'
    <3>1. next' \in 1 .. MaxStream + 1
      BY <1>1, <1>2, <2>1, ClientAssumption DEF IInv, Writing, TypeOK
    <3> QED
      BY <1>1, <2>2, <3>1 DEF IInv, TypeOK, Bytes
  <2> QED
    BY <1>5, <2>3, <2>4, <2>5 DEF IInv
<1> QED
  BY <1>6, <1>7

\* flush or ~BufWriter is called.
LEMMA CallFlushKeeps ==
  ASSUME IInv, FlushCall \/ Close
  PROVE  IInv'
<1>1. /\ phase = "open" /\ phase' \in {"flushing", "closing"}
      /\ todo = <<>> /\ todo' = <<Flush>> /\ count' = 0 /\ threw' = FALSE
      /\ UNCHANGED <<buf, sink, faults, cut, arg, next, told>>
  BY DEF FlushCall, Close, CallFlush, Ready
<1>2. Flush \in Part /\ Flush.op = "flush" /\ Flush.op \in Emptying
  BY DEF Flush, Part, Emptying, Bytes
<1>3. /\ todo' \in Seq(Part) /\ Len(todo') = 1 /\ todo'[1] = Flush
      /\ todo' # <<>> /\ DOMAIN todo' = {1}
  BY <1>1, <1>2
<1>4. ~threw'
  BY <1>1
<1>5. Parts' /\ ~Draining /\ ~Draining'
  BY <1>1, <1>2, <1>3, <1>4 DEF Parts, Draining
<1>6. Writing' /\ Elsewhere'
  BY <1>1, <1>2, <1>3 DEF Writing, Elsewhere
<1>7. Counted = <<>> /\ Counted' = <<>>
  BY <1>1 DEF Counted
<1>8. InOrder' /\ Kept'
  BY <1>1, <1>5, <1>7, NothingCounted
<1>9. LinesKept'
  BY <1>1, NothingHeld DEF IInv, LinesKept, Newlines
<1>10. TypeOK'
  <2>1. threw' \in BOOLEAN
    BY <1>1
  <2>2. count' \in 0 .. MaxSlice /\ phase' \in {"open", "writing", "flushing", "closing", "closed"}
    BY <1>1, ClientAssumption
  <2> QED
    BY <1>1, <1>3, <2>1, <2>2, PartsTyped DEF IInv, TypeOK
<1> QED
  BY <1>5, <1>6, <1>8, <1>9, <1>10 DEF IInv

\* flush or ~BufWriter has returned.
LEMMA FlushedKeeps ==
  ASSUME IInv, FlushReturn \/ Closed
  PROVE  IInv'
<1>1. /\ phase \in {"flushing", "closing"} /\ phase' \in {"open", "closed"}
      /\ todo = <<>>
      /\ UNCHANGED <<buf, sink, todo, count, threw, faults, cut, arg, next, told>>
  BY DEF FlushReturn, Closed, Ready, writerVars
<1>2. ~Draining /\ ~Draining' /\ Counted = <<>> /\ Counted' = <<>>
  BY <1>1 DEF Draining, Counted
<1>3. InOrder' /\ Kept'
  BY <1>1, <1>2, NothingCounted
<1>4. Parts' /\ Writing' /\ Elsewhere' /\ LinesKept'
  BY <1>1 DEF IInv, Parts, Writing, Elsewhere, LinesKept, Newlines
<1>5. TypeOK'
  BY <1>1 DEF IInv, TypeOK
<1> QED
  BY <1>3, <1>4, <1>5 DEF IInv
-----------------------------------------------------------------------------
\* The writer begins with nothing.
LEMMA InitIInv == Init => IInv
<1> SUFFICES ASSUME Init PROVE IInv
  OBVIOUS
<1> USE DEF Init, InitWriter
<1>1. TypeOK
  <2>1. <<>> \in Seq(Int) /\ Len(<<>>) <= Cap /\ DOMAIN <<>> = {}
    BY CapAssumption
  <2>2. 1 \in 1 .. MaxStream + 1 /\ 0 \in 0 .. MaxSlice /\ 0 \in 0 .. MaxFaults
    BY ClientAssumption, WriterAssumption
  <2>3. threw \in BOOLEAN
    OBVIOUS
  <2> QED
    BY <2>1, <2>2, <2>3 DEF TypeOK
<1>2. ~threw
  OBVIOUS
<1>3. Parts /\ Writing /\ Elsewhere
  BY <1>2 DEF Parts, Writing, Elsewhere
<1>4. Stream = <<>> /\ Counted = <<>> /\ ~Draining
  BY DEF Stream, Counted, Draining
<1>5. InOrder /\ LinesKept
  BY <1>4, NothingHeld DEF InOrder, LinesKept
<1>6. Kept
  BY <1>4, NothingHeld DEF Kept
<1> QED
  BY <1>1, <1>3, <1>5, <1>6 DEF IInv

\* Every step keeps the invariant.
LEMMA NextIInv == IInv /\ [Next]_vars => IInv'
<1> SUFFICES ASSUME IInv, [Next]_vars PROVE IInv'
  OBVIOUS
<1>1. CASE Write
  BY <1>1, WriteKeeps
<1>2. CASE Return
  BY <1>2, ReturnKeeps
<1>3. CASE FlushCall \/ Close
  BY <1>3, CallFlushKeeps
<1>4. CASE FlushReturn \/ Closed
  BY <1>4, FlushedKeeps
<1>5. CASE Internal
  <2>1. UNCHANGED <<arg, next, told, phase>>
    BY <1>5 DEF Internal
  <2>2. CASE DoPut
    BY <2>1, <2>2, PutKeeps
  <2>3. CASE DoPlace
    BY <2>1, <2>3, PlaceKeeps
  <2>4. CASE DoFlush
    BY <2>1, <2>4, FlushKeeps
  <2>5. CASE DoDrain
    BY <2>1, <2>5, DrainKeeps
  <2>6. CASE Throw
    BY <2>1, <2>6, ThrowKeeps
  <2> QED
    BY <1>5, <2>2, <2>3, <2>4, <2>5, <2>6 DEF Internal, Step
<1>6. CASE UNCHANGED vars
  <2>1. UNCHANGED <<buf, sink, todo, count, threw, faults, cut, arg, next, told, phase>>
    BY <1>6 DEF vars, writerVars
  <2>2. TypeOK' = TypeOK /\ Parts' = Parts /\ Elsewhere' = Elsewhere
    BY <2>1 DEF TypeOK, Parts, Elsewhere
  <2>3. Writing' = Writing
    BY <2>1 DEF Writing, FirstStage, LastStage, Puts, Writes, Split, First, Second
  <2>4. InOrder' = InOrder /\ LinesKept' = LinesKept /\ Kept' = Kept
    BY <2>1 DEF InOrder, LinesKept, Kept, Stream, Counted, Draining, Held, Newlines
  <2> QED
    BY <2>2, <2>3, <2>4 DEF IInv
<1> QED
  BY <1>1, <1>2, <1>3, <1>4, <1>5, <1>6 DEF Next

\* The invariant of the client and its writer.
THEOREM LineWriterInvariant == Spec => []IInv
BY InitIInv, NextIInv, PTL DEF Spec

\* What io::LineWriter says was written is delivered or buffered, once and in
\* order, and the buffer stays within its capacity.
THEOREM LineWriterToldIsDelivered == Spec => []ToldIsDelivered
<1>1. IInv => ToldIsDelivered
  <2> SUFFICES ASSUME IInv PROVE ToldIsDelivered
    OBVIOUS
  <2>1. ASSUME phase = "open", faults = 0
        PROVE  /\ Len(sink \o buf) = Len(told)
               /\ cut # "middle" => sink \o buf = told
    <3>1. Stream = sink \o buf /\ Counted = <<>>
      BY <2>1 DEF IInv, Elsewhere, Stream, Draining, Counted
    <3>2. told \in Seq(Int) /\ Len(told) \in Nat
      BY LenProperties DEF IInv, TypeOK
    <3>3. told \o <<>> = told
      BY <3>2, ConcatEmptySeq
    <3> QED
      BY <2>1, <3>1, <3>2, <3>3, NothingHeld DEF IInv, InOrder
  <2> QED
    BY <2>1 DEF IInv, ToldIsDelivered
<1> QED
  BY <1>1, LineWriterInvariant, PTL

\* A write that returned has left no complete line in the buffer, unless a
\* flush failed.
THEOREM LineWriterLinesGoOut == Spec => []LinesGoOut
<1>1. IInv => LinesGoOut
  BY NothingHeld DEF IInv, LinesGoOut, LinesKept, Elsewhere
<1> QED
  BY <1>1, LineWriterInvariant, PTL

\* An inner writer that fails costs nothing that was accepted before.
THEOREM LineWriterFaultsLoseNothing == Spec => []FaultsLoseNothing
<1>1. IInv => FaultsLoseNothing
  <2> SUFFICES ASSUME IInv, cut # "middle", NEW i \in DOMAIN told
               PROVE  \E k \in DOMAIN (sink \o buf) : (sink \o buf)[k] = told[i]
    BY DEF FaultsLoseNothing
  <2>1. told[i] \in ToSet(told)
    BY DEF ToSet
  <2>2. told[i] \in ToSet(sink \o buf)
    <3>1. sink \in Bytes /\ buf \in Bytes
      BY DEF IInv, TypeOK, Bytes
    <3> QED
      BY <2>1, <3>1, HoldsBoth DEF IInv, Kept, Held
  <2> QED
    BY <2>2 DEF ToSet
<1> QED
  BY <1>1, LineWriterInvariant, PTL
=============================================================================
