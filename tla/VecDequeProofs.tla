--------------------------- MODULE VecDequeProofs ---------------------------
(***************************************************************************)
(* Proofs about VecDeque, for all values and all capacities: the ring      *)
(* buffer is a double-ended queue, whose growth keeps every value in its   *)
(* place, and an iteration from both ends meets every value once.          *)
(*                                                                         *)
(* The argument unrolls the ring: a run of slots is the sequence of them,  *)
(* whether it wraps around the end of the memory or not, and what an       *)
(* operation makes of the run is what Deque asks for.  Nothing of that     *)
(* needs a capacity that is a power of two, because the model takes        *)
(* remainders; that the capacity is one, which the mask of the code needs, *)
(* is a theorem of its own at the end.                                     *)
(***************************************************************************)
EXTENDS VecDeque, SequenceTheorems, FiniteSetTheorems, TLAPS

Slot == Value \cup {Junk}

\* The slots of a ring of capacity c from f up to b, unrolled.
Dist(c, f, b) == IF f <= b THEN b - f ELSE b - f + c
At(c, f, k) == IF f + k - 1 < c THEN f + k - 1 ELSE f + k - 1 - c
Ring(s, c, f, b) == [k \in 1 .. Dist(c, f, b) |-> s[At(c, f, k)]]

\* Memory of capacity c, and indexes into it.
Memory(c) == [0 .. c - 1 -> Slot]
Index(c) == IF c = 0 THEN {0} ELSE 0 .. c - 1

\* The invariant: a queue in its memory ...
Placed ==
  \E c \in Nat : slots \in Memory(c) /\ front \in Index(c) /\ back \in Index(c)
ValuesIn == Contents \in Seq(Value) /\ out \in Seq(Value)

\* ... and an iteration that has met what it has passed.
Meeting ==
  /\ it \in [on : BOOLEAN, front : Nat, back : Nat]
  /\ it.on =>
       /\ {it.front, it.back} \subseteq Index(cap)
       /\ ahead \in Seq(Slot) /\ behind \in Seq(Slot)
       /\ IterMeetsOnce

IInv == Placed /\ ValuesIn /\ Meeting
-----------------------------------------------------------------------------
\* The capacity is one more than the last index.
LEMMA CapIs ==
  ASSUME NEW c \in Nat, NEW s, DOMAIN s = 0 .. c - 1
  PROVE  CapOf(s) = c
<1>1. CASE c = 0
  BY <1>1 DEF CapOf
<1>2. CASE c # 0
  <2>1. c - 1 \in DOMAIN s /\ (c - 1) + 1 \notin DOMAIN s /\ DOMAIN s # {}
    BY <1>2
  <2>2. \A n \in DOMAIN s : n + 1 \notin DOMAIN s => n = c - 1
    BY <1>2
  <2> DEFINE last == CHOOSE n \in DOMAIN s : n + 1 \notin DOMAIN s
  <2>3. last = c - 1
    BY <2>1, <2>2
  <2>4. CapOf(s) = 1 + last
    BY <2>1, Zenon DEF CapOf
  <2> HIDE DEF last
  <2> QED
    BY <2>3, <2>4
<1> QED
  BY <1>1, <1>2

\* Between, Wrap and Segment, without remainders.
LEMMA Remainders ==
  ASSUME NEW c \in Nat, c # 0, NEW f \in 0 .. c - 1, NEW b \in 0 .. c - 1
  PROVE  /\ (b - f) % c = Dist(c, f, b)
         /\ Dist(c, f, b) \in 0 .. c - 1
         /\ \A k \in 1 .. c : (f + k - 1) % c = At(c, f, k) /\ At(c, f, k) \in 0 .. c - 1
<1>1. \A a \in Int : 0 <= a /\ a < c => a % c = a
  OBVIOUS
<1>2. \A a \in Int : c <= a /\ a < 2 * c => a % c = a - c
  OBVIOUS
<1>3. \A a \in Int : -c <= a /\ a < 0 => a % c = a + c
  OBVIOUS
<1>4. (b - f) % c = Dist(c, f, b) /\ Dist(c, f, b) \in 0 .. c - 1
  <2>1. CASE f <= b
    BY <1>1, <2>1 DEF Dist
  <2>2. CASE ~(f <= b)
    BY <1>3, <2>2 DEF Dist
  <2> QED
    BY <2>1, <2>2
<1>5. ASSUME NEW k \in 1 .. c
      PROVE  (f + k - 1) % c = At(c, f, k) /\ At(c, f, k) \in 0 .. c - 1
  <2>1. CASE f + k - 1 < c
    BY <1>1, <2>1 DEF At
  <2>2. CASE ~(f + k - 1 < c)
    BY <1>2, <2>2 DEF At
  <2> QED
    BY <2>1, <2>2
<1> QED
  BY <1>4, <1>5

\* What a sequence of slots is.
LEMMA RingIs ==
  ASSUME NEW c \in Nat, NEW s \in Memory(c), NEW f \in Index(c), NEW b \in Index(c)
  PROVE  /\ Dist(c, f, b) \in Nat /\ (c # 0 => Dist(c, f, b) \in 0 .. c - 1)
         /\ Ring(s, c, f, b) \in Seq(Slot)
         /\ Len(Ring(s, c, f, b)) = Dist(c, f, b)
         /\ \A k \in 1 .. Dist(c, f, b) : Ring(s, c, f, b)[k] = s[At(c, f, k)]
<1> DEFINE n == Dist(c, f, b)
<1>1. n \in Nat /\ (c # 0 => n \in 0 .. c - 1)
  <2>1. CASE c = 0
    BY <2>1 DEF Dist, Index
  <2>2. CASE c # 0
    BY <2>2, Remainders DEF Index
  <2> QED
    BY <2>1, <2>2
<1>2. \A k \in 1 .. n : s[At(c, f, k)] \in Slot
  <2>1. CASE c = 0
    BY <2>1 DEF Dist, Index
  <2>2. CASE c # 0
    <3>1. \A k \in 1 .. n : k \in 1 .. c
      BY <1>1, <2>2
    <3> QED
      BY <2>2, <3>1, Remainders DEF Index, Memory
  <2> QED
    BY <2>1, <2>2
<1> HIDE DEF n
<1>3. Ring(s, c, f, b) = [k \in 1 .. n |-> s[At(c, f, k)]]
  BY DEF Ring, n
<1>4. Ring(s, c, f, b) \in Seq(Slot)
  <2>1. Ring(s, c, f, b) \in [1 .. n -> Slot]
    BY <1>2, <1>3
  <2>2. Seq(Slot) = UNION {[1 .. m -> Slot] : m \in Nat}
    BY SeqDef, Zenon
  <2> QED
    BY <1>1, <2>1, <2>2, Zenon
<1>5. Len(Ring(s, c, f, b)) = n
  BY <1>1, <1>3, <1>4, LenProperties
<1> QED
  BY <1>1, <1>3, <1>4, <1>5 DEF n

\* Segment(f, b) of memory s, for any memory.
SegmentOf(s, f, b) ==
  [k \in 1 .. (IF CapOf(s) = 0 THEN 0 ELSE (b - f) % CapOf(s)) |-> s[(f + k - 1) % CapOf(s)]]

\* A segment of the queue is the ring, unrolled.
LEMMA SegmentIsRing ==
  ASSUME NEW c \in Nat, NEW s \in Memory(c), NEW f \in Index(c), NEW b \in Index(c)
  PROVE  SegmentOf(s, f, b) = Ring(s, c, f, b)
<1>1. CapOf(s) = c
  BY CapIs DEF Memory
<1>2. CASE c = 0
  BY <1>1, <1>2 DEF SegmentOf, Ring, Dist, Index
<1>3. CASE c # 0
  <2>1. (b - f) % c = Dist(c, f, b) /\ Dist(c, f, b) \in 0 .. c - 1
    BY <1>3, Remainders DEF Index
  <2>2. \A k \in 1 .. Dist(c, f, b) : k \in 1 .. c
    BY <1>3, <2>1
  <2>3. \A k \in 1 .. Dist(c, f, b) : (f + k - 1) % c = At(c, f, k)
    BY <1>3, <2>2, Remainders DEF Index
  <2> QED
    BY <1>1, <1>3, <2>1, <2>3 DEF SegmentOf, Ring
<1> QED
  BY <1>2, <1>3

\* Two sequences of slots that agree are the same.
LEMMA SameSlots ==
  ASSUME NEW p \in Seq(Slot), NEW q \in Seq(Slot), Len(p) = Len(q),
         \A k \in 1 .. Len(p) : p[k] = q[k]
  PROVE  p = q
BY SeqEqual

\* One more slot at the back of a ring that has room.
LEMMA RingAppends ==
  ASSUME NEW c \in Nat, NEW s \in Memory(c), NEW f \in Index(c), NEW b \in Index(c),
         Dist(c, f, b) + 1 < c, NEW v \in Slot
  PROVE  /\ [s EXCEPT ![b] = v] \in Memory(c) /\ (b + 1) % c \in Index(c)
         /\ Ring([s EXCEPT ![b] = v], c, f, (b + 1) % c) = Append(Ring(s, c, f, b), v)
<1> DEFINE n == Dist(c, f, b)
           t == [s EXCEPT ![b] = v]
           g == (b + 1) % c
<1>1. /\ c # 0 /\ f \in 0 .. c - 1 /\ b \in 0 .. c - 1
      /\ n \in Nat /\ n + 1 < c
  BY RingIs DEF Index
<1>2. g = (IF b + 1 < c THEN b + 1 ELSE 0) /\ g \in 0 .. c - 1
  <2>1. g = At(c, b, 2) /\ At(c, b, 2) \in 0 .. c - 1
    <3>1. 2 \in 1 .. c /\ b + 2 - 1 = b + 1
      BY <1>1
    <3> QED
      BY <1>1, <3>1, Remainders
  <2> QED
    BY <1>1, <2>1 DEF At
<1> HIDE DEF g
<1>3. t \in Memory(c) /\ t[b] = v /\ \A i \in (0 .. c - 1) \ {b} : t[i] = s[i]
  BY <1>1 DEF Memory
<1> HIDE DEF t
<1>4. Dist(c, f, g) = n + 1
  BY <1>1, <1>2 DEF Dist
<1>5. g \in Index(c)
  BY <1>1, <1>2 DEF Index
<1>6. /\ Ring(t, c, f, g) \in Seq(Slot) /\ Len(Ring(t, c, f, g)) = n + 1
      /\ \A k \in 1 .. n + 1 : Ring(t, c, f, g)[k] = t[At(c, f, k)]
  BY <1>3, <1>4, <1>5, RingIs
<1>7. /\ Ring(s, c, f, b) \in Seq(Slot) /\ Len(Ring(s, c, f, b)) = n
      /\ \A k \in 1 .. n : Ring(s, c, f, b)[k] = s[At(c, f, k)]
  BY RingIs
<1>8. /\ Append(Ring(s, c, f, b), v) \in Seq(Slot)
      /\ Len(Append(Ring(s, c, f, b), v)) = n + 1
      /\ \A k \in 1 .. n : Append(Ring(s, c, f, b), v)[k] = s[At(c, f, k)]
      /\ Append(Ring(s, c, f, b), v)[n + 1] = v
  <2> HIDE DEF n
  <2> QED
    BY <1>1, <1>7, AppendProperties
<1>9. ASSUME NEW k \in 1 .. n + 1 PROVE Ring(t, c, f, g)[k] = Append(Ring(s, c, f, b), v)[k]
  <2>1. CASE k \in 1 .. n
    <3>1. At(c, f, k) \in (0 .. c - 1) \ {b}
      BY <1>1, <2>1 DEF At, Dist
    <3> QED
      BY <1>3, <1>6, <1>8, <2>1, <3>1
  <2>2. CASE k = n + 1
    <3>1. At(c, f, k) = b
      BY <1>1, <2>2 DEF At, Dist
    <3> QED
      BY <1>3, <1>6, <1>8, <2>2, <3>1
  <2>3. k \in 1 .. n \/ k = n + 1
    BY <1>1
  <2> QED
    BY <2>1, <2>2, <2>3
<1>10. Ring(t, c, f, g) = Append(Ring(s, c, f, b), v)
  BY <1>6, <1>8, <1>9, SameSlots
<1> QED
  BY <1>3, <1>5, <1>10 DEF t, g

\* One more slot at the front.
LEMMA RingPrepends ==
  ASSUME NEW c \in Nat, NEW s \in Memory(c), NEW f \in Index(c), NEW b \in Index(c),
         Dist(c, f, b) + 1 < c, NEW v \in Slot
  PROVE  LET g == (f - 1) % c IN
         /\ [s EXCEPT ![g] = v] \in Memory(c) /\ g \in Index(c)
         /\ Ring([s EXCEPT ![g] = v], c, g, b) = <<v>> \o Ring(s, c, f, b)
<1> DEFINE n == Dist(c, f, b)
           g == (f - 1) % c
           t == [s EXCEPT ![g] = v]
<1>1. /\ c # 0 /\ f \in 0 .. c - 1 /\ b \in 0 .. c - 1
      /\ n \in Nat /\ n + 1 < c
  BY RingIs DEF Index
<1>2. g = (IF f > 0 THEN f - 1 ELSE c - 1) /\ g \in 0 .. c - 1
  <2>1. /\ \A a \in Int : 0 <= a /\ a < c => a % c = a
        /\ \A a \in Int : -c <= a /\ a < 0 => a % c = a + c
    OBVIOUS
  <2>2. f - 1 \in Int /\ f - 1 < c /\ -c <= f - 1
    BY <1>1
  <2>3. CASE f > 0
    BY <1>1, <2>1, <2>2, <2>3
  <2>4. CASE ~(f > 0)
    BY <1>1, <2>1, <2>2, <2>4
  <2> QED
    BY <2>3, <2>4
<1> HIDE DEF g
<1>3. t \in Memory(c) /\ t[g] = v /\ \A i \in (0 .. c - 1) \ {g} : t[i] = s[i]
  BY <1>2 DEF Memory
<1> HIDE DEF t
<1>4. Dist(c, g, b) = n + 1
  BY <1>1, <1>2 DEF Dist
<1>5. g \in Index(c)
  BY <1>1, <1>2 DEF Index
<1>6. /\ Ring(t, c, g, b) \in Seq(Slot) /\ Len(Ring(t, c, g, b)) = n + 1
      /\ \A k \in 1 .. n + 1 : Ring(t, c, g, b)[k] = t[At(c, g, k)]
  BY <1>3, <1>4, <1>5, RingIs
<1>7. /\ Ring(s, c, f, b) \in Seq(Slot) /\ Len(Ring(s, c, f, b)) = n
      /\ \A k \in 1 .. n : Ring(s, c, f, b)[k] = s[At(c, f, k)]
  BY RingIs
<1> DEFINE p == <<v>> \o Ring(s, c, f, b)
<1>8. p \in Seq(Slot) /\ Len(p) = n + 1 /\ p[1] = v /\ \A k \in 2 .. n + 1 : p[k] = s[At(c, f, k - 1)]
  <2>1. <<v>> \in Seq(Slot) /\ Len(<<v>>) = 1 /\ <<v>>[1] = v
    OBVIOUS
  <2>2. /\ p \in Seq(Slot) /\ Len(p) = 1 + n
        /\ \A k \in 1 .. 1 + n : p[k] = IF k <= 1 THEN <<v>>[k] ELSE Ring(s, c, f, b)[k - 1]
    BY <1>7, <2>1, ConcatProperties
  <2> HIDE DEF n, p
  <2>3. 1 + n = n + 1 /\ 1 \in 1 .. 1 + n
        /\ \A k \in 2 .. n + 1 : k \in 1 .. 1 + n /\ ~(k <= 1) /\ k - 1 \in 1 .. n
    BY <1>1
  <2>4. p[1] = v
    BY <2>1, <2>2, <2>3
  <2>5. \A k \in 2 .. n + 1 : p[k] = Ring(s, c, f, b)[k - 1]
    BY <2>2, <2>3
  <2>6. \A k \in 2 .. n + 1 : p[k] = s[At(c, f, k - 1)]
    BY <1>7, <2>3, <2>5
  <2>7. Len(p) = n + 1
    BY <2>2, <2>3
  <2> QED
    BY <2>2, <2>4, <2>6, <2>7
<1> HIDE DEF p
<1>9. ASSUME NEW k \in 1 .. n + 1 PROVE Ring(t, c, g, b)[k] = p[k]
  <2>1. CASE k \in 2 .. n + 1
    <3>1. At(c, g, k) = At(c, f, k - 1) /\ At(c, g, k) \in (0 .. c - 1) \ {g}
      BY <1>1, <1>2, <2>1 DEF At, Dist
    <3> QED
      BY <1>3, <1>6, <1>8, <2>1, <3>1
  <2>2. CASE k = 1
    <3>1. At(c, g, k) = g
      BY <1>1, <1>2, <2>2 DEF At, Dist
    <3> QED
      BY <1>3, <1>6, <1>8, <2>2, <3>1
  <2>3. k \in 2 .. n + 1 \/ k = 1
    BY <1>1
  <2> QED
    BY <2>1, <2>2, <2>3
<1>10. Ring(t, c, g, b) = p
  BY <1>6, <1>8, <1>9, SameSlots
<1> QED
  BY <1>3, <1>5, <1>10 DEF t, g, p

\* The first slot of a ring that is not empty, and the others.
LEMMA RingFirst ==
  ASSUME NEW c \in Nat, NEW s \in Memory(c), NEW f \in Index(c), NEW b \in Index(c), f # b
  PROVE  /\ (f + 1) % c \in Index(c)
         /\ Ring(s, c, f, b) = <<s[f]>> \o Ring(s, c, (f + 1) % c, b)
         /\ \A v \in Slot : /\ [s EXCEPT ![f] = v] \in Memory(c)
                            /\ Ring([s EXCEPT ![f] = v], c, (f + 1) % c, b)
                                 = Ring(s, c, (f + 1) % c, b)
<1> DEFINE n == Dist(c, f, b)
           g == (f + 1) % c
<1>1. /\ c # 0 /\ f \in 0 .. c - 1 /\ b \in 0 .. c - 1
      /\ n \in Nat /\ n < c
  <2>1. c # 0
    BY DEF Index
  <2>2. n \in 0 .. c - 1
    BY <2>1, RingIs
  <2> QED
    BY <2>1, <2>2 DEF Index
<1>2. g = (IF f + 1 < c THEN f + 1 ELSE 0) /\ g \in 0 .. c - 1 /\ c > 1
  <2>0. c > 1
    BY <1>1
  <2>1. g = At(c, f, 2) /\ At(c, f, 2) \in 0 .. c - 1
    <3>1. 2 \in 1 .. c /\ f + 2 - 1 = f + 1
      BY <1>1, <2>0
    <3> QED
      BY <1>1, <3>1, Remainders
  <2> QED
    BY <1>1, <2>0, <2>1 DEF At
<1> HIDE DEF g
<1>3. Dist(c, g, b) = n - 1 /\ n > 0
  BY <1>1, <1>2 DEF Dist
<1>4. g \in Index(c)
  BY <1>1, <1>2 DEF Index
<1>5. /\ Ring(s, c, g, b) \in Seq(Slot) /\ Len(Ring(s, c, g, b)) = n - 1
      /\ \A k \in 1 .. n - 1 : Ring(s, c, g, b)[k] = s[At(c, g, k)]
  BY <1>3, <1>4, RingIs
<1>6. /\ Ring(s, c, f, b) \in Seq(Slot) /\ Len(Ring(s, c, f, b)) = n
      /\ \A k \in 1 .. n : Ring(s, c, f, b)[k] = s[At(c, f, k)]
  BY RingIs
<1> DEFINE p == <<s[f]>> \o Ring(s, c, g, b)
<1>7. p \in Seq(Slot) /\ Len(p) = n /\ p[1] = s[f] /\ \A k \in 2 .. n : p[k] = s[At(c, g, k - 1)]
  <2>1. s[f] \in Slot
    BY <1>1 DEF Memory
  <2>2. <<s[f]>> \in Seq(Slot) /\ Len(<<s[f]>>) = 1 /\ <<s[f]>>[1] = s[f]
    BY <2>1
  <2>3. /\ p \in Seq(Slot) /\ Len(p) = 1 + (n - 1)
        /\ \A k \in 1 .. 1 + (n - 1) : p[k] = IF k <= 1 THEN <<s[f]>>[k] ELSE Ring(s, c, g, b)[k - 1]
    BY <1>5, <2>2, ConcatProperties
  <2> HIDE DEF n, p
  <2>4. 1 + (n - 1) = n /\ 1 \in 1 .. n
        /\ \A k \in 2 .. n : k \in 1 .. n /\ ~(k <= 1) /\ k - 1 \in 1 .. n - 1
    BY <1>1, <1>3
  <2> QED
    BY <1>5, <2>2, <2>3, <2>4
<1> HIDE DEF p
<1>8. ASSUME NEW k \in 1 .. n PROVE Ring(s, c, f, b)[k] = p[k]
  <2>1. CASE k \in 2 .. n
    <3>1. At(c, f, k) = At(c, g, k - 1)
      BY <1>1, <1>2, <2>1 DEF At, Dist
    <3> QED
      BY <1>6, <1>7, <2>1, <3>1
  <2>2. CASE k = 1
    <3>1. At(c, f, k) = f
      BY <1>1, <2>2 DEF At
    <3> QED
      BY <1>6, <1>7, <2>2, <3>1
  <2>3. k \in 2 .. n \/ k = 1
    BY <1>1
  <2> QED
    BY <2>1, <2>2, <2>3
<1>9. Ring(s, c, f, b) = p
  BY <1>6, <1>7, <1>8, SameSlots
<1>10. ASSUME NEW v \in Slot
       PROVE  /\ [s EXCEPT ![f] = v] \in Memory(c)
              /\ Ring([s EXCEPT ![f] = v], c, g, b) = Ring(s, c, g, b)
  <2> DEFINE t == [s EXCEPT ![f] = v]
  <2>1. t \in Memory(c) /\ \A i \in (0 .. c - 1) \ {f} : t[i] = s[i]
    BY <1>1 DEF Memory
  <2> HIDE DEF t
  <2>2. \A k \in 1 .. n - 1 : At(c, g, k) \in (0 .. c - 1) \ {f}
    BY <1>1, <1>2, <1>3 DEF At, Dist
  <2>3. Ring(t, c, g, b) = Ring(s, c, g, b)
    BY <1>3, <2>1, <2>2 DEF Ring
  <2> QED
    BY <2>1, <2>3 DEF t
<1> QED
  BY <1>4, <1>9, <1>10 DEF g, p

\* The last slot of a ring that is not empty, and the others.
LEMMA RingLast ==
  ASSUME NEW c \in Nat, NEW s \in Memory(c), NEW f \in Index(c), NEW b \in Index(c), f # b
  PROVE  LET g == (b - 1) % c IN
         /\ g \in Index(c)
         /\ Ring(s, c, f, b) = Append(Ring(s, c, f, g), s[g])
         /\ \A v \in Slot : /\ [s EXCEPT ![g] = v] \in Memory(c)
                            /\ Ring([s EXCEPT ![g] = v], c, f, g) = Ring(s, c, f, g)
<1> DEFINE n == Dist(c, f, b)
           g == (b - 1) % c
<1>1. /\ c # 0 /\ f \in 0 .. c - 1 /\ b \in 0 .. c - 1
      /\ n \in Nat /\ n < c
  <2>1. c # 0
    BY DEF Index
  <2>2. n \in 0 .. c - 1
    BY <2>1, RingIs
  <2> QED
    BY <2>1, <2>2 DEF Index
<1>2. g = (IF b > 0 THEN b - 1 ELSE c - 1) /\ g \in 0 .. c - 1
  <2>1. /\ \A a \in Int : 0 <= a /\ a < c => a % c = a
        /\ \A a \in Int : -c <= a /\ a < 0 => a % c = a + c
    BY <1>1
  <2>2. b - 1 \in Int /\ b - 1 < c /\ -c <= b - 1
    BY <1>1
  <2>3. CASE b > 0
    BY <1>1, <2>1, <2>2, <2>3
  <2>4. CASE ~(b > 0)
    BY <1>1, <2>1, <2>2, <2>4
  <2> QED
    BY <2>3, <2>4
<1> HIDE DEF g
<1>3. Dist(c, f, g) = n - 1 /\ n > 0
  BY <1>1, <1>2 DEF Dist
<1>4. g \in Index(c)
  BY <1>1, <1>2 DEF Index
<1>5. /\ Ring(s, c, f, g) \in Seq(Slot) /\ Len(Ring(s, c, f, g)) = n - 1
      /\ \A k \in 1 .. n - 1 : Ring(s, c, f, g)[k] = s[At(c, f, k)]
  BY <1>3, <1>4, RingIs
<1>6. /\ Ring(s, c, f, b) \in Seq(Slot) /\ Len(Ring(s, c, f, b)) = n
      /\ \A k \in 1 .. n : Ring(s, c, f, b)[k] = s[At(c, f, k)]
  BY RingIs
<1> DEFINE p == Append(Ring(s, c, f, g), s[g])
<1>7. p \in Seq(Slot) /\ Len(p) = n /\ p[n] = s[g] /\ \A k \in 1 .. n - 1 : p[k] = s[At(c, f, k)]
  <2>1. s[g] \in Slot
    BY <1>2 DEF Memory
  <2>2. /\ p \in Seq(Slot) /\ Len(p) = (n - 1) + 1 /\ p[(n - 1) + 1] = s[g]
        /\ \A k \in 1 .. n - 1 : p[k] = Ring(s, c, f, g)[k]
    BY <1>5, <2>1, AppendProperties
  <2> HIDE DEF n, p
  <2>3. (n - 1) + 1 = n
    BY <1>1
  <2> QED
    BY <1>5, <2>2, <2>3
<1> HIDE DEF p
<1>8. ASSUME NEW k \in 1 .. n PROVE Ring(s, c, f, b)[k] = p[k]
  <2>1. CASE k \in 1 .. n - 1
    BY <1>6, <1>7, <2>1
  <2>2. CASE k = n
    <3>1. At(c, f, k) = g
      BY <1>1, <1>2, <1>3, <2>2 DEF At, Dist
    <3> QED
      BY <1>6, <1>7, <2>2, <3>1
  <2>3. k \in 1 .. n - 1 \/ k = n
    BY <1>1
  <2> QED
    BY <2>1, <2>2, <2>3
<1>9. Ring(s, c, f, b) = p
  BY <1>6, <1>7, <1>8, SameSlots
<1>10. ASSUME NEW v \in Slot
       PROVE  /\ [s EXCEPT ![g] = v] \in Memory(c)
              /\ Ring([s EXCEPT ![g] = v], c, f, g) = Ring(s, c, f, g)
  <2> DEFINE t == [s EXCEPT ![g] = v]
  <2>1. t \in Memory(c) /\ \A i \in (0 .. c - 1) \ {g} : t[i] = s[i]
    BY <1>2 DEF Memory
  <2> HIDE DEF t
  <2>2. \A k \in 1 .. n - 1 : At(c, f, k) \in (0 .. c - 1) \ {g}
    BY <1>1, <1>2, <1>3 DEF At, Dist
  <2>3. Ring(t, c, f, g) = Ring(s, c, f, g)
    BY <1>3, <2>1, <2>2 DEF Ring
  <2> QED
    BY <2>1, <2>3 DEF t
<1> QED
  BY <1>4, <1>9, <1>10 DEF g, p

\* grow_if_necessary leaves room for one more value, and every value in its
\* place in the order.
LEMMA GrowthKeeps ==
  ASSUME NEW c \in Nat, slots \in Memory(c),
         front \in Index(c), back \in Index(c)
  PROVE  \E d \in Nat :
           /\ Grown.slots \in Memory(d) /\ Grown.front \in Index(d) /\ Grown.back \in Index(d)
           /\ Dist(d, Grown.front, Grown.back) + 1 < d
           /\ Ring(Grown.slots, d, Grown.front, Grown.back) = Ring(slots, c, front, back)
<1>1. /\ cap = c /\ Length = Dist(c, front, back) /\ Length \in Nat
      /\ MinCap \in Int /\ MinCap >= 2
  <2>1. cap = c
    BY CapIs DEF Memory, cap
  <2>2. Length = Dist(c, front, back)
    <3>1. CASE c = 0
      BY <2>1, <3>1 DEF Length, Between, Dist, Index
    <3>2. CASE c # 0
      BY <2>1, <3>2, Remainders DEF Length, Between, Index
    <3> QED
      BY <3>1, <3>2
  <2>3. MinCap \in Int /\ MinCap >= 2
    <3>1. \A k \in 0 .. 30 : 2 ^ k \in Int
      OBVIOUS
    <3> QED
      BY <3>1, VecDequeAssumption DEF PowersOfTwo
  <2> QED
    BY <2>1, <2>2, <2>3, RingIs
<1>2. CASE ~IsFull
  <2>1. /\ Grown.slots = slots /\ Grown.front = front /\ Grown.back = back
    BY <1>2 DEF Grown
  <2>2. Dist(c, front, back) + 1 < c
    BY <1>1, <1>2 DEF IsFull
  <2> QED
    BY <2>1, <2>2
<1>3. CASE IsFull
  <2> DEFINE d == IF 2 * cap < MinCap THEN MinCap ELSE 2 * cap
             wide == [i \in 0 .. d - 1 |-> IF i < cap THEN slots[i] ELSE Junk]
             tail == d - (cap - front)
             n == Dist(c, front, back)
  <2>1. Grown =
          (IF front <= back
           THEN [slots |-> wide, front |-> front, back |-> back]
           ELSE IF back < cap - front
           THEN [slots |-> Relocate(wide, 0, cap, back), front |-> front, back |-> back + cap]
           ELSE [slots |-> Relocate(wide, front, tail, cap - front), front |-> tail, back |-> back])
    BY <1>3, Zenon DEF Grown
  <2>2. /\ d \in Nat /\ d >= 2 * c /\ d >= 2 /\ d # 0
        /\ n \in Nat /\ (c # 0 => n < c /\ front \in 0 .. c - 1 /\ back \in 0 .. c - 1)
        /\ (c = 0 => n = 0 /\ front = 0 /\ back = 0)
        /\ front \in Nat /\ back \in Nat
    <3>1. d \in Nat /\ d >= 2 * c /\ d >= 2 /\ d # 0
      BY <1>1
    <3>2. c # 0 => n \in 0 .. c - 1
      BY RingIs
    <3> QED
      BY <1>1, <3>1, <3>2 DEF Index, Dist
  <2>3. /\ wide \in Memory(d)
        /\ \A i \in 0 .. c - 1 : wide[i] = slots[i]
    <3>1. \A i \in 0 .. d - 1 : (IF i < cap THEN slots[i] ELSE Junk) \in Slot
      BY <1>1, <2>2 DEF Memory, Slot
    <3>2. \A i \in 0 .. c - 1 : i \in 0 .. d - 1 /\ i < cap
      BY <1>1, <2>2
    <3> HIDE DEF d
    <3> QED
      BY <3>1, <3>2 DEF Memory
  <2>4. tail = d - (c - front)
    BY <1>1
  <2> HIDE DEF d, wide, tail, n
  <2>5. n + 1 < d
    BY <2>2
  <2>6. ASSUME NEW s \in Memory(d), NEW f \in 0 .. d - 1, NEW b \in 0 .. d - 1,
               Dist(d, f, b) = n, \A k \in 1 .. n : s[At(d, f, k)] = slots[At(c, front, k)],
               Grown.slots = s, Grown.front = f, Grown.back = b
        PROVE  /\ Grown.slots \in Memory(d) /\ Grown.front \in Index(d) /\ Grown.back \in Index(d)
               /\ Dist(d, Grown.front, Grown.back) + 1 < d
               /\ Ring(Grown.slots, d, Grown.front, Grown.back) = Ring(slots, c, front, back)
    <3>1. f \in Index(d) /\ b \in Index(d)
      BY <2>2 DEF Index
    <3>2. Ring(s, d, f, b) = Ring(slots, c, front, back)
      BY <2>6 DEF Ring, n
    <3> QED
      BY <2>5, <2>6, <3>1, <3>2
  <2>7. CASE front <= back
    <3>1. Grown.slots = wide /\ Grown.front = front /\ Grown.back = back
      BY <2>1, <2>7
    <3>2. front \in 0 .. d - 1 /\ back \in 0 .. d - 1 /\ Dist(d, front, back) = n
      BY <2>2, <2>7 DEF Dist, n
    <3>3. ASSUME NEW k \in 1 .. n PROVE wide[At(d, front, k)] = slots[At(c, front, k)]
      <4>1. At(d, front, k) = At(c, front, k) /\ At(c, front, k) \in 0 .. c - 1
        BY <2>2, <2>7 DEF At, Dist, n
      <4> QED
        BY <2>3, <4>1
    <3> QED
      BY <2>2, <2>3, <2>6, <3>1, <3>2, <3>3
  <2>8. CASE ~(front <= back) /\ back < c - front
    <3> DEFINE s == Relocate(wide, 0, c, back)
    <3>1. Grown.slots = s /\ Grown.front = front /\ Grown.back = back + c
      BY <1>1, <2>1, <2>8
    <3>2. /\ front \in 0 .. d - 1 /\ back + c \in 0 .. d - 1 /\ Dist(d, front, back + c) = n
          /\ n = back - front + c /\ c # 0 /\ front \in 0 .. c - 1 /\ back \in 0 .. c - 1
      BY <2>2, <2>8 DEF Dist, n
    <3>3. s \in Memory(d)
      <4>1. \A i \in c .. c + back - 1 : wide[0 + i - c] \in Slot
        <5>1. \A i \in c .. c + back - 1 : 0 + i - c \in 0 .. d - 1
          BY <2>2, <3>2
        <5> QED
          BY <2>3, <5>1 DEF Memory
      <4> QED
        BY <2>3, <4>1 DEF Memory, Relocate, Slot
    <3>4. /\ \A i \in back .. c - 1 : s[i] = slots[i]
          /\ \A i \in c .. c + back - 1 : s[i] = slots[i - c]
      <4>1. DOMAIN wide = 0 .. d - 1
        BY <2>3 DEF Memory
      <4>2. ASSUME NEW i \in back .. c - 1 PROVE s[i] = slots[i]
        <5>1. i \in 0 .. d - 1 /\ i \notin c .. c + back - 1 /\ i \notin 0 .. 0 + back - 1 /\ i \in 0 .. c - 1
          BY <2>2, <3>2
        <5> QED
          BY <2>3, <4>1, <5>1 DEF Relocate
      <4>3. ASSUME NEW i \in c .. c + back - 1 PROVE s[i] = slots[i - c]
        <5>1. i \in 0 .. d - 1 /\ 0 + i - c = i - c /\ i - c \in 0 .. c - 1
          BY <2>2, <3>2
        <5> QED
          BY <2>3, <4>1, <5>1 DEF Relocate
      <4> QED
        BY <4>2, <4>3
    <3> HIDE DEF s
    <3>5. ASSUME NEW k \in 1 .. n PROVE s[At(d, front, k)] = slots[At(c, front, k)]
      <4>1. CASE front + k - 1 < c
        <5>1. At(d, front, k) = front + k - 1 /\ At(c, front, k) = front + k - 1 /\ front + k - 1 \in back .. c - 1
          BY <2>2, <2>8, <3>2, <4>1 DEF At
        <5> QED
          BY <3>4, <5>1
      <4>2. CASE ~(front + k - 1 < c)
        <5> DEFINE j == front + k - 1
        <5>1. At(d, front, k) = j /\ At(c, front, k) = j - c /\ j \in c .. c + back - 1
          BY <2>2, <2>8, <3>2, <4>2 DEF At
        <5> HIDE DEF j
        <5> QED
          BY <3>4, <5>1, Zenon
      <4> QED
        BY <4>1, <4>2
    <3> QED
      BY <2>2, <2>6, <3>1, <3>2, <3>3, <3>5
  <2>9. CASE ~(front <= back) /\ ~(back < c - front)
    <3> DEFINE s == Relocate(wide, front, tail, c - front)
    <3>1. Grown.slots = s /\ Grown.front = tail /\ Grown.back = back
      BY <1>1, <2>1, <2>9
    <3>2. /\ tail \in 0 .. d - 1 /\ back \in 0 .. d - 1 /\ Dist(d, tail, back) = n
          /\ n = back - front + c /\ c # 0 /\ front \in 0 .. c - 1 /\ back \in 0 .. c - 1
          /\ tail \in Nat /\ tail >= c + front /\ tail + (c - front) = d
      <4>1. c # 0 /\ front \in 0 .. c - 1 /\ back \in 0 .. c - 1 /\ back < front
        BY <2>2, <2>9
      <4>2. tail \in Nat /\ tail >= c + front /\ tail + (c - front) = d /\ tail <= d - 1
        BY <2>2, <2>4, <4>1
      <4>3. n = back - front + c /\ Dist(d, tail, back) = back - tail + d
        BY <2>2, <4>1, <4>2 DEF Dist, n
      <4> QED
        BY <2>2, <4>1, <4>2, <4>3
    <3>3. s \in Memory(d)
      <4>1. \A i \in tail .. tail + (c - front) - 1 : wide[front + i - tail] \in Slot
        <5>1. \A i \in tail .. tail + (c - front) - 1 : front + i - tail \in 0 .. d - 1
          BY <2>2, <3>2
        <5> QED
          BY <2>3, <5>1 DEF Memory
      <4> QED
        BY <2>3, <4>1 DEF Memory, Relocate, Slot
    <3>4. /\ \A i \in 0 .. back - 1 : s[i] = slots[i]
          /\ \A i \in tail .. d - 1 : s[i] = slots[i - tail + front]
      <4>1. DOMAIN wide = 0 .. d - 1
        BY <2>3 DEF Memory
      <4>2. ASSUME NEW i \in 0 .. back - 1 PROVE s[i] = slots[i]
        <5>1. i \in 0 .. d - 1 /\ i \notin tail .. tail + (c - front) - 1
              /\ i \notin front .. front + (c - front) - 1 /\ i \in 0 .. c - 1
          BY <2>2, <2>9, <3>2
        <5> QED
          BY <2>3, <4>1, <5>1 DEF Relocate
      <4>3. ASSUME NEW i \in tail .. d - 1 PROVE s[i] = slots[i - tail + front]
        <5>1. i \in 0 .. d - 1 /\ i \in tail .. tail + (c - front) - 1
              /\ front + i - tail = i - tail + front /\ i - tail + front \in 0 .. c - 1
          BY <2>2, <3>2
        <5> QED
          BY <2>3, <4>1, <5>1 DEF Relocate
      <4> QED
        BY <4>2, <4>3
    <3> HIDE DEF s
    <3>5. ASSUME NEW k \in 1 .. n PROVE s[At(d, tail, k)] = slots[At(c, front, k)]
      <4>1. CASE front + k - 1 < c
        <5>1. At(d, tail, k) = tail + k - 1 /\ At(c, front, k) = front + k - 1
              /\ tail + k - 1 \in tail .. d - 1 /\ (tail + k - 1) - tail + front = front + k - 1
          BY <2>2, <3>2, <4>1 DEF At
        <5>2. s[tail + k - 1] = slots[(tail + k - 1) - tail + front]
          BY <3>4, <5>1, Zenon
        <5> QED
          BY <5>1, <5>2, Zenon
      <4>2. CASE ~(front + k - 1 < c)
        <5>1. At(d, tail, k) = tail + k - 1 - d /\ At(c, front, k) = front + k - 1 - c
              /\ tail + k - 1 - d = front + k - 1 - c /\ front + k - 1 - c \in 0 .. back - 1
          BY <2>2, <3>2, <4>2 DEF At
        <5> QED
          BY <3>4, <5>1
      <4> QED
        BY <4>1, <4>2
    <3> QED
      BY <2>2, <2>6, <3>1, <3>2, <3>3, <3>5
  <2> QED
    BY <2>2, <2>7, <2>8, <2>9
<1> QED
  BY <1>2, <1>3
-----------------------------------------------------------------------------
\* A ring is empty when its ends meet, and only then.
LEMMA RingEmpty ==
  ASSUME NEW c \in Nat, NEW s \in Memory(c), NEW f \in Index(c), NEW b \in Index(c)
  PROVE  Ring(s, c, f, b) = <<>> <=> f = b
<1>1. /\ Ring(s, c, f, b) \in Seq(Slot)
      /\ Len(Ring(s, c, f, b)) = Dist(c, f, b)
  BY RingIs
<1>2. Dist(c, f, b) = 0 <=> f = b
  BY DEF Dist, Index
<1> QED
  BY <1>1, <1>2, EmptySeq

\* The queue's segments are rings: now ...
LEMMA QueueIs ==
  ASSUME NEW c \in Nat, slots \in Memory(c)
  PROVE  /\ cap = c
         /\ \A f, b \in Index(c) : Segment(f, b) = Ring(slots, c, f, b)
<1>1. cap = c
  BY CapIs DEF cap, Memory
<1>2. \A f, b \in Index(c) : Segment(f, b) = SegmentOf(slots, f, b)
  BY DEF Segment, Between, Wrap, cap, SegmentOf
<1> QED
  BY <1>1, <1>2, SegmentIsRing

\* ... and after a step.
LEMMA QueueBecomes ==
  ASSUME NEW c \in Nat, slots' \in Memory(c), front' \in Index(c), back' \in Index(c)
  PROVE  cap' = c /\ Contents' = Ring(slots', c, front', back')
<1>1. cap' = c
  BY CapIs DEF cap, Memory
<1>2. Contents' = SegmentOf(slots', front', back')
  BY DEF Contents, Segment, Between, Wrap, cap, SegmentOf
<1> QED
  BY <1>1, <1>2, SegmentIsRing

\* A sequence of values with a first one, and with a last one.
LEMMA FirstOf ==
  ASSUME NEW x \in Slot, NEW q \in Seq(Slot), <<x>> \o q \in Seq(Value)
  PROVE  /\ x \in Value /\ q \in Seq(Value)
         /\ <<x>> \o q # <<>> /\ Head(<<x>> \o q) = x /\ Tail(<<x>> \o q) = q
<1> DEFINE p == <<x>> \o q
<1>1. <<x>> \in Seq(Slot) /\ Len(<<x>>) = 1 /\ <<x>>[1] = x
  OBVIOUS
<1>2. /\ p \in Seq(Slot) /\ Len(p) = 1 + Len(q)
      /\ \A k \in 1 .. 1 + Len(q) : p[k] = IF k <= 1 THEN <<x>>[k] ELSE q[k - 1]
  BY <1>1, ConcatProperties
<1>3. p \in Seq(Value)
  OBVIOUS
<1>4. Len(q) \in Nat
  BY LenProperties
<1> HIDE DEF p
<1>5. p # <<>>
  BY <1>2, <1>4, EmptySeq
<1>6. p[1] = x
  BY <1>1, <1>2, <1>4
<1>7. Head(p) = x /\ x \in Value
  BY <1>2, <1>3, <1>4, <1>5, <1>6, ElementOfSeq, HeadTailProperties
<1>8. /\ Tail(p) \in Seq(Value) /\ Tail(p) \in Seq(Slot) /\ Len(Tail(p)) = Len(p) - 1
      /\ \A k \in 1 .. Len(Tail(p)) : Tail(p)[k] = p[k + 1]
  BY <1>2, <1>3, <1>5, HeadTailProperties
<1>9. Len(Tail(p)) = Len(q)
  BY <1>2, <1>4, <1>8
<1>10. ASSUME NEW k \in 1 .. Len(q) PROVE Tail(p)[k] = q[k]
  <2>1. k + 1 \in 1 .. 1 + Len(q) /\ ~(k + 1 <= 1) /\ (k + 1) - 1 = k
    BY <1>4
  <2> QED
    BY <1>2, <1>8, <1>9, <2>1
<1>11. Tail(p) = q
  BY <1>8, <1>9, <1>10, SameSlots
<1> QED
  BY <1>5, <1>7, <1>8, <1>11 DEF p

\* The same for the last one.
LEMMA LastOf ==
  ASSUME NEW x \in Slot, NEW q \in Seq(Slot), Append(q, x) \in Seq(Value)
  PROVE  /\ x \in Value /\ q \in Seq(Value)
         /\ Append(q, x) # <<>>
         /\ Append(q, x)[Len(Append(q, x))] = x
         /\ SubSeq(Append(q, x), 1, Len(Append(q, x)) - 1) = q
<1> DEFINE p == Append(q, x)
<1>1. /\ p \in Seq(Slot) /\ p # <<>> /\ Len(p) = Len(q) + 1 /\ p[Len(q) + 1] = x
      /\ \A k \in 1 .. Len(q) : p[k] = q[k]
  BY AppendProperties
<1>2. p \in Seq(Value)
  OBVIOUS
<1>3. Len(q) \in Nat
  BY LenProperties
<1> HIDE DEF p
<1>4. p[Len(p)] = x /\ x \in Value
  BY <1>1, <1>2, <1>3, ElementOfSeq
<1> DEFINE r == SubSeq(p, 1, Len(p) - 1)
<1>5. /\ 1 \in 1 .. Len(p) + 1 /\ Len(p) - 1 \in (1 - 1) .. Len(p)
      /\ Len(p) - 1 = Len(q) /\ Len(q) - 1 + 1 = Len(q)
  BY <1>1, <1>3
<1>6. /\ r \in Seq(Value) /\ r \in Seq(Slot) /\ Len(r) = Len(q)
      /\ \A k \in 1 .. Len(q) : r[k] = p[k]
  <2>1. r = SubSeq(p, 1, Len(q))
    BY <1>5
  <2>2. Len(q) \in 0 .. Len(p)
    BY <1>1, <1>3
  <2> HIDE DEF r
  <2>3. \A S : p \in Seq(S) =>
          /\ r \in Seq(S) /\ Len(r) = (IF 1 <= Len(q) THEN Len(q) - 1 + 1 ELSE 0)
          /\ \A k \in 1 .. Len(q) - 1 + 1 : r[k] = p[1 + k - 1]
    BY <1>5, <2>1, SubSeqProperties
  <2>4. \A m \in Nat : (IF 1 <= m THEN m - 1 + 1 ELSE 0) = m
    OBVIOUS
  <2>5. \A k \in 1 .. Len(q) : 1 + k - 1 = k
    OBVIOUS
  <2> QED
    BY <1>1, <1>2, <1>3, <1>5, <2>3, <2>4, <2>5
<1>7. r = q
  BY <1>1, <1>6, SameSlots
<1> QED
  BY <1>1, <1>4, <1>6, <1>7 DEF p

\* with_capacity finds a capacity for every argument up to the greatest power.
LEMMA FirstCapIs ==
  ASSUME NEW n \in 0 .. 2 ^ 30
  PROVE  FirstCap(n) \in Nat /\ FirstCap(n) \in PowersOfTwo
<1> DEFINE top == 2 ^ 30
           Caps == {c \in PowersOfTwo : c >= n /\ c <= top}
           Below == {0 .. c - 1 : c \in Caps}
           Least(c) == c \in PowersOfTwo /\ c >= n /\ \A d \in PowersOfTwo : d >= n => c <= d
<1>1. top \in Nat /\ n \in Nat /\ n <= top
  BY 2 ^ 30 = 1073741824
<1>2. \A c \in PowersOfTwo : c \in Int
  <2>1. \A k \in 0 .. 30 : 2 ^ k \in Int
    OBVIOUS
  <2> QED
    BY <2>1 DEF PowersOfTwo
<1>3. top \in PowersOfTwo
  BY 30 \in 0 .. 30 DEF PowersOfTwo
<1> HIDE DEF top
<1>4. top \in Caps /\ Caps \subseteq 0 .. top
  <2>1. top \in Caps
    BY <1>1, <1>3
  <2>2. ASSUME NEW c \in Caps PROVE c \in 0 .. top
    <3>1. c \in Int /\ c >= n /\ c <= top
      BY <1>2
    <3> QED
      BY <1>1, <3>1
  <2> QED
    BY <2>1, <2>2
<1> HIDE DEF Caps
<1>5. Below \subseteq FiniteSubsetsOf(0 .. top) /\ Below # {}
  <2>1. Below \subseteq SUBSET (0 .. top)
    BY <1>1, <1>4
  <2>2. IsFiniteSet(0 .. top)
    BY <1>1, FS_Interval
  <2>3. FiniteSubsetsOf(0 .. top) = SUBSET (0 .. top)
    BY <2>2, FS_FiniteSubsetsOfFinite
  <2> QED
    BY <1>4, <2>1, <2>3
<1>6. PICK least \in Below :
        \A B \in Below : ~(<<B, least>> \in StrictSubsetOrdering(0 .. top))
  <2>1. IsWellFoundedOn(StrictSubsetOrdering(0 .. top), FiniteSubsetsOf(0 .. top))
    BY FS_StrictSubsetOrderingWellFounded
  <2> HIDE DEF Below
  <2> QED
    BY <1>5, <2>1, WFMin
<1>7. PICK c \in Caps : least = 0 .. c - 1
  BY <1>6
<1>8. ASSUME NEW d \in Caps PROVE c <= d
  <2>1. SUFFICES ASSUME d < c PROVE FALSE
    BY <1>1, <1>4
  <2>2. /\ 0 .. d - 1 \subseteq 0 .. c - 1
        /\ d \in 0 .. c - 1 /\ d \notin 0 .. d - 1
        /\ 0 .. d - 1 \in SUBSET (0 .. top) /\ 0 .. c - 1 \in SUBSET (0 .. top)
    BY <1>1, <1>4, <2>1
  <2>3. <<0 .. d - 1, 0 .. c - 1>> \in StrictSubsetOrdering(0 .. top)
    BY <2>2 DEF StrictSubsetOrdering
  <2> QED
    BY <1>6, <1>7, <2>3
<1>9. Least(c)
  <2>1. c \in PowersOfTwo /\ c >= n /\ c <= top
    BY DEF Caps
  <2>2. ASSUME NEW d \in PowersOfTwo, d >= n PROVE c <= d
    <3>1. CASE d <= top
      BY <1>8, <2>2, <3>1 DEF Caps
    <3>2. CASE ~(d <= top)
      BY <1>1, <1>2, <2>1, <3>2
    <3> QED
      BY <3>1, <3>2
  <2> QED
    BY <2>1, <2>2
<1>10. FirstCap(n) = CHOOSE d : Least(d)
  BY DEF FirstCap
<1>11. Least(FirstCap(n))
  <2> HIDE DEF Least
  <2> QED
    BY <1>9, <1>10, Zenon
<1> QED
  BY <1>1, <1>2, <1>11

\* A queue as it is made.
LEMMA InitIInv == ASSUME Init PROVE IInv /\ Contents = <<>> /\ out = <<>>
<1>1. PICK c \in Nat : slots = Fresh(c)
  <2>1. CASE slots = Fresh(0)
    BY <2>1
  <2>2. ASSUME NEW n \in FirstCaps, slots = Fresh(FirstCap(n)) PROVE \E c \in Nat : slots = Fresh(c)
    BY <2>2, FirstCapIs, VecDequeAssumption
  <2> QED
    BY <2>1, <2>2 DEF Init
<1>2. slots \in Memory(c) /\ front \in Index(c) /\ back \in Index(c) /\ front = back
  BY <1>1 DEF Init, Memory, Slot, Fresh, Index
<1>3. Contents = <<>>
  BY <1>2, QueueIs, RingEmpty DEF Contents
<1>4. Placed
  BY <1>2 DEF Placed
<1>5. out = <<>> /\ ValuesIn
  BY <1>3 DEF Init, ValuesIn
<1>6. Meeting
  BY DEF Init, Meeting, NoIter
<1> QED
  BY <1>3, <1>4, <1>5, <1>6 DEF IInv

\* Without an iteration there is nothing to keep of it.
LEMMA NoMeeting ==
  ASSUME Meeting, ~it.on, UNCHANGED it
  PROVE  Meeting'
<1>1. it' \in [on : BOOLEAN, front : Nat, back : Nat]
  BY DEF Meeting
<1>2. ~it'.on
  BY Zenon
<1> QED
  BY <1>1, <1>2 DEF Meeting

\* push_back: growth, and one more slot behind.
LEMMA PushBackStep ==
  ASSUME IInv, PushBack
  PROVE  IInv' /\ D!PushBack
<1>1. PICK c \in Nat : slots \in Memory(c) /\ front \in Index(c) /\ back \in Index(c)
  BY DEF IInv, Placed
<1>2. PICK d \in Nat :
           /\ Grown.slots \in Memory(d) /\ Grown.front \in Index(d) /\ Grown.back \in Index(d)
           /\ Dist(d, Grown.front, Grown.back) + 1 < d
           /\ Ring(Grown.slots, d, Grown.front, Grown.back) = Ring(slots, c, front, back)
  BY <1>1, GrowthKeeps
<1>3. PICK v \in Value :
           /\ slots' = [Grown.slots EXCEPT ![Grown.back] = v]
           /\ front' = Grown.front
           /\ back' = (Grown.back + 1) % CapOf(Grown.slots)
  BY Zenon DEF PushBack
<1>4. CapOf(Grown.slots) = d
  BY <1>2, CapIs DEF Memory
<1>5. v \in Slot
  BY DEF Slot
<1>6. /\ slots' \in Memory(d) /\ front' \in Index(d) /\ back' \in Index(d)
      /\ Ring(slots', d, front', back') = Append(Ring(slots, c, front, back), v)
  <2>1. ASSUME NEW s \in Memory(d), NEW f \in Index(d), NEW b \in Index(d),
               Dist(d, f, b) + 1 < d, slots' = [s EXCEPT ![b] = v], front' = f, back' = (b + 1) % d
        PROVE  /\ slots' \in Memory(d) /\ front' \in Index(d) /\ back' \in Index(d)
               /\ Ring(slots', d, front', back') = Append(Ring(s, d, f, b), v)
    BY <1>5, <2>1, RingAppends
  <2>2. /\ slots' = [Grown.slots EXCEPT ![Grown.back] = v] /\ front' = Grown.front
        /\ back' = (Grown.back + 1) % d
    BY <1>3, <1>4
  <2> QED
    BY <1>2, <2>1, <2>2, Zenon
<1>7. Contents' = Append(Contents, v)
  BY <1>1, <1>6, QueueIs, QueueBecomes DEF Contents
<1>8. Placed'
  BY <1>6 DEF Placed
<1>9. out' = <<>>
  BY DEF PushBack
<1>10. ValuesIn'
  <2>1. Contents' \in Seq(Value)
    BY <1>7, AppendProperties DEF IInv, ValuesIn
  <2> QED
    BY <1>9, <2>1 DEF ValuesIn
<1>11. Meeting'
  <2>1. Meeting /\ ~it.on /\ UNCHANGED it
    BY DEF IInv, PushBack, iteration
  <2> QED
    BY <2>1, NoMeeting
<1>12. D!PushBack
  BY <1>7, <1>9 DEF D!PushBack
<1> QED
  BY <1>8, <1>10, <1>11, <1>12 DEF IInv

\* push_front: growth, and one more slot in front.
LEMMA PushFrontStep ==
  ASSUME IInv, PushFront
  PROVE  IInv' /\ D!PushFront
<1>1. PICK c \in Nat : slots \in Memory(c) /\ front \in Index(c) /\ back \in Index(c)
  BY DEF IInv, Placed
<1>2. PICK d \in Nat :
           /\ Grown.slots \in Memory(d) /\ Grown.front \in Index(d) /\ Grown.back \in Index(d)
           /\ Dist(d, Grown.front, Grown.back) + 1 < d
           /\ Ring(Grown.slots, d, Grown.front, Grown.back) = Ring(slots, c, front, back)
  BY <1>1, GrowthKeeps
<1>3. CapOf(Grown.slots) = d
  BY <1>2, CapIs DEF Memory
<1> DEFINE f == (Grown.front - 1) % d
<1>4. PICK v \in Value :
           slots' = [Grown.slots EXCEPT ![f] = v] /\ front' = f /\ back' = Grown.back
  BY <1>3, Zenon DEF PushFront
<1>5. v \in Slot
  BY DEF Slot
<1>6. /\ slots' \in Memory(d) /\ front' \in Index(d) /\ back' \in Index(d)
      /\ Ring(slots', d, front', back') = <<v>> \o Ring(slots, c, front, back)
  <2>1. ASSUME NEW s \in Memory(d), NEW e \in Index(d), NEW b \in Index(d),
               Dist(d, e, b) + 1 < d, slots' = [s EXCEPT ![(e - 1) % d] = v],
               front' = (e - 1) % d, back' = b
        PROVE  /\ slots' \in Memory(d) /\ front' \in Index(d) /\ back' \in Index(d)
               /\ Ring(slots', d, front', back') = <<v>> \o Ring(s, d, e, b)
    BY <1>5, <2>1, RingPrepends
  <2> QED
    BY <1>2, <1>4, <2>1
<1>7. Contents' = <<v>> \o Contents
  BY <1>1, <1>6, QueueIs, QueueBecomes DEF Contents
<1>8. Placed'
  BY <1>6 DEF Placed
<1>9. out' = <<>>
  BY DEF PushFront
<1>10. ValuesIn'
  <2>1. <<v>> \in Seq(Value) /\ Contents \in Seq(Value)
    BY DEF IInv, ValuesIn
  <2>2. Contents' \in Seq(Value)
    BY <1>7, <2>1, ConcatProperties
  <2> QED
    BY <1>9, <2>2 DEF ValuesIn
<1>11. Meeting'
  <2>1. Meeting /\ ~it.on /\ UNCHANGED it
    BY DEF IInv, PushFront, iteration
  <2> QED
    BY <2>1, NoMeeting
<1>12. D!PushFront
  BY <1>7, <1>9 DEF D!PushFront
<1> QED
  BY <1>8, <1>10, <1>11, <1>12 DEF IInv

\* pop_front of a queue that holds a value.
LEMMA PopFrontStep ==
  ASSUME IInv, PopFront
  PROVE  IInv' /\ D!PopFront
<1>1. PICK c \in Nat : slots \in Memory(c) /\ front \in Index(c) /\ back \in Index(c)
  BY DEF IInv, Placed
<1>2. /\ front # back /\ front' = (front + 1) % c /\ back' = back
      /\ slots' = [slots EXCEPT ![front] = Junk] /\ out' = <<slots[front]>>
  BY <1>1, QueueIs DEF PopFront, Wrap
<1> DEFINE x == slots[front]
           q == Ring(slots, c, (front + 1) % c, back)
<1>3. /\ slots' \in Memory(c) /\ front' \in Index(c) /\ back' \in Index(c)
      /\ Ring(slots, c, front, back) = <<x>> \o q
      /\ Ring(slots', c, front', back') = q
  <2>1. Junk \in Slot
    BY DEF Slot
  <2> QED
    BY <1>1, <1>2, <2>1, RingFirst
<1>4. x \in Slot /\ q \in Seq(Slot)
  <2>1. front \in 0 .. c - 1
    BY <1>1, <1>2 DEF Index
  <2>2. x \in Slot
    BY <1>1, <2>1 DEF Memory
  <2> QED
    BY <1>1, <1>2, <1>3, <2>2, RingIs
<1> HIDE DEF x, q
<1>5. Contents = <<x>> \o q /\ Contents' = q
  BY <1>1, <1>3, QueueIs, QueueBecomes DEF Contents
<1>6. /\ x \in Value /\ q \in Seq(Value)
      /\ Contents # <<>> /\ Head(Contents) = x /\ Tail(Contents) = q
  <2>1. <<x>> \o q \in Seq(Value)
    BY <1>5 DEF IInv, ValuesIn
  <2> QED
    BY <1>4, <1>5, <2>1, FirstOf
<1>7. out' = <<x>>
  BY <1>2 DEF x
<1>8. Placed'
  BY <1>3 DEF Placed
<1>9. ValuesIn'
  BY <1>5, <1>6, <1>7 DEF ValuesIn
<1>10. Meeting'
  <2>1. Meeting /\ ~it.on /\ UNCHANGED it
    BY DEF IInv, PopFront, iteration
  <2> QED
    BY <2>1, NoMeeting
<1>11. D!PopFront
  BY <1>5, <1>6, <1>7 DEF D!PopFront
<1> QED
  BY <1>8, <1>9, <1>10, <1>11 DEF IInv

\* pop_back of a queue that holds a value.
LEMMA PopBackStep ==
  ASSUME IInv, PopBack
  PROVE  IInv' /\ D!PopBack
<1>1. PICK c \in Nat : slots \in Memory(c) /\ front \in Index(c) /\ back \in Index(c)
  BY DEF IInv, Placed
<1> DEFINE g == (back - 1) % c
<1>2. /\ front # back /\ back' = g /\ front' = front
      /\ slots' = [slots EXCEPT ![g] = Junk] /\ out' = <<slots[g]>>
  BY <1>1, QueueIs DEF PopBack, Wrap
<1> DEFINE x == slots[g]
           q == Ring(slots, c, front, g)
<1>3. /\ slots' \in Memory(c) /\ front' \in Index(c) /\ back' \in Index(c) /\ g \in Index(c)
      /\ Ring(slots, c, front, back) = Append(q, x)
      /\ Ring(slots', c, front', back') = q
  <2>1. Junk \in Slot
    BY DEF Slot
  <2> QED
    BY <1>1, <1>2, <2>1, RingLast
<1>4. x \in Slot /\ q \in Seq(Slot)
  <2>1. g \in 0 .. c - 1
    BY <1>1, <1>2, <1>3 DEF Index
  <2>2. x \in Slot
    BY <1>1, <2>1 DEF Memory
  <2> QED
    BY <1>1, <1>3, <2>2, RingIs
<1> HIDE DEF x, q
<1>5. Contents = Append(q, x) /\ Contents' = q
  BY <1>1, <1>3, QueueIs, QueueBecomes DEF Contents
<1>6. /\ x \in Value /\ q \in Seq(Value)
      /\ Contents # <<>> /\ Contents[Len(Contents)] = x
      /\ SubSeq(Contents, 1, Len(Contents) - 1) = q
  <2>1. Append(q, x) \in Seq(Value)
    BY <1>5 DEF IInv, ValuesIn
  <2> QED
    BY <1>4, <1>5, <2>1, LastOf
<1>7. out' = <<x>>
  BY <1>2 DEF x
<1>8. Placed'
  BY <1>3 DEF Placed
<1>9. ValuesIn'
  BY <1>5, <1>6, <1>7 DEF ValuesIn
<1>10. Meeting'
  <2>1. Meeting /\ ~it.on /\ UNCHANGED it
    BY DEF IInv, PopBack, iteration
  <2> QED
    BY <2>1, NoMeeting
<1>11. D!PopBack
  BY <1>5, <1>6, <1>7 DEF D!PopBack
<1> QED
  BY <1>8, <1>9, <1>10, <1>11 DEF IInv

\* Either of them of an empty queue.
LEMMA PopEmptyStep ==
  ASSUME IInv, PopEmpty
  PROVE  IInv' /\ D!PopEmpty
<1>1. PICK c \in Nat : slots \in Memory(c) /\ front \in Index(c) /\ back \in Index(c)
  BY DEF IInv, Placed
<1>2. front = back /\ out' = <<>> /\ UNCHANGED <<slots, front, back>>
  BY DEF PopEmpty, queue
<1>3. slots' \in Memory(c) /\ front' \in Index(c) /\ back' \in Index(c)
  BY <1>1, <1>2
<1>4. Contents = <<>> /\ Contents' = <<>>
  BY <1>1, <1>2, <1>3, QueueIs, QueueBecomes, RingEmpty DEF Contents
<1>5. Placed'
  BY <1>3 DEF Placed
<1>6. ValuesIn'
  BY <1>2, <1>4 DEF ValuesIn
<1>7. Meeting'
  <2>1. Meeting /\ ~it.on /\ UNCHANGED it
    BY DEF IInv, PopEmpty, iteration
  <2> QED
    BY <2>1, NoMeeting
<1>8. D!PopEmpty
  BY <1>2, <1>4 DEF D!PopEmpty
<1> QED
  BY <1>5, <1>6, <1>7, <1>8 DEF IInv

\* clear takes every value out, in order.
LEMMA ClearStep ==
  ASSUME IInv, Clear
  PROVE  IInv' /\ D!Clear
<1>1. PICK c \in Nat : slots \in Memory(c) /\ front \in Index(c) /\ back \in Index(c)
  BY DEF IInv, Placed
<1>2. out' = Contents /\ slots' = Fresh(c) /\ front' = 0 /\ back' = 0
  BY <1>1, QueueIs DEF Clear, Contents
<1>3. slots' \in Memory(c) /\ front' \in Index(c) /\ back' \in Index(c)
  BY <1>2 DEF Fresh, Memory, Slot, Index
<1>4. Contents' = <<>>
  BY <1>2, <1>3, QueueBecomes, RingEmpty
<1>5. Placed'
  BY <1>3 DEF Placed
<1>6. ValuesIn'
  BY <1>2, <1>4 DEF IInv, ValuesIn
<1>7. Meeting'
  <2>1. Meeting /\ ~it.on /\ UNCHANGED it
    BY DEF IInv, Clear, iteration
  <2> QED
    BY <2>1, NoMeeting
<1>8. D!Clear
  BY <1>2, <1>4 DEF D!Clear
<1> QED
  BY <1>5, <1>6, <1>7, <1>8 DEF IInv

\* A step that leaves the queue alone.
LEMMA QueueStays ==
  ASSUME UNCHANGED <<queue, out>>
  PROVE  /\ Contents' = Contents /\ cap' = cap /\ Placed' = Placed /\ ValuesIn' = ValuesIn
         /\ \A f, b : Segment(f, b)' = Segment(f, b)
<1>1. slots' = slots /\ front' = front /\ back' = back /\ out' = out
  BY DEF queue
<1> QED
  BY <1>1 DEF Contents, Segment, Between, Wrap, cap, Placed, ValuesIn

\* An iteration has everything ahead of it.
LEMMA IterBeginStep ==
  ASSUME IInv, IterBegin
  PROVE  IInv' /\ UNCHANGED <<Contents, out>>
<1>1. /\ UNCHANGED <<queue, out>> /\ ahead' = <<>> /\ behind' = <<>>
      /\ it' = [on |-> TRUE, front |-> front, back |-> back]
  BY DEF IterBegin
<1>2. PICK c \in Nat : slots \in Memory(c) /\ front \in Index(c) /\ back \in Index(c)
  BY DEF IInv, Placed
<1>3. cap = c /\ Contents \in Seq(Slot)
  BY <1>2, QueueIs, RingIs DEF Contents
<1>4. it' \in [on : BOOLEAN, front : Nat, back : Nat] /\ {it'.front, it'.back} \subseteq Index(cap')
  BY <1>1, <1>2, <1>3, QueueStays DEF Index
<1>5. ahead' \in Seq(Slot) /\ behind' \in Seq(Slot)
  BY <1>1
<1>6. IterMeetsOnce'
  <2>1. Segment(it.front, it.back)' = Contents
    <3>1. it'.front = front /\ it'.back = back /\ slots' = slots
      BY <1>1 DEF queue
    <3> QED
      BY <3>1 DEF Contents, Segment, Between, Wrap, cap
  <2>2. Contents' = Contents
    BY <1>1, QueueStays
  <2>3. <<>> \o Contents \o <<>> = Contents
    BY <1>3, ConcatEmptySeq
  <2> QED
    BY <1>1, <2>1, <2>2, <2>3 DEF IterMeetsOnce
<1>7. Meeting'
  BY <1>4, <1>5, <1>6 DEF Meeting
<1> QED
  BY <1>1, <1>7, QueueStays DEF IInv

\* What an iteration has ahead of it is a ring, too.
LEMMA IterIs ==
  ASSUME IInv, it.on
  PROVE  \E c \in Nat :
           /\ cap = c /\ slots \in Memory(c) /\ it.front \in Index(c) /\ it.back \in Index(c)
           /\ \A f, b \in Index(c) : Segment(f, b) = Ring(slots, c, f, b)
<1>1. PICK c \in Nat : slots \in Memory(c) /\ front \in Index(c) /\ back \in Index(c)
  BY DEF IInv, Placed
<1>2. cap = c /\ \A f, b \in Index(c) : Segment(f, b) = Ring(slots, c, f, b)
  BY <1>1, QueueIs
<1>3. {it.front, it.back} \subseteq Index(cap)
  BY DEF IInv, Meeting
<1> QED
  BY <1>1, <1>2, <1>3

\* next() moves one value from the ring to the end of what is passed in front.
LEMMA IterNextStep ==
  ASSUME IInv, IterNext
  PROVE  IInv' /\ UNCHANGED <<Contents, out>>
<1>1. /\ UNCHANGED <<queue, out>> /\ it.on /\ it.front # it.back
      /\ ahead' = Append(ahead, slots[it.front]) /\ behind' = behind
      /\ it' = [it EXCEPT !.front = Wrap(@ + 1)]
  BY DEF IterNext
<1>2. PICK c \in Nat :
           /\ cap = c /\ slots \in Memory(c) /\ it.front \in Index(c) /\ it.back \in Index(c)
           /\ \A f, b \in Index(c) : Segment(f, b) = Ring(slots, c, f, b)
  BY <1>1, IterIs
<1>3. /\ it \in [on : BOOLEAN, front : Nat, back : Nat]
      /\ ahead \in Seq(Slot) /\ behind \in Seq(Slot)
      /\ ahead \o Segment(it.front, it.back) \o behind = Contents
  BY <1>1 DEF IInv, Meeting, IterMeetsOnce
<1> DEFINE g == (it.front + 1) % c
           x == slots[it.front]
           q == Ring(slots, c, g, it.back)
<1>4. g \in Index(c) /\ Segment(it.front, it.back) = <<x>> \o q /\ Segment(g, it.back) = q
  BY <1>1, <1>2, RingFirst
<1>5. x \in Slot /\ q \in Seq(Slot)
  <2>1. it.front \in 0 .. c - 1
    BY <1>1, <1>2 DEF Index
  <2>2. x \in Slot
    BY <1>2, <2>1 DEF Memory
  <2> QED
    BY <1>2, <1>4, <2>2, RingIs
<1>6. it' = [it EXCEPT !.front = g] /\ g \in Nat
  BY <1>1, <1>2, <1>4 DEF Wrap, Index
<1>7. /\ it' \in [on : BOOLEAN, front : Nat, back : Nat]
      /\ it'.front = g /\ it'.back = it.back
  BY <1>3, <1>6
<1> HIDE DEF x, q, g
<1>8. ahead' = ahead \o <<x>> /\ ahead' \in Seq(Slot) /\ behind' \in Seq(Slot)
  BY <1>1, <1>3, <1>5, AppendIsConcat, AppendProperties DEF x
<1>9. IterMeetsOnce'
  <2>1. Segment(it.front, it.back)' = q
    <3>1. Segment(it.front, it.back)' = Segment(g, it.back)
      <4>1. slots' = slots
        BY <1>1 DEF queue
      <4> QED
        BY <1>7, <4>1 DEF Segment, Between, Wrap, cap
    <3> QED
      BY <1>4, <3>1
  <2>2. Contents' = Contents
    BY <1>1, QueueStays
  <2>3. (ahead \o <<x>>) \o q = ahead \o (<<x>> \o q)
    <3>1. <<x>> \in Seq(Slot)
      BY <1>5
    <3> QED
      BY <1>3, <1>5, <3>1, ConcatAssociative
  <2> QED
    BY <1>1, <1>3, <1>4, <1>8, <2>1, <2>2, <2>3, Zenon DEF IterMeetsOnce
<1>10. Meeting'
  <2>1. {it'.front, it'.back} \subseteq Index(cap')
    BY <1>1, <1>2, <1>4, <1>7, QueueStays
  <2> QED
    BY <1>7, <1>8, <1>9, <2>1 DEF Meeting
<1> QED
  BY <1>1, <1>10, QueueStays DEF IInv

\* next_back() moves one to the beginning of what is passed behind.
LEMMA IterNextBackStep ==
  ASSUME IInv, IterNextBack
  PROVE  IInv' /\ UNCHANGED <<Contents, out>>
<1>1. /\ UNCHANGED <<queue, out>> /\ it.on /\ it.front # it.back
      /\ behind' = <<slots[Wrap(it.back - 1)]>> \o behind /\ ahead' = ahead
      /\ it' = [it EXCEPT !.back = Wrap(@ - 1)]
  BY DEF IterNextBack
<1>2. PICK c \in Nat :
           /\ cap = c /\ slots \in Memory(c) /\ it.front \in Index(c) /\ it.back \in Index(c)
           /\ \A f, b \in Index(c) : Segment(f, b) = Ring(slots, c, f, b)
  BY <1>1, IterIs
<1>3. /\ it \in [on : BOOLEAN, front : Nat, back : Nat]
      /\ ahead \in Seq(Slot) /\ behind \in Seq(Slot)
      /\ ahead \o Segment(it.front, it.back) \o behind = Contents
  BY <1>1 DEF IInv, Meeting, IterMeetsOnce
<1> DEFINE g == (it.back - 1) % c
           x == slots[g]
           q == Ring(slots, c, it.front, g)
<1>4. g \in Index(c) /\ Segment(it.front, it.back) = Append(q, x) /\ Segment(it.front, g) = q
  BY <1>1, <1>2, RingLast
<1>5. x \in Slot /\ q \in Seq(Slot)
  <2>1. g \in 0 .. c - 1
    BY <1>1, <1>2, <1>4 DEF Index
  <2>2. x \in Slot
    BY <1>2, <2>1 DEF Memory
  <2> QED
    BY <1>2, <1>4, <2>2, RingIs
<1>6. it' = [it EXCEPT !.back = g] /\ g \in Nat
  BY <1>1, <1>2, <1>4 DEF Wrap, Index
<1>7. /\ it' \in [on : BOOLEAN, front : Nat, back : Nat]
      /\ it'.front = it.front /\ it'.back = g
  BY <1>3, <1>6
<1>8. behind' = <<x>> \o behind
  BY <1>1, <1>2 DEF Wrap
<1> HIDE DEF x, q, g
<1>9. <<x>> \in Seq(Slot) /\ behind' \in Seq(Slot) /\ ahead' \in Seq(Slot)
  <2>1. <<x>> \in Seq(Slot)
    BY <1>5
  <2> QED
    BY <1>1, <1>3, <1>8, <2>1, ConcatProperties
<1>10. IterMeetsOnce'
  <2>1. Segment(it.front, it.back)' = q
    <3>1. Segment(it.front, it.back)' = Segment(it.front, g)
      <4>1. slots' = slots
        BY <1>1 DEF queue
      <4> QED
        BY <1>7, <4>1 DEF Segment, Between, Wrap, cap
    <3> QED
      BY <1>4, <3>1
  <2>2. Contents' = Contents
    BY <1>1, QueueStays
  <2>3. Segment(it.front, it.back) = q \o <<x>>
    BY <1>4, <1>5, AppendIsConcat
  <2>4. ahead \o q \o (<<x>> \o behind) = ahead \o (q \o <<x>>) \o behind
    <3>1. ahead \o (q \o <<x>>) = (ahead \o q) \o <<x>>
      BY <1>3, <1>5, <1>9, ConcatAssociative
    <3>2. ahead \o q \in Seq(Slot)
      BY <1>3, <1>5, ConcatProperties
    <3>3. ((ahead \o q) \o <<x>>) \o behind = (ahead \o q) \o (<<x>> \o behind)
      BY <1>3, <1>9, <3>2, ConcatAssociative
    <3> QED
      BY <3>1, <3>3, Zenon
  <2> QED
    BY <1>1, <1>3, <1>8, <2>1, <2>2, <2>3, <2>4, Zenon DEF IterMeetsOnce
<1>11. Meeting'
  <2>1. {it'.front, it'.back} \subseteq Index(cap')
    BY <1>1, <1>2, <1>4, <1>7, QueueStays
  <2> QED
    BY <1>7, <1>9, <1>10, <2>1 DEF Meeting
<1> QED
  BY <1>1, <1>11, QueueStays DEF IInv

\* An iteration that ends takes nothing with it.
LEMMA IterEndStep ==
  ASSUME IInv, IterEnd
  PROVE  IInv' /\ UNCHANGED <<Contents, out>>
<1>1. UNCHANGED <<queue, out>> /\ it' = NoIter
  BY DEF IterEnd
<1>2. Meeting'
  BY <1>1 DEF Meeting, NoIter
<1> QED
  BY <1>1, <1>2, QueueStays DEF IInv

\* A step that changes nothing.
LEMMA NothingStep ==
  ASSUME IInv, UNCHANGED vars
  PROVE  IInv' /\ UNCHANGED <<Contents, out>>
<1>1. UNCHANGED <<queue, out>> /\ it' = it /\ ahead' = ahead /\ behind' = behind
  BY DEF vars, iteration
<1>2. Segment(it.front, it.back)' = Segment(it.front, it.back)
  BY <1>1 DEF Segment, Between, Wrap, cap, queue
<1>3. Meeting' = Meeting
  BY <1>1, <1>2, QueueStays DEF Meeting, IterMeetsOnce
<1> QED
  BY <1>1, <1>3, QueueStays DEF IInv
-----------------------------------------------------------------------------
\* Every step keeps the invariant, and is a step of a double-ended queue or
\* shows nothing of it.
LEMMA NextSteps ==
  ASSUME IInv, [Next]_vars
  PROVE  IInv' /\ [D!Next]_<<Contents, out>>
<1>1. CASE PushBack
  BY <1>1, PushBackStep DEF D!Next
<1>2. CASE PushFront
  BY <1>2, PushFrontStep DEF D!Next
<1>3. CASE PopFront
  BY <1>3, PopFrontStep DEF D!Next
<1>4. CASE PopBack
  BY <1>4, PopBackStep DEF D!Next
<1>5. CASE PopEmpty
  BY <1>5, PopEmptyStep DEF D!Next
<1>6. CASE Clear
  BY <1>6, ClearStep DEF D!Next
<1>7. CASE IterBegin
  BY <1>7, IterBeginStep
<1>8. CASE IterNext
  BY <1>8, IterNextStep
<1>9. CASE IterNextBack
  BY <1>9, IterNextBackStep
<1>10. CASE IterEnd
  BY <1>10, IterEndStep
<1>11. CASE UNCHANGED vars
  BY <1>11, NothingStep
<1> QED
  BY <1>1, <1>2, <1>3, <1>4, <1>5, <1>6, <1>7, <1>8, <1>9, <1>10, <1>11, Zenon DEF Next

\* The inductive invariant: the queue lies in its memory, what it holds and
\* what has left it are values, and an iteration has met what it has passed.
THEOREM VecDequeInvariant == Spec => []IInv
<1>1. Init => IInv
  BY InitIInv
<1>2. IInv /\ [Next]_vars => IInv'
  BY NextSteps
<1> QED
  BY <1>1, <1>2, PTL DEF Spec

\* IterMeetsOnce, for every capacity: next() and next_back(), in any order,
\* return every value once, and meet where they must.
THEOREM VecDequeIterMeetsOnce == Spec => []IterMeetsOnce
<1>1. IInv => IterMeetsOnce
  BY DEF IInv, Meeting, IterMeetsOnce
<1> QED
  BY <1>1, VecDequeInvariant, PTL

\* ImplementsDeque, for every capacity: pushes, pops, clear, and the growth
\* in the middle of a push are those of a double-ended queue.
THEOREM VecDequeImplementsDeque == Spec => ImplementsDeque
<1>1. Init => D!Init
  BY InitIInv DEF D!Init
<1>2. IInv /\ [Next]_vars => [D!Next]_<<Contents, out>>
  BY NextSteps
<1> QED
  BY <1>1, <1>2, VecDequeInvariant, PTL DEF Spec, ImplementsDeque, D!Spec
-----------------------------------------------------------------------------
\* Twice a power of two is the next one.  (The provers know the powers of
\* numbers only.)
LEMMA Doubling ==
  ASSUME NEW c \in PowersOfTwo, c < 2 ^ 30
  PROVE  2 * c \in PowersOfTwo
<1>1. ASSUME NEW k \in 0 .. 29 PROVE 2 * 2 ^ k = 2 ^ (k + 1)
  <2>1. CASE k \in 0 .. 5
    <3>1. k = 0 \/ k = 1 \/ k = 2 \/ k = 3 \/ k = 4 \/ k = 5
      BY <2>1
    <3>2. /\ 2 * 2 ^ 0 = 2 ^ (0 + 1) /\ 2 * 2 ^ 1 = 2 ^ (1 + 1) /\ 2 * 2 ^ 2 = 2 ^ (2 + 1)
          /\ 2 * 2 ^ 3 = 2 ^ (3 + 1) /\ 2 * 2 ^ 4 = 2 ^ (4 + 1) /\ 2 * 2 ^ 5 = 2 ^ (5 + 1)
      OBVIOUS
    <3> QED
      BY <3>1, <3>2, Zenon
  <2>2. CASE k \in 6 .. 11
    <3>1. k = 6 \/ k = 7 \/ k = 8 \/ k = 9 \/ k = 10 \/ k = 11
      BY <2>2
    <3>2. /\ 2 * 2 ^ 6 = 2 ^ (6 + 1) /\ 2 * 2 ^ 7 = 2 ^ (7 + 1) /\ 2 * 2 ^ 8 = 2 ^ (8 + 1)
          /\ 2 * 2 ^ 9 = 2 ^ (9 + 1) /\ 2 * 2 ^ 10 = 2 ^ (10 + 1) /\ 2 * 2 ^ 11 = 2 ^ (11 + 1)
      OBVIOUS
    <3> QED
      BY <3>1, <3>2, Zenon
  <2>3. CASE k \in 12 .. 17
    <3>1. k = 12 \/ k = 13 \/ k = 14 \/ k = 15 \/ k = 16 \/ k = 17
      BY <2>3
    <3>2. /\ 2 * 2 ^ 12 = 2 ^ (12 + 1) /\ 2 * 2 ^ 13 = 2 ^ (13 + 1) /\ 2 * 2 ^ 14 = 2 ^ (14 + 1)
          /\ 2 * 2 ^ 15 = 2 ^ (15 + 1) /\ 2 * 2 ^ 16 = 2 ^ (16 + 1) /\ 2 * 2 ^ 17 = 2 ^ (17 + 1)
      OBVIOUS
    <3> QED
      BY <3>1, <3>2, Zenon
  <2>4. CASE k \in 18 .. 23
    <3>1. k = 18 \/ k = 19 \/ k = 20 \/ k = 21 \/ k = 22 \/ k = 23
      BY <2>4
    <3>2. /\ 2 * 2 ^ 18 = 2 ^ (18 + 1) /\ 2 * 2 ^ 19 = 2 ^ (19 + 1) /\ 2 * 2 ^ 20 = 2 ^ (20 + 1)
          /\ 2 * 2 ^ 21 = 2 ^ (21 + 1) /\ 2 * 2 ^ 22 = 2 ^ (22 + 1) /\ 2 * 2 ^ 23 = 2 ^ (23 + 1)
      OBVIOUS
    <3> QED
      BY <3>1, <3>2, Zenon
  <2>5. CASE k \in 24 .. 29
    <3>1. k = 24 \/ k = 25 \/ k = 26 \/ k = 27 \/ k = 28 \/ k = 29
      BY <2>5
    <3>2. /\ 2 * 2 ^ 24 = 2 ^ (24 + 1) /\ 2 * 2 ^ 25 = 2 ^ (25 + 1) /\ 2 * 2 ^ 26 = 2 ^ (26 + 1)
          /\ 2 * 2 ^ 27 = 2 ^ (27 + 1) /\ 2 * 2 ^ 28 = 2 ^ (28 + 1) /\ 2 * 2 ^ 29 = 2 ^ (29 + 1)
      OBVIOUS
    <3> QED
      BY <3>1, <3>2, Zenon
  <2>6. k \in 0 .. 5 \/ k \in 6 .. 11 \/ k \in 12 .. 17 \/ k \in 18 .. 23 \/ k \in 24 .. 29
    OBVIOUS
  <2> QED
    BY <2>1, <2>2, <2>3, <2>4, <2>5, <2>6
<1>2. PICK k \in 0 .. 30 : c = 2 ^ k
  BY DEF PowersOfTwo
<1>3. k # 30
  <2>1. c \in Int /\ c # 2 ^ 30
    <3>1. \A j \in 0 .. 30 : 2 ^ j \in Int
      OBVIOUS
    <3> QED
      BY <1>2, <3>1
  <2> QED
    BY <1>2, <2>1, Zenon
<1>4. k \in 0 .. 29 /\ k + 1 \in 0 .. 30
  BY <1>3
<1>5. 2 * c = 2 ^ (k + 1)
  BY <1>1, <1>2, <1>4
<1> QED
  BY <1>4, <1>5 DEF PowersOfTwo

Capacity == cap = 0 \/ cap \in PowersOfTwo

\* What grow_if_necessary asks for is a power of two, if there is one.
LEMMA GrownCapacity ==
  ASSUME MaxLen < 2 ^ 30, IInv, Capacity, Length < MaxLen
  PROVE  CapOf(Grown.slots) = 0 \/ CapOf(Grown.slots) \in PowersOfTwo
<1>1. PICK c \in Nat : slots \in Memory(c) /\ front \in Index(c) /\ back \in Index(c)
  BY DEF IInv, Placed
<1>2. cap = c /\ Length \in Nat
  <2>1. cap = c
    BY <1>1, QueueIs
  <2>2. CASE c = 0
    BY <2>1, <2>2 DEF Length, Between
  <2>3. CASE c # 0
    BY <1>1, <2>1, <2>3, Remainders DEF Length, Between, Index
  <2> QED
    BY <2>1, <2>2, <2>3
<1>3. CASE ~IsFull
  <2>1. Grown.slots = slots
    BY <1>3 DEF Grown
  <2> QED
    BY <2>1 DEF Capacity, cap
<1>4. CASE IsFull
  <2> DEFINE d == IF 2 * cap < MinCap THEN MinCap ELSE 2 * cap
             wide == [i \in 0 .. d - 1 |-> IF i < cap THEN slots[i] ELSE Junk]
  <2>1. /\ MinCap \in Int /\ MinCap >= 2 /\ MinCap \in PowersOfTwo
        /\ MaxLen \in Nat
    <3>1. \A k \in 0 .. 30 : 2 ^ k \in Int
      OBVIOUS
    <3> QED
      BY <3>1, VecDequeAssumption DEF PowersOfTwo
  <2>2. d \in PowersOfTwo /\ d \in Nat
    <3>1. CASE 2 * cap < MinCap
      BY <2>1, <3>1
    <3>2. CASE ~(2 * cap < MinCap)
      <4>1. cap < 2 ^ 30
        BY <1>2, <1>4, <2>1 DEF IsFull
      <4>2. cap \in PowersOfTwo
        BY <1>2, <2>1, <3>2 DEF Capacity
      <4> QED
        BY <1>2, <3>2, <4>1, <4>2, Doubling
    <3> QED
      BY <3>1, <3>2
  <2>3. DOMAIN Grown.slots = 0 .. d - 1
    <3>1. DOMAIN wide = 0 .. d - 1
      OBVIOUS
    <3>2. Grown.slots = wide \/ \E a, b, n : Grown.slots = Relocate(wide, a, b, n)
      <4>1. CASE front <= back
        BY <1>4, <4>1 DEF Grown
      <4>2. CASE ~(front <= back) /\ back < cap - front
        <5>1. Grown.slots = Relocate(wide, 0, cap, back)
          BY <1>4, <4>2 DEF Grown
        <5> QED
          BY <5>1, Zenon
      <4>3. CASE ~(front <= back) /\ ~(back < cap - front)
        <5>1. Grown.slots = Relocate(wide, front, d - (cap - front), cap - front)
          BY <1>4, <4>3 DEF Grown
        <5> QED
          BY <5>1, Zenon
      <4> QED
        BY <4>1, <4>2, <4>3
    <3>3. \A a, b, n : DOMAIN Relocate(wide, a, b, n) = DOMAIN wide
      BY DEF Relocate
    <3> HIDE DEF wide, d
    <3> QED
      BY <3>1, <3>2, <3>3, Zenon
  <2>4. CapOf(Grown.slots) = d
    BY <2>2, <2>3, CapIs
  <2> QED
    BY <2>2, <2>4
<1> QED
  BY <1>3, <1>4

\* A capacity changes by growth only.
LEMMA CapacityKept ==
  ASSUME MaxLen < 2 ^ 30, IInv, Capacity, [Next]_vars
  PROVE  Capacity'
<1>1. \A s, t : DOMAIN s = DOMAIN t => CapOf(s) = CapOf(t)
  BY DEF CapOf
<1>2. ASSUME DOMAIN slots' = DOMAIN slots PROVE Capacity'
  <2>1. cap' = cap
    BY <1>1, <1>2, Zenon DEF cap
  <2> QED
    BY <2>1 DEF Capacity
<1>3. ASSUME DOMAIN slots' = DOMAIN Grown.slots, Length < MaxLen PROVE Capacity'
  <2>1. cap' = CapOf(Grown.slots)
    BY <1>1, <1>3, Zenon DEF cap
  <2> QED
    BY <1>3, <2>1, GrownCapacity DEF Capacity
<1>4. CASE PushBack
  <2>1. DOMAIN slots' = DOMAIN Grown.slots /\ Length < MaxLen
    BY <1>4 DEF PushBack
  <2> QED
    BY <1>3, <2>1
<1>5. CASE PushFront
  <2>1. DOMAIN slots' = DOMAIN Grown.slots /\ Length < MaxLen
    BY <1>5 DEF PushFront
  <2> QED
    BY <1>3, <2>1
<1>6. CASE PopFront \/ PopBack
  BY <1>2, <1>6 DEF PopFront, PopBack
<1>7. CASE PopEmpty \/ IterBegin \/ IterNext \/ IterNextBack \/ IterEnd \/ UNCHANGED vars
  BY <1>2, <1>7 DEF PopEmpty, IterBegin, IterNext, IterNextBack, IterEnd, vars, queue
<1>8. CASE Clear
  <2>1. PICK c \in Nat : slots \in Memory(c)
    BY DEF IInv, Placed
  <2>2. DOMAIN slots' = 0 .. c - 1 /\ DOMAIN slots = 0 .. c - 1
    BY <1>8, <2>1, QueueIs DEF Clear, Fresh, Memory
  <2> QED
    BY <1>2, <2>2
<1> QED
  BY <1>4, <1>5, <1>6, <1>7, <1>8 DEF Next

\* TypeOK, for every queue of fewer than 2^30 values: the capacity is the power
\* of two that masking an index takes for granted, and the ends are in it.
THEOREM VecDequeTypeOK ==
  ASSUME MaxLen < 2 ^ 30
  PROVE  Spec => []TypeOK
<1>1. Init => Capacity
  <2>1. SUFFICES ASSUME Init PROVE Capacity
    OBVIOUS
  <2>2. CASE slots = Fresh(0)
    <3>1. cap = 0
      BY <2>2, CapIs DEF cap, Fresh
    <3> QED
      BY <3>1 DEF Capacity
  <2>3. ASSUME NEW n \in FirstCaps, slots = Fresh(FirstCap(n)) PROVE Capacity
    <3>1. FirstCap(n) \in Nat /\ FirstCap(n) \in PowersOfTwo
      BY FirstCapIs, VecDequeAssumption
    <3>2. cap = FirstCap(n)
      BY <2>3, <3>1, CapIs DEF cap, Fresh
    <3> QED
      BY <3>1, <3>2 DEF Capacity
  <2> QED
    BY <2>1, <2>2, <2>3 DEF Init
<1>2. IInv /\ Capacity /\ [Next]_vars => Capacity'
  BY CapacityKept
<1>3. IInv /\ Capacity => TypeOK
  <2>1. SUFFICES ASSUME IInv, Capacity PROVE TypeOK
    OBVIOUS
  <2>2. PICK c \in Nat : slots \in Memory(c) /\ front \in Index(c) /\ back \in Index(c)
    BY <2>1 DEF IInv, Placed
  <2>3. cap = c
    BY <2>2, QueueIs
  <2>4. slots \in [0 .. cap - 1 -> Value \cup {Junk}]
    BY <2>2, <2>3 DEF Memory, Slot
  <2>5. {front, back} \subseteq (IF cap = 0 THEN {0} ELSE 0 .. cap - 1)
    BY <2>2, <2>3 DEF Index
  <2>6. out \in Seq(Value)
    BY <2>1 DEF IInv, ValuesIn
  <2> QED
    BY <2>1, <2>4, <2>5, <2>6 DEF TypeOK, Capacity
<1> QED
  BY <1>1, <1>2, <1>3, VecDequeInvariant, PTL DEF Spec
=============================================================================
