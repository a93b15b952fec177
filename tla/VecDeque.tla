------------------------------ MODULE VecDeque ------------------------------
(***************************************************************************)
(* collections::VecDeque (src/sfc/collections/vec_deque.h): a ring buffer  *)
(* over a RawVec whose capacity is a power of two, and its double-ended    *)
(* iterator.  The mask of the code, x & (cap - 1), is x % cap: that is     *)
(* where the power of two is needed.                                       *)
(*                                                                         *)
(* A slot whose value was moved out, or that was never written, holds      *)
(* Junk.  Not modelled: a queue that is used after it was moved from.      *)
(***************************************************************************)
EXTENDS Integers, Sequences, SequencesExt

CONSTANTS
  Value,
  Junk,       \* no value
  MinCap,     \* the capacity after the first growth: 16 in the code
  FirstCaps,  \* the arguments of with_capacity
  MaxLen      \* bound: the values in the queue

PowersOfTwo == {2 ^ k : k \in 0 .. 30}

\* The constants for which the operations make sense.
ASSUME VecDequeAssumption ==
  /\ Junk \notin Value
  /\ MinCap \in PowersOfTwo /\ MinCap >= 2
  /\ FirstCaps \subseteq 0 .. 2 ^ 30
  /\ MaxLen \in Nat

VARIABLES
  slots,      \* the memory of _buf, by index
  front,      \* _front
  back,       \* _back
  out,        \* the values that left the queue in the last operation
  it,         \* the running iteration: its _front and _back, or NoIter
  ahead,      \* what its next() has returned, in order
  behind      \* what its next_back() has returned, the last one first

queue == <<slots, front, back>>
iteration == <<it, ahead, behind>>
vars == <<queue, out, iteration>>

NoIter == [on |-> FALSE, front |-> 0, back |-> 0]

Fresh(n) == [i \in 0 .. n - 1 |-> Junk]
CapOf(s) == IF DOMAIN s = {} THEN 0 ELSE 1 + CHOOSE n \in DOMAIN s : n + 1 \notin DOMAIN s
cap == CapOf(slots)

\* wrap_idx; a queue without memory is never indexed
Wrap(i) == i % cap
Between(f, b) == IF cap = 0 THEN 0 ELSE (b - f) % cap
Length == Between(front, back)
Segment(f, b) == [k \in 1 .. Between(f, b) |-> slots[Wrap(f + k - 1)]]

\* with_capacity: the least power of two that is not below n
FirstCap(n) == CHOOSE c \in PowersOfTwo : c >= n /\ \A d \in PowersOfTwo : d >= n => c <= d

\* VecDeque() and with_capacity
Init ==
  /\ slots \in {Fresh(0)} \cup {Fresh(FirstCap(n)) : n \in FirstCaps}
  /\ front = 0
  /\ back = 0
  /\ out = <<>>
  /\ it = NoIter
  /\ ahead = <<>>
  /\ behind = <<>>

\* ptr::copy of cnt slots to memory they do not overlap
Relocate(s, src, dst, cnt) ==
  [i \in DOMAIN s |->
    IF i \in dst .. dst + cnt - 1 THEN s[src + i - dst]
    ELSE IF i \in src .. src + cnt - 1 THEN Junk
    ELSE s[i]]

(***************************************************************************)
(* Faulty forms of the operations below.                                   *)
(***************************************************************************)

IsFull == Length + 1 >= cap

\* The wrapped part behind is left where it was.
GrownNoCopy ==
  IF ~IsFull THEN [slots |-> slots, front |-> front, back |-> back]
  ELSE LET new == IF 2 * cap < MinCap THEN MinCap ELSE 2 * cap
           wide == [i \in 0 .. new - 1 |-> IF i < cap THEN slots[i] ELSE Junk]
       IN [slots |-> wide, front |-> front, back |-> IF front <= back THEN back ELSE back + cap]

\* next() does not notice that next_back() came from the other side.
IterNextPast ==
  /\ it.on /\ Len(ahead) < Length
  /\ ahead' = Append(ahead, slots[it.front])
  /\ it' = [it EXCEPT !.front = Wrap(@ + 1)]
  /\ UNCHANGED <<queue, out, behind>>

(***************************************************************************)
(* Growth                                                                  *)
(***************************************************************************)

\* grow_if_necessary: realloc keeps the slots, and handle_capacity_increase
\* moves the shorter of the two parts of a wrapped queue.
Grown ==
  IF ~IsFull THEN [slots |-> slots, front |-> front, back |-> back]
  ELSE LET new == IF 2 * cap < MinCap THEN MinCap ELSE 2 * cap
           wide == [i \in 0 .. new - 1 |-> IF i < cap THEN slots[i] ELSE Junk]
           tail == new - (cap - front)
       IN IF front <= back
          THEN [slots |-> wide, front |-> front, back |-> back]
          ELSE IF back < cap - front
          THEN [slots |-> Relocate(wide, 0, cap, back), front |-> front, back |-> back + cap]
          ELSE [slots |-> Relocate(wide, front, tail, cap - front), front |-> tail, back |-> back]

(***************************************************************************)
(* The operations                                                          *)
(***************************************************************************)

\* push_back
PushBack ==
  /\ ~it.on /\ Length < MaxLen
  /\ LET g == Grown IN \E v \in Value :
       /\ slots' = [g.slots EXCEPT ![g.back] = v]
       /\ front' = g.front
       /\ back' = (g.back + 1) % CapOf(g.slots)
  /\ out' = <<>>
  /\ UNCHANGED iteration

\* push_front
PushFront ==
  /\ ~it.on /\ Length < MaxLen
  /\ LET g == Grown
         f == (g.front - 1) % CapOf(g.slots)
     IN \E v \in Value :
       /\ slots' = [g.slots EXCEPT ![f] = v]
       /\ front' = f
       /\ back' = g.back
  /\ out' = <<>>
  /\ UNCHANGED iteration

\* pop_front of a queue that is not empty
PopFront ==
  /\ ~it.on /\ front # back
  /\ front' = Wrap(front + 1)
  /\ out' = <<slots[front]>>
  /\ slots' = [slots EXCEPT ![front] = Junk]
  /\ UNCHANGED <<back, iteration>>

\* pop_back of a queue that is not empty
PopBack ==
  /\ ~it.on /\ front # back
  /\ back' = Wrap(back - 1)
  /\ out' = <<slots[back']>>
  /\ slots' = [slots EXCEPT ![back'] = Junk]
  /\ UNCHANGED <<front, iteration>>

\* pop_front or pop_back of an empty one
PopEmpty ==
  /\ ~it.on /\ front = back
  /\ out' = <<>>
  /\ UNCHANGED <<queue, iteration>>

\* clear destroys the values in order; the destructor calls it too.
Clear ==
  /\ ~it.on
  /\ out' = Segment(front, back)
  /\ slots' = Fresh(cap)
  /\ front' = 0
  /\ back' = 0
  /\ UNCHANGED iteration

(***************************************************************************)
(* Iter                                                                    *)
(***************************************************************************)

\* iter(), iter_mut()
IterBegin ==
  /\ ~it.on
  /\ it' = [on |-> TRUE, front |-> front, back |-> back]
  /\ ahead' = <<>>
  /\ behind' = <<>>
  /\ UNCHANGED <<queue, out>>

\* next()
IterNext ==
  /\ it.on /\ it.front # it.back
  /\ ahead' = Append(ahead, slots[it.front])
  /\ it' = [it EXCEPT !.front = Wrap(@ + 1)]
  /\ UNCHANGED <<queue, out, behind>>

\* next_back()
IterNextBack ==
  /\ it.on /\ it.front # it.back
  /\ behind' = <<slots[Wrap(it.back - 1)]>> \o behind
  /\ it' = [it EXCEPT !.back = Wrap(@ - 1)]
  /\ UNCHANGED <<queue, out, ahead>>

\* The iteration is given up, or has come to its end.
IterEnd ==
  /\ it.on
  /\ it' = NoIter
  /\ ahead' = <<>>
  /\ behind' = <<>>
  /\ UNCHANGED <<queue, out>>

Next ==
  \/ PushBack \/ PushFront \/ PopFront \/ PopBack \/ PopEmpty \/ Clear
  \/ IterBegin \/ IterNext \/ IterNextBack \/ IterEnd

Spec == Init /\ [][Next]_vars
-----------------------------------------------------------------------------
Contents == Segment(front, back)

\* The types of the variables; a capacity is a power of two.
TypeOK ==
  /\ cap = 0 \/ cap \in PowersOfTwo
  /\ slots \in [0 .. cap - 1 -> Value \cup {Junk}]
  /\ {front, back} \subseteq (IF cap = 0 THEN {0} ELSE 0 .. cap - 1)
  /\ out \in Seq(Value)

\* An iteration from both ends returns every value once, in order.
IterMeetsOnce ==
  it.on => ahead \o Segment(it.front, it.back) \o behind = Contents

\* The ring buffer is a double-ended queue: growth moves no value out of its
\* place in the order, and none is lost, doubled or invented.
D == INSTANCE Deque WITH contents <- Contents
ImplementsDeque == D!Spec
=============================================================================
