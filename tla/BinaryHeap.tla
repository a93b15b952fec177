------------------------------ MODULE BinaryHeap ------------------------------
(***************************************************************************)
(* collections::BinaryHeap (src/sfc/collections/binary_heap.h): push and   *)
(* pop of a heap in a vector, the least value on top.  A round of the      *)
(* loops of _shift_up and _shift_down is a step.                           *)
(***************************************************************************)
EXTENDS Integers, FiniteSets

CONSTANTS
  Value,      \* the values, with their order
  NoValue,    \* no value
  MaxLen      \* bound: the values in the heap

ASSUME ValueAssumption == Value \subseteq Int /\ NoValue \notin Value
ASSUME MaxLenAssumption == MaxLen \in Nat

VARIABLES
  vec,        \* the elements of _vec, from index 0
  len,        \* _vec.len()
  pc,         \* "ready", "up" in _shift_up, "down" in _shift_down
  idx,        \* idx_node, or idx_root
  res         \* what pop returns

vars == <<vec, len, pc, idx, res>>

Init ==
  /\ vec = [i \in 0 .. -1 |-> NoValue]
  /\ len = 0
  /\ pc = "ready"
  /\ idx = 0
  /\ res = NoValue

Root(i) == (i - 1) \div 2
Left(i) == 2 * i + 1
Right(i) == 2 * i + 2

(***************************************************************************)
(* Faulty forms of the operations below.                                   *)
(***************************************************************************)

\* _shift_up writes over the root instead of swapping.
SwappedHalf(i, k) == [j \in 0 .. len - 1 |-> IF j = k THEN vec[i] ELSE vec[j]]

\* _shift_up ends by the comparison only, which is strict: at the top it
\* compares a value with itself.
ShiftUpNoTop ==
  /\ pc = "up"
  /\ LET r == IF idx = 0 THEN 0 ELSE Root(idx) IN
     IF ~(vec[r] < vec[idx])
     THEN /\ vec' = [vec EXCEPT ![idx] = vec[r], ![r] = vec[idx]]
          /\ idx' = r
          /\ UNCHANGED pc
     ELSE pc' = "ready" /\ idx' = 0 /\ UNCHANGED vec
  /\ UNCHANGED <<len, res>>

\* _shift_down looks at the left child only.
LeftOnly(i) == Left(i)

(***************************************************************************)
(* The operations                                                          *)
(***************************************************************************)

\* mem::swap of two elements
Swapped(i, k) ==
  [j \in 0 .. len - 1 |-> IF j = i THEN vec[k] ELSE IF j = k THEN vec[i] ELSE vec[j]]

\* idx_next: the lesser child of i, which has one
Lesser(i) == IF Right(i) < len /\ ~(vec[Left(i)] <= vec[Right(i)]) THEN Right(i) ELSE Left(i)

\* push: at the end of the vector, then _shift_up
Push ==
  /\ pc = "ready" /\ len < MaxLen
  /\ \E v \in Value : vec' = [i \in 0 .. len |-> IF i = len THEN v ELSE vec[i]]
  /\ len' = len + 1
  /\ pc' = "up"
  /\ idx' = len
  /\ res' = NoValue

\* One round of _shift_up, or its end.
ShiftUp ==
  /\ pc = "up"
  /\ IF idx > 0 /\ ~(vec[Root(idx)] <= vec[idx])
     THEN /\ vec' = Swapped(idx, Root(idx))
          /\ idx' = Root(idx)
          /\ UNCHANGED pc
     ELSE pc' = "ready" /\ idx' = 0 /\ UNCHANGED vec
  /\ UNCHANGED <<len, res>>

\* pop of a heap that is not empty: Vec::swap_remove(0), then _shift_down
Pop ==
  /\ pc = "ready" /\ len > 0
  /\ res' = vec[0]
  /\ vec' = [i \in 0 .. len - 2 |-> IF i = 0 THEN vec[len - 1] ELSE vec[i]]
  /\ len' = len - 1
  /\ pc' = "down"
  /\ idx' = 0

\* One round of _shift_down, or its end.
ShiftDown ==
  /\ pc = "down"
  /\ IF Left(idx) < len /\ ~(vec[idx] <= vec[Lesser(idx)])
     THEN /\ vec' = Swapped(idx, Lesser(idx))
          /\ idx' = Lesser(idx)
          /\ UNCHANGED pc
     ELSE pc' = "ready" /\ idx' = 0 /\ UNCHANGED vec
  /\ UNCHANGED <<len, res>>

Next == Push \/ ShiftUp \/ Pop \/ ShiftDown

Spec == Init /\ [][Next]_vars

\* A call that runs goes on.
FairSpec == Spec /\ WF_vars(ShiftUp) /\ WF_vars(ShiftDown)
-----------------------------------------------------------------------------
\* The types of the variables.
TypeOK ==
  /\ len \in Nat
  /\ vec \in [0 .. len - 1 -> Value]
  /\ pc \in {"ready", "up", "down"}
  /\ idx \in Nat
  /\ pc = "up" => idx < len
  /\ res \in Value \cup {NoValue}

\* Every element but those the loop is at is not less than its root: the
\* loops are at a node that may be too small (up) or too large (down), and
\* the root of that node is still in order with the children of the node.
OrderedButOne ==
  /\ \A i \in 1 .. len - 1 :
       pc = "ready" \/ (pc = "up" /\ i # idx) \/ (pc = "down" /\ Root(i) # idx)
         => vec[Root(i)] <= vec[i]
  /\ pc \in {"up", "down"} /\ idx > 0 =>
       \A i \in 1 .. len - 1 : Root(i) = idx => vec[Root(idx)] <= vec[i]

\* The inductive invariant.
IInv == TypeOK /\ OrderedButOne

\* Between the calls the vector is a heap, whatever was pushed and popped.
HeapOrdered ==
  pc = "ready" => \A i \in 1 .. len - 1 : vec[Root(i)] <= vec[i]

\* The heap is a priority queue: pop returns one of the least values, and no
\* value is lost or doubled by the swaps.
Queue == INSTANCE PriorityQueue WITH
  items <- [v \in Value |-> Cardinality({i \in 0 .. len - 1 : vec[i] = v})],
  out <- res
ImplementsQueue == Queue!Spec

\* Both loops end.
CallsReturn == pc # "ready" ~> pc = "ready"
=============================================================================
