--------------------------------- MODULE Vec ---------------------------------
(***************************************************************************)
(* vec::RawVec and vec::Vec (src/sfc/alloc/vec.h): who owns the elements   *)
(* and the memory of the vectors of one element type, through growth,      *)
(* append, truncation, moves and destruction.                              *)
(*                                                                         *)
(* An element is with the caller (held), in a slot of a vector, or         *)
(* destroyed.  A slot whose element was read out of it, or that was never  *)
(* written, holds Junk.  Not modelled: insert, remove and swap_remove,     *)
(* whose bodies the compiler rejects, resize for growing (Vec::extend is   *)
(* not defined), shrink_to_fit (RawVec::truncate returns at once whenever  *)
(* it is called with a length), and a vector that is appended to itself.   *)
(***************************************************************************)
EXTENDS Naturals, FiniteSets

CONSTANTS
  VecId,        \* the vectors
  Elem,         \* the elements
  Junk,         \* no element
  Align,        \* what reserve rounds a capacity up to: 8 in the code
  MaxCap,       \* bound: the largest allocation
  Trivial,      \* is T trivially destructible
  MovesValues,  \* may a vector be moved from while it has elements
  TruncateTo    \* the lengths given to truncate; clear and ~Vec give 0

ASSUME VecAssumption ==
  /\ Junk \notin Elem
  /\ Align \in Nat \ {0}
  /\ MaxCap \in Nat
  /\ Trivial \in BOOLEAN /\ MovesValues \in BOOLEAN
  /\ TruncateTo \subseteq Nat

VARIABLES
  st,         \* st[v]: "none", "alive", "moved" (moved from), "gone"
  mem,        \* mem[v]: does _ptr own memory (is it not null)
  cap,        \* cap[v]: _cap
  len,        \* len[v]: _len
  slots,      \* slots[v]: the memory
  held,       \* the elements that are with the caller
  drops,      \* drops[e]: how often e was destroyed
  nullDrop    \* a destructor was called on an element at a null address

vars == <<st, mem, cap, len, slots, held, drops, nullDrop>>

Slot == 0 .. MaxCap - 1
Empty == [i \in Slot |-> Junk]

Init ==
  /\ st = [v \in VecId |-> "none"]
  /\ mem = [v \in VecId |-> FALSE]
  /\ cap = [v \in VecId |-> 0]
  /\ len = [v \in VecId |-> 0]
  /\ slots = [v \in VecId |-> Empty]
  /\ held = Elem
  /\ drops = [e \in Elem |-> 0]
  /\ nullDrop = FALSE

\* The elements in the slots below n of v.
Within(v, n) == {slots[v][i] : i \in {i \in Slot : i < n}}

\* num::align_up
AlignUp(n) == ((n + Align - 1) \div Align) * Align

(***************************************************************************)
(* Faulty forms of the operations below.                                   *)
(***************************************************************************)

\* reserve grows by a part of the capacity, also where more is asked for.
ReservedPart(c, used, add, part) ==
  IF used + add <= c THEN c ELSE AlignUp(c + c \div part)

\* ~Vec frees the memory without destroying the elements.
DestroyForgets(v) ==
  /\ st[v] = "alive"
  /\ st' = [st EXCEPT ![v] = "gone"]
  /\ mem' = [mem EXCEPT ![v] = FALSE]
  /\ len' = [len EXCEPT ![v] = 0]
  /\ slots' = [slots EXCEPT ![v] = Empty]
  /\ UNCHANGED <<cap, held, drops, nullDrop>>

\* pop returns a copy of the last element, which stays in the vector.
PopCopies(v) ==
  /\ st[v] = "alive" /\ len[v] > 0
  /\ held' = held \cup {slots[v][len[v] - 1]}
  /\ UNCHANGED <<st, mem, cap, len, slots, drops, nullDrop>>

(***************************************************************************)
(* RawVec: memory                                                          *)
(***************************************************************************)

\* The capacity after reserve: c >> shift is c \div part.
Reserved(c, used, add, part) ==
  IF used + add <= c THEN c
  ELSE AlignUp(c + (IF add < c \div part THEN c \div part ELSE add))

\* The capacity after reserve_exact.
ReservedExact(c, used, add) == IF used + add <= c THEN c ELSE c + add

\* v has that capacity now; realloc keeps what the slots hold.
Grow(v, new) ==
  /\ new <= MaxCap
  /\ cap' = [cap EXCEPT ![v] = new]
  /\ mem' = [mem EXCEPT ![v] = mem[v] \/ new > cap[v]]

(***************************************************************************)
(* Vec                                                                     *)
(***************************************************************************)

\* Vec()
New(v) ==
  /\ st[v] = "none"
  /\ st' = [st EXCEPT ![v] = "alive"]
  /\ UNCHANGED <<mem, cap, len, slots, held, drops, nullDrop>>

\* with_capacity
WithCapacity(v) ==
  /\ st[v] = "none"
  /\ st' = [st EXCEPT ![v] = "alive"]
  /\ \E n \in 1 .. MaxCap : cap' = [cap EXCEPT ![v] = n]
  /\ mem' = [mem EXCEPT ![v] = TRUE]
  /\ UNCHANGED <<len, slots, held, drops, nullDrop>>

\* reserve, with the shifts that are used (1, and 2 in serial/node.cc), and
\* reserve_exact
Reserve(v) ==
  /\ st[v] = "alive"
  /\ \E add \in 1 .. MaxCap :
       \/ \E part \in {2, 4} : Grow(v, Reserved(cap[v], len[v], add, part))
       \/ Grow(v, ReservedExact(cap[v], len[v], add))
  /\ UNCHANGED <<st, len, slots, held, drops, nullDrop>>

\* push
Push(v) ==
  /\ st[v] = "alive"
  /\ Grow(v, Reserved(cap[v], len[v], 1, 2))
  /\ \E e \in held :
       /\ held' = held \ {e}
       /\ slots' = [slots EXCEPT ![v] = [i \in Slot |-> IF i = len[v] THEN e ELSE slots[v][i]]]
  /\ len' = [len EXCEPT ![v] = len[v] + 1]
  /\ UNCHANGED <<st, drops, nullDrop>>

\* pop of a vector that is not empty
Pop(v) ==
  /\ st[v] = "alive" /\ len[v] > 0
  /\ held' = held \cup {slots[v][len[v] - 1]}
  /\ slots' = [slots EXCEPT ![v] = [i \in Slot |-> IF i = len[v] - 1 THEN Junk ELSE slots[v][i]]]
  /\ len' = [len EXCEPT ![v] = len[v] - 1]
  /\ UNCHANGED <<st, mem, cap, drops, nullDrop>>

\* append: a bitwise copy, after which the other vector is empty
Append(v, w) ==
  /\ v # w /\ st[v] = "alive" /\ st[w] = "alive"
  /\ Grow(v, Reserved(cap[v], len[v], len[w], 2))
  /\ slots' = [slots EXCEPT
       ![v] = [i \in Slot |->
         IF i >= len[v] /\ i < len[v] + len[w] THEN slots[w][i - len[v]] ELSE slots[v][i]],
       ![w] = Empty]
  /\ len' = [len EXCEPT ![v] = len[v] + len[w], ![w] = 0]
  /\ UNCHANGED <<st, held, drops, nullDrop>>

\* Vec(Vec&&): the pointer of the source becomes null; its capacity and its
\* length stay.  mem::forget moves in the same way.
Move(v, w) ==
  /\ st[v] = "alive" /\ st[w] = "none"
  /\ MovesValues \/ len[v] = 0
  /\ st' = [st EXCEPT ![v] = "moved", ![w] = "alive"]
  /\ mem' = [mem EXCEPT ![v] = FALSE, ![w] = mem[v]]
  /\ cap' = [cap EXCEPT ![w] = cap[v]]
  /\ len' = [len EXCEPT ![w] = len[v]]
  /\ slots' = [slots EXCEPT ![v] = Empty, ![w] = slots[v]]
  /\ UNCHANGED <<held, drops, nullDrop>>

\* The loop of truncate: every element is destroyed, also those that stay.
DropAll(v) ==
  IF Trivial THEN UNCHANGED <<drops, nullDrop>>
  ELSE IF mem[v]
  THEN /\ drops' = [e \in Elem |-> IF e \in Within(v, len[v]) THEN drops[e] + 1 ELSE drops[e]]
       /\ UNCHANGED nullDrop
  ELSE nullDrop' = TRUE /\ UNCHANGED drops

\* truncate of a vector that is longer
Truncate(v) ==
  /\ st[v] = "alive"
  /\ \E n \in TruncateTo :
       /\ n < len[v]
       /\ len' = [len EXCEPT ![v] = n]
       /\ slots' = [slots EXCEPT ![v] = [i \in Slot |-> IF i < n THEN slots[v][i] ELSE Junk]]
  /\ DropAll(v)
  /\ UNCHANGED <<st, mem, cap, held>>

\* ~Vec: truncate(0), and ~RawVec
Destroy(v) ==
  /\ st[v] \in {"alive", "moved"}
  /\ IF len[v] > 0 THEN DropAll(v) ELSE UNCHANGED <<drops, nullDrop>>
  /\ st' = [st EXCEPT ![v] = "gone"]
  /\ mem' = [mem EXCEPT ![v] = FALSE]
  /\ len' = [len EXCEPT ![v] = 0]
  /\ slots' = [slots EXCEPT ![v] = Empty]
  /\ UNCHANGED <<cap, held>>

Next ==
  \E v \in VecId :
    \/ New(v) \/ WithCapacity(v) \/ Reserve(v) \/ Push(v) \/ Pop(v) \/ Truncate(v) \/ Destroy(v)
    \/ \E w \in VecId : Append(v, w) \/ Move(v, w)

Spec == Init /\ [][Next]_vars
-----------------------------------------------------------------------------
\* The types of the variables.
TypeOK ==
  /\ st \in [VecId -> {"none", "alive", "moved", "gone"}]
  /\ mem \in [VecId -> BOOLEAN]
  /\ cap \in [VecId -> 0 .. MaxCap]
  /\ len \in [VecId -> 0 .. MaxCap]
  /\ slots \in [VecId -> [Slot -> Elem \cup {Junk}]]
  /\ held \subseteq Elem
  /\ drops \in [Elem -> Nat]
  /\ nullDrop \in BOOLEAN

\* A vector owns the memory its capacity says, and its elements are in it:
\* no operation writes or reads a slot past the end of an allocation.
MemoryHoldsElements ==
  TypeOK /\ \A v \in VecId : st[v] = "alive" =>
    /\ len[v] <= cap[v]
    /\ cap[v] > 0 => mem[v]
    /\ \A i \in Slot : i < len[v] <=> slots[v][i] # Junk

\* An element is in one slot of one vector, or with the caller, or destroyed,
\* once.
InOnePlace ==
  /\ \A e \in Elem : drops[e] <= 1 /\ (drops[e] = 1 => e \notin held)
  /\ \A v, w \in VecId : \A i, k \in Slot : slots[v][i] # Junk =>
       /\ slots[v][i] = slots[w][k] => v = w /\ i = k
       /\ slots[v][i] \notin held
       /\ drops[slots[v][i]] = 0

\* No element is forgotten: what is neither with the caller nor destroyed is
\* in a vector that is alive.
NoElementLost ==
  \A e \in Elem : e \in held \/ drops[e] > 0 \/
    \E v \in VecId : st[v] = "alive" /\ \E i \in Slot : slots[v][i] = e

\* serial::List::push and Dict::insert move a vector of nodes out of a local
\* variable (mem::forget), whose destructor runs next; the test "ser" of
\* test/sfc/serial/json.cxx serializes two structures that way and prints
\* the result: no destructor runs on an element that is not there.
NoNullDrop == ~nullDrop
=============================================================================
