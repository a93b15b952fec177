----------------------------- MODULE VecProofs -----------------------------
(***************************************************************************)
(* Vectors for any elements, any vectors of them, and any alignment and    *)
(* size of allocations: where elements are, and what memory holds them.    *)
(***************************************************************************)
EXTENDS Vec, TLAPS

\* What is in a vector, by its state: one that is no longer, or not yet, alive
\* has no element in its slots, and one that is alive has its elements in the
\* first of them, which it has memory for.
Stored(v) ==
  /\ st[v] = "none" => len[v] = 0 /\ cap[v] = 0 /\ ~mem[v]
  /\ st[v] # "alive" => \A i \in Slot : slots[v][i] = Junk
  /\ st[v] = "alive" =>
       /\ len[v] <= cap[v]
       /\ cap[v] > 0 => mem[v]
       /\ \A i \in Slot : i < len[v] <=> slots[v][i] # Junk

IInv == TypeOK /\ \A v \in VecId : Stored(v)

\* A vector that was moved from has no length left, if none is moved from while
\* it has elements.
MovedEmpty == \A v \in VecId : st[v] = "moved" => len[v] = 0

-----------------------------------------------------------------------------
\* num::align_up gives no less than it is given.
LEMMA AlignUpAbove ==
  ASSUME NEW n \in Nat
  PROVE  AlignUp(n) \in Nat /\ AlignUp(n) >= n
<1> DEFINE q == (n + Align - 1) \div Align
<1>1. Align \in Nat \ {0} /\ n + Align - 1 \in Nat
  BY VecAssumption
<1>2. q \in Nat /\ q * Align <= n + Align - 1 /\ n + Align - 1 < q * Align + Align
  BY <1>1
<1>3. q * Align \in Nat /\ q * Align >= n
  BY <1>1, <1>2
<1> QED
  BY <1>3 DEF AlignUp

\* reserve makes room for what it is asked for, and gives no memory back.
LEMMA ReservedEnough ==
  ASSUME NEW c \in Nat, NEW used \in 0 .. c, NEW add \in Nat, NEW part \in {2, 4}
  PROVE  /\ Reserved(c, used, add, part) \in Nat
         /\ Reserved(c, used, add, part) >= c
         /\ Reserved(c, used, add, part) >= used + add
<1> DEFINE more == IF add < c \div part THEN c \div part ELSE add
<1>1. more \in Nat /\ more >= add
  OBVIOUS
<1>2. AlignUp(c + more) \in Nat /\ AlignUp(c + more) >= c + more
  BY <1>1, AlignUpAbove
<1> QED
  BY <1>1, <1>2 DEF Reserved

-----------------------------------------------------------------------------
\* The vectors as they are made.
LEMMA InitIInv == Init => IInv
<1> SUFFICES ASSUME Init PROVE TypeOK /\ \A v \in VecId : Stored(v)
  BY DEF IInv
<1> USE VecAssumption
<1>1. nullDrop \in BOOLEAN
  BY Zenon DEF Init
<1>2. TypeOK
  BY <1>1 DEF Init, TypeOK, Empty
<1>3. \A v \in VecId : Stored(v)
  BY DEF Init, Stored, Empty, Slot
<1> QED
  BY <1>2, <1>3

\* The loop of truncate counts what it destroys, and leaves the rest alone.
LEMMA DropAllCounts ==
  ASSUME TypeOK, NEW v \in VecId, DropAll(v)
  PROVE  /\ drops' \in [Elem -> Nat]
         /\ nullDrop' \in BOOLEAN
         /\ mem[v] => nullDrop' = nullDrop
         /\ \A e \in Elem : drops'[e] =
              IF ~Trivial /\ mem[v] /\ e \in Within(v, len[v]) THEN drops[e] + 1 ELSE drops[e]
<1>1. CASE Trivial
  BY <1>1 DEF DropAll, TypeOK
<1>2. CASE ~Trivial /\ mem[v]
  BY <1>2 DEF DropAll, TypeOK
<1>3. CASE ~Trivial /\ ~mem[v]
  <2>1. nullDrop' \in BOOLEAN
    BY <1>3, Zenon DEF DropAll
  <2> QED
    BY <1>3, <2>1 DEF DropAll, TypeOK
<1> QED
  BY <1>1, <1>2, <1>3, VecAssumption

\* Growth of one vector: its memory holds what the new capacity says.
LEMMA GrowFacts ==
  ASSUME IInv, NEW v \in VecId, st[v] = "alive", NEW new \in Nat, new >= cap[v], Grow(v, new)
  PROVE  /\ cap' \in [VecId -> 0 .. MaxCap]
         /\ mem' \in [VecId -> BOOLEAN]
         /\ cap'[v] = new /\ new <= MaxCap
         /\ \A u \in VecId \ {v} : cap'[u] = cap[u] /\ (mem'[u] <=> mem[u])
         /\ \A u \in VecId : st[u] = "alive" /\ cap'[u] > 0 => mem'[u]
<1> USE VecAssumption DEF IInv, TypeOK, Grow
<1>1. cap' \in [VecId -> 0 .. MaxCap] /\ cap'[v] = new /\ new <= MaxCap
  OBVIOUS
<1>2. mem' \in [VecId -> BOOLEAN] /\ mem'[v] = (mem[v] \/ new > cap[v])
  OBVIOUS
<1>3. \A u \in VecId \ {v} : cap'[u] = cap[u] /\ (mem'[u] <=> mem[u])
  OBVIOUS
<1>4. ASSUME NEW u \in VecId, st[u] = "alive", cap'[u] > 0 PROVE mem'[u]
  <2>1. cap[u] \in Nat /\ (cap[u] > 0 => mem[u])
    BY <1>4 DEF Stored
  <2>2. CASE u # v
    BY <1>3, <1>4, <2>1, <2>2
  <2>3. CASE u = v /\ new > cap[v]
    BY <1>2, <2>3, Zenon
  <2>4. CASE u = v /\ new = cap[v]
    <3>1. mem[v]
      BY <1>1, <1>4, <2>1, <2>4
    <3> QED
      BY <1>2, <2>4, <3>1, Zenon
  <2> QED
    BY <2>1, <2>2, <2>3, <2>4
<1> QED
  BY <1>1, <1>2, <1>3, <1>4

\* Every operation keeps the elements of a vector in the first slots of memory
\* that is large enough.
LEMMA NextIInv == IInv /\ [Next]_vars => IInv'
<1> SUFFICES ASSUME IInv, [Next]_vars PROVE IInv'
  OBVIOUS
<1> USE VecAssumption DEF IInv
<1>1. ASSUME NEW v \in VecId, New(v) PROVE IInv'
  <2>1. TypeOK'
    BY <1>1 DEF New, TypeOK
  <2>2. ASSUME NEW u \in VecId PROVE Stored(u)'
    BY <1>1 DEF New, TypeOK, Stored, Slot
  <2> QED
    BY <2>1, <2>2
<1>2. ASSUME NEW v \in VecId, WithCapacity(v) PROVE IInv'
  <2>1. TypeOK'
    BY <1>2 DEF WithCapacity, TypeOK
  <2>2. ASSUME NEW u \in VecId PROVE Stored(u)'
    BY <1>2 DEF WithCapacity, TypeOK, Stored, Slot
  <2> QED
    BY <2>1, <2>2
<1>3. ASSUME NEW v \in VecId, Reserve(v) PROVE IInv'
  <2>1. PICK new \in Nat : new >= cap[v] /\ Grow(v, new)
    <3>1. PICK add \in 1 .. MaxCap :
            \/ \E part \in {2, 4} : Grow(v, Reserved(cap[v], len[v], add, part))
            \/ Grow(v, ReservedExact(cap[v], len[v], add))
      BY <1>3 DEF Reserve
    <3>2. cap[v] \in Nat /\ len[v] \in 0 .. cap[v] /\ add \in Nat
      BY <1>3 DEF Reserve, TypeOK, Stored
    <3>3. ReservedExact(cap[v], len[v], add) \in Nat /\ ReservedExact(cap[v], len[v], add) >= cap[v]
      BY <3>2 DEF ReservedExact
    <3>4. ASSUME NEW part \in {2, 4}
          PROVE  /\ Reserved(cap[v], len[v], add, part) \in Nat
                 /\ Reserved(cap[v], len[v], add, part) >= cap[v]
      BY <3>2, ReservedEnough
    <3> QED
      BY <3>1, <3>3, <3>4
  <2>2. TypeOK'
    BY <1>3, <2>1, GrowFacts DEF Reserve, TypeOK
  <2>3. ASSUME NEW u \in VecId PROVE Stored(u)'
    <3>1. CASE u = v
      BY <1>3, <2>1, <3>1, GrowFacts DEF Reserve, TypeOK, Stored
    <3>2. CASE u # v
      BY <1>3, <2>1, <3>2, GrowFacts DEF Reserve, Stored
    <3> QED
      BY <3>1, <3>2
  <2> QED
    BY <2>2, <2>3
<1>4. ASSUME NEW v \in VecId, Push(v) PROVE IInv'
  <2>1. PICK new \in Nat : new >= len[v] + 1 /\ new >= cap[v] /\ Grow(v, new)
    <3>1. cap[v] \in Nat /\ len[v] \in 0 .. cap[v]
      BY <1>4 DEF Push, TypeOK, Stored
    <3>2. /\ Reserved(cap[v], len[v], 1, 2) \in Nat
          /\ Reserved(cap[v], len[v], 1, 2) >= cap[v]
          /\ Reserved(cap[v], len[v], 1, 2) >= len[v] + 1
      BY <3>1, ReservedEnough
    <3> QED
      BY <1>4, <3>2 DEF Push
  <2>2. len[v] \in Slot
    BY <2>1 DEF Grow, Slot, TypeOK
  <2>3. TypeOK'
    BY <1>4, <2>1, GrowFacts DEF Push, TypeOK
  <2>4. ASSUME NEW u \in VecId PROVE Stored(u)'
    <3>1. CASE u = v
      BY <1>4, <2>1, <2>2, <3>1, GrowFacts DEF Push, TypeOK, Stored, Slot
    <3>2. CASE u # v
      BY <1>4, <2>1, <3>2, GrowFacts DEF Push, TypeOK, Stored
    <3> QED
      BY <3>1, <3>2
  <2> QED
    BY <2>3, <2>4
<1>5. ASSUME NEW v \in VecId, Pop(v) PROVE IInv'
  <2>1. TypeOK'
    BY <1>5 DEF Pop, TypeOK, Stored, Slot
  <2>2. ASSUME NEW u \in VecId PROVE Stored(u)'
    BY <1>5 DEF Pop, TypeOK, Stored, Slot
  <2> QED
    BY <2>1, <2>2
<1>6. ASSUME NEW v \in VecId, Truncate(v) PROVE IInv'
  <2>1. TypeOK'
    BY <1>6, DropAllCounts DEF Truncate, TypeOK
  <2>2. ASSUME NEW u \in VecId PROVE Stored(u)'
    BY <1>6 DEF Truncate, TypeOK, Stored, Slot
  <2> QED
    BY <2>1, <2>2
<1>7. ASSUME NEW v \in VecId, Destroy(v) PROVE IInv'
  <2>1. TypeOK'
    BY <1>7, DropAllCounts DEF Destroy, TypeOK, Empty
  <2>2. ASSUME NEW u \in VecId PROVE Stored(u)'
    BY <1>7 DEF Destroy, TypeOK, Stored, Empty
  <2> QED
    BY <2>1, <2>2
<1>8. ASSUME NEW v \in VecId, NEW w \in VecId, Append(v, w) PROVE IInv'
  <2>1. PICK new \in Nat : new >= len[v] + len[w] /\ new >= cap[v] /\ Grow(v, new)
    <3>1. cap[v] \in Nat /\ len[v] \in 0 .. cap[v] /\ len[w] \in Nat
      BY <1>8 DEF Append, TypeOK, Stored
    <3>2. /\ Reserved(cap[v], len[v], len[w], 2) \in Nat
          /\ Reserved(cap[v], len[v], len[w], 2) >= cap[v]
          /\ Reserved(cap[v], len[v], len[w], 2) >= len[v] + len[w]
      BY <3>1, ReservedEnough
    <3> QED
      BY <1>8, <3>2 DEF Append
  <2>2. TypeOK'
    <3>1. slots' \in [VecId -> [Slot -> Elem \cup {Junk}]]
      <4> DEFINE joined == [i \in Slot |->
            IF i >= len[v] /\ i < len[v] + len[w] THEN slots[w][i - len[v]] ELSE slots[v][i]]
      <4>1. len[v] \in 0 .. MaxCap /\ len[w] \in 0 .. MaxCap
        BY DEF TypeOK
      <4>2. \A i \in Slot : i >= len[v] /\ i < len[v] + len[w] => i - len[v] \in Slot
        BY <4>1 DEF Slot
      <4>3. joined \in [Slot -> Elem \cup {Junk}] /\ Empty \in [Slot -> Elem \cup {Junk}]
        BY <4>2 DEF TypeOK, Empty
      <4>4. slots' = [slots EXCEPT ![v] = joined, ![w] = Empty]
        BY <1>8 DEF Append
      <4> QED
        BY <4>3, <4>4 DEF TypeOK
    <3>2. len' \in [VecId -> 0 .. MaxCap]
      BY <1>8, <2>1, GrowFacts DEF Append, TypeOK
    <3> QED
      BY <1>8, <2>1, <3>1, <3>2, GrowFacts DEF Append, TypeOK
  <2>3. ASSUME NEW u \in VecId PROVE Stored(u)'
    <3>1. CASE u = v
      BY <1>8, <2>1, <3>1, GrowFacts DEF Append, TypeOK, Stored, Slot
    <3>2. CASE u = w
      BY <1>8, <2>1, <3>2, GrowFacts DEF Append, TypeOK, Stored, Empty, Slot
    <3>3. CASE u # v /\ u # w
      BY <1>8, <2>1, <3>3, GrowFacts DEF Append, TypeOK, Stored
    <3> QED
      BY <3>1, <3>2, <3>3
  <2> QED
    BY <2>2, <2>3
<1>9. ASSUME NEW v \in VecId, NEW w \in VecId, Move(v, w) PROVE IInv'
  <2>1. TypeOK'
    BY <1>9 DEF Move, TypeOK, Empty
  <2>2. ASSUME NEW u \in VecId PROVE Stored(u)'
    BY <1>9 DEF Move, TypeOK, Stored, Empty, Slot
  <2> QED
    BY <2>1, <2>2
<1>10. CASE UNCHANGED vars
  BY <1>10 DEF vars, TypeOK, Stored
<1> QED
  BY <1>1, <1>2, <1>3, <1>4, <1>5, <1>6, <1>7, <1>8, <1>9, <1>10 DEF Next

-----------------------------------------------------------------------------
\* The elements are typed: what is in a slot is an element, or Junk.
LEMMA SlotFacts ==
  ASSUME IInv, NEW v \in VecId, NEW i \in Slot
  PROVE  /\ i \in Nat /\ len[v] \in Nat
         /\ slots[v][i] # Junk => slots[v][i] \in Elem
         /\ slots[v][i] # Junk => i < len[v]
BY VecAssumption DEF IInv, TypeOK, Stored, Slot

\* The elements that truncate(0) and the destructor of a vector destroy are
\* those in its slots.
LEMMA DropAllDestroys ==
  ASSUME IInv, NEW v \in VecId, st[v] = "alive", len[v] > 0, DropAll(v)
  PROVE  \A e \in Elem : drops'[e] =
           IF ~Trivial /\ \E i \in Slot : slots[v][i] = e THEN drops[e] + 1 ELSE drops[e]
<1>1. mem[v]
  BY DEF IInv, TypeOK, Stored
<1>2. ASSUME NEW e \in Elem
      PROVE  e \in Within(v, len[v]) <=> \E i \in Slot : slots[v][i] = e
  BY SlotFacts, VecAssumption DEF Within
<1> QED
  BY <1>1, <1>2, DropAllCounts DEF IInv

\* When every vector loses its elements to nobody, or keeps them, the rest
\* stays in one place.
LEMMA DroppedStays ==
  ASSUME IInv, InOnePlace, NEW v \in VecId, st[v] = "alive", len[v] > 0, DropAll(v),
         held' = held,
         slots' = [slots EXCEPT ![v] = [i \in Slot |-> Junk]]
  PROVE  InOnePlace'
<1>1. ASSUME NEW e \in Elem
      PROVE  drops'[e] <= 1 /\ (drops'[e] = 1 => e \notin held')
  <2>1. CASE \E i \in Slot : slots[v][i] = e
    BY <2>1, DropAllDestroys, VecAssumption DEF IInv, TypeOK, InOnePlace
  <2>2. CASE ~ \E i \in Slot : slots[v][i] = e
    BY <2>2, DropAllDestroys DEF InOnePlace
  <2> QED
    BY <2>1, <2>2
<1>2. ASSUME NEW u \in VecId, NEW w \in VecId, NEW i \in Slot, NEW k \in Slot, slots'[u][i] # Junk
      PROVE  /\ slots'[u][i] = slots'[w][k] => u = w /\ i = k
             /\ slots'[u][i] \notin held'
             /\ drops'[slots'[u][i]] = 0
  <2>1. u # v /\ slots'[u][i] = slots[u][i] /\ slots[u][i] \in Elem
    BY <1>2, SlotFacts DEF IInv, TypeOK
  <2>2. slots'[u][i] = slots'[w][k] => u = w /\ i = k
    BY <1>2, <2>1 DEF IInv, TypeOK, InOnePlace
  <2>3. ~ \E j \in Slot : slots[v][j] = slots[u][i]
    BY <1>2, <2>1 DEF InOnePlace
  <2> QED
    BY <1>2, <2>1, <2>2, <2>3, DropAllDestroys DEF InOnePlace
<1> QED
  BY <1>1, <1>2 DEF InOnePlace

\* Nothing is in two places because some elements have left their slots.
LEMMA FewerStay ==
  ASSUME IInv, InOnePlace, held' = held, \A e \in Elem : drops'[e] = drops[e],
         \A u \in VecId : \A i \in Slot : slots'[u][i] = slots[u][i] \/ slots'[u][i] = Junk
  PROVE  InOnePlace'
<1>1. \A u \in VecId : \A i \in Slot : slots[u][i] # Junk => slots[u][i] \in Elem
  BY SlotFacts
<1> QED
  BY <1>1 DEF InOnePlace

\* Every step leaves a value in one place only.
LEMMA NextInOnePlace ==
  ASSUME Trivial \/ TruncateTo \subseteq {0}, IInv, InOnePlace, [Next]_vars
  PROVE  InOnePlace'
<1> USE VecAssumption DEF IInv, TypeOK
<1>1. ASSUME UNCHANGED <<slots, held, drops>> PROVE InOnePlace'
  BY <1>1 DEF InOnePlace
<1>2. ASSUME NEW v \in VecId, New(v) \/ WithCapacity(v) \/ Reserve(v) PROVE InOnePlace'
  BY <1>1, <1>2 DEF New, WithCapacity, Reserve
<1>3. ASSUME NEW v \in VecId, Push(v) PROVE InOnePlace'
  <2>1. PICK e \in held :
          /\ held' = held \ {e}
          /\ slots' = [slots EXCEPT ![v] = [i \in Slot |-> IF i = len[v] THEN e ELSE slots[v][i]]]
    BY <1>3 DEF Push
  <2>2. drops' = drops /\ e \in Elem /\ drops[e] = 0
    <3>1. e \in Elem /\ drops[e] \in Nat
      OBVIOUS
    <3>2. drops[e] <= 1 /\ drops[e] # 1
      BY <3>1 DEF InOnePlace
    <3> HIDE DEF IInv, TypeOK
    <3> QED
      BY <1>3, <3>1, <3>2 DEF Push
  <2>3. \A u \in VecId : \A i \in Slot : slots[u][i] # e
    BY <2>2 DEF InOnePlace
  <2>4. \A u \in VecId : \A i \in Slot : slots'[u][i] = IF u = v /\ i = len[v] THEN e ELSE slots[u][i]
    <3>1. slots \in [VecId -> [Slot -> Elem \cup {Junk}]]
      OBVIOUS
    <3> HIDE DEF IInv, TypeOK
    <3> QED
      BY <2>1, <3>1
  <2> HIDE DEF TypeOK, IInv
  <2> QED
    BY <2>1, <2>2, <2>3, <2>4 DEF InOnePlace
<1>4. ASSUME NEW v \in VecId, Pop(v) PROVE InOnePlace'
  <2>1. len[v] - 1 \in Slot /\ slots[v][len[v] - 1] \in Elem
    BY <1>4 DEF Pop, Stored, Slot
  <2>2. \A u \in VecId : \A i \in Slot : slots'[u][i] = IF u = v /\ i = len[v] - 1 THEN Junk ELSE slots[u][i]
    BY <1>4 DEF Pop
  <2>3. held' = held \cup {slots[v][len[v] - 1]} /\ drops' = drops
    BY <1>4 DEF Pop
  <2> HIDE DEF TypeOK, IInv
  <2> QED
    BY <2>1, <2>2, <2>3 DEF InOnePlace
<1>5. ASSUME NEW v \in VecId, Truncate(v) PROVE InOnePlace'
  <2>1. PICK n \in TruncateTo :
          /\ n < len[v]
          /\ slots' = [slots EXCEPT ![v] = [i \in Slot |-> IF i < n THEN slots[v][i] ELSE Junk]]
    BY <1>5 DEF Truncate
  <2>2. held' = held /\ st[v] = "alive" /\ DropAll(v)
    BY <1>5 DEF Truncate
  <2>3. CASE Trivial
    <3>1. \A e \in Elem : drops'[e] = drops[e]
      BY <2>2, <2>3, DropAllCounts
    <3>2. \A u \in VecId : \A i \in Slot : slots'[u][i] = slots[u][i] \/ slots'[u][i] = Junk
      BY <2>1
    <3> QED
      BY <2>2, <3>1, <3>2, FewerStay
  <2>4. CASE TruncateTo \subseteq {0}
    <3>1. n = 0 /\ len[v] > 0 /\ \A i \in Slot : ~ i < n
      BY <2>1, <2>4 DEF Slot
    <3>2. slots' = [slots EXCEPT ![v] = [i \in Slot |-> Junk]]
      BY <2>1, <3>1
    <3> QED
      BY <2>2, <3>1, <3>2, DroppedStays
  <2> QED
    BY <2>3, <2>4
<1>6. ASSUME NEW v \in VecId, Destroy(v) PROVE InOnePlace'
  <2>1. held' = held /\ slots' = [slots EXCEPT ![v] = [i \in Slot |-> Junk]]
    BY <1>6 DEF Destroy, Empty
  <2>2. CASE st[v] = "alive" /\ len[v] > 0
    BY <1>6, <2>1, <2>2, DroppedStays DEF Destroy
  <2>3. CASE ~(st[v] = "alive" /\ len[v] > 0)
    <3>1. \A i \in Slot : slots[v][i] = Junk
      BY <1>6, <2>3, SlotFacts DEF Destroy, Stored
    <3>2. \A e \in Elem : e \notin Within(v, len[v])
      BY <3>1 DEF Within
    <3>3. \A e \in Elem : drops'[e] = drops[e]
      BY <1>6, <3>2, DropAllCounts DEF Destroy
    <3>4. \A u \in VecId : \A i \in Slot : slots'[u][i] = slots[u][i] \/ slots'[u][i] = Junk
      BY <2>1
    <3> QED
      BY <2>1, <3>3, <3>4, FewerStay
  <2> QED
    BY <2>2, <2>3
<1>7. ASSUME NEW v \in VecId, NEW w \in VecId, Append(v, w) PROVE InOnePlace'
  <2>1. v # w /\ len[v] \in Nat /\ len[w] \in Nat
        /\ st[v] = "alive" /\ st[w] = "alive"
    BY <1>7 DEF Append
  <2>2. \A u \in VecId : \A i \in Slot :
          slots'[u][i] = IF u = v /\ i >= len[v] /\ i < len[v] + len[w] THEN slots[w][i - len[v]]
                         ELSE IF u = w THEN Junk ELSE slots[u][i]
    BY <1>7, <2>1 DEF Append, Empty
  <2>3. \A i \in Slot : i \in Nat /\ (i >= len[v] /\ i < len[v] + len[w] => i - len[v] \in Slot)
    BY <2>1 DEF Slot
  <2>4. UNCHANGED <<held, drops>>
    BY <1>7 DEF Append
  <2> HIDE DEF TypeOK, IInv
  <2> QED
    BY <2>1, <2>2, <2>3, <2>4 DEF InOnePlace
<1>8. ASSUME NEW v \in VecId, NEW w \in VecId, Move(v, w) PROVE InOnePlace'
  <2>1. v # w /\ \A i \in Slot : slots[w][i] = Junk
    BY <1>8 DEF Move, Stored
  <2>2. \A u \in VecId : \A i \in Slot :
          slots'[u][i] = IF u = v THEN Junk ELSE IF u = w THEN slots[v][i] ELSE slots[u][i]
    BY <1>8, <2>1 DEF Move, Empty
  <2>3. UNCHANGED <<held, drops>>
    BY <1>8 DEF Move
  <2> HIDE DEF TypeOK, IInv
  <2> QED
    BY <2>1, <2>2, <2>3 DEF InOnePlace
<1> QED
  BY <1>1, <1>2, <1>3, <1>4, <1>5, <1>6, <1>7, <1>8 DEF Next, vars

-----------------------------------------------------------------------------
\* Where an element is: with the caller, destroyed, or in a vector.
Somewhere(e) ==
  e \in held \/ drops[e] > 0 \/ \E v \in VecId : st[v] = "alive" /\ \E i \in Slot : slots[v][i] = e

\* A destructor counts an element once more, or not: never less.
LEMMA DropsGrow ==
  ASSUME TypeOK, NEW v \in VecId, NEW e \in Elem, drops[e] > 0, DropAll(v)
  PROVE  drops'[e] > 0
BY DropAllCounts DEF TypeOK

\* No step leaves a value out of every place before it was destroyed.
LEMMA NextNoElementLost ==
  ASSUME ~Trivial, IInv, NoElementLost, [Next]_vars
  PROVE  NoElementLost'
<1> SUFFICES ASSUME NEW e \in Elem PROVE Somewhere(e)'
  BY DEF NoElementLost, Somewhere
<1>0. Somewhere(e)
  BY DEF NoElementLost, Somewhere
<1> USE VecAssumption DEF IInv
<1>1. ASSUME UNCHANGED <<slots, held, drops>>, \A v \in VecId : st[v] = "alive" => st'[v] = "alive"
      PROVE  Somewhere(e)'
  BY <1>0, <1>1 DEF Somewhere
<1>2. ASSUME NEW v \in VecId, New(v) \/ WithCapacity(v) \/ Reserve(v) PROVE Somewhere(e)'
  <2>1. \A u \in VecId : st[u] = "alive" => st'[u] = "alive"
    BY <1>2 DEF New, WithCapacity, Reserve, TypeOK
  <2> QED
    BY <1>1, <1>2, <2>1 DEF New, WithCapacity, Reserve
<1>3. ASSUME NEW v \in VecId, Push(v) PROVE Somewhere(e)'
  <2>1. PICK x \in held :
          /\ held' = held \ {x}
          /\ slots' = [slots EXCEPT ![v] = [i \in Slot |-> IF i = len[v] THEN x ELSE slots[v][i]]]
    BY <1>3 DEF Push
  <2>2. st' = st /\ st[v] = "alive" /\ drops' = drops
    BY <1>3 DEF Push
  <2>3. len[v] \in Slot /\ slots[v][len[v]] = Junk
    <3>1. TypeOK'
      BY <1>3, NextIInv DEF Next
    <3>2. len'[v] = len[v] + 1 /\ len'[v] \in 0 .. MaxCap /\ len[v] \in Nat
      BY <1>3, <3>1 DEF Push, TypeOK
    <3>3. len[v] \in Slot
      BY <3>2 DEF Slot
    <3> QED
      BY <1>3, <3>2, <3>3 DEF Push, Stored
  <2>4. \A u \in VecId : \A i \in Slot : slots'[u][i] = IF u = v /\ i = len[v] THEN x ELSE slots[u][i]
    BY <2>1 DEF TypeOK
  <2> QED
    BY <1>0, <2>1, <2>2, <2>3, <2>4 DEF Somewhere
<1>4. ASSUME NEW v \in VecId, Pop(v) PROVE Somewhere(e)'
  <2>1. \A u \in VecId : \A i \in Slot : slots'[u][i] = IF u = v /\ i = len[v] - 1 THEN Junk ELSE slots[u][i]
    BY <1>4 DEF Pop, TypeOK
  <2>2. st' = st /\ drops' = drops /\ held' = held \cup {slots[v][len[v] - 1]}
    BY <1>4 DEF Pop
  <2> QED
    BY <1>0, <2>1, <2>2 DEF Somewhere
<1>5. ASSUME NEW v \in VecId, NEW i \in Slot, st[v] = "alive", slots[v][i] = e, DropAll(v)
      PROVE  drops'[e] > 0
  <2>1. len[v] > 0 /\ drops[e] \in Nat
    BY <1>5, SlotFacts DEF TypeOK
  <2> QED
    BY <1>5, <2>1, DropAllDestroys
<1>6. ASSUME NEW v \in VecId, Truncate(v) PROVE Somewhere(e)'
  <2>1. st' = st /\ held' = held /\ DropAll(v) /\ st[v] = "alive"
    BY <1>6 DEF Truncate
  <2>2. \A u \in VecId \ {v} : slots'[u] = slots[u]
    BY <1>6 DEF Truncate, TypeOK
  <2> QED
    BY <1>0, <1>5, <2>1, <2>2, DropsGrow DEF Somewhere
<1>7. ASSUME NEW v \in VecId, Destroy(v) PROVE Somewhere(e)'
  <2>1. held' = held /\ \A u \in VecId \ {v} : slots'[u] = slots[u] /\ st'[u] = st[u]
    BY <1>7 DEF Destroy, TypeOK
  <2>2. drops[e] > 0 => drops'[e] > 0
    BY <1>7, DropsGrow DEF Destroy
  <2>3. ASSUME NEW i \in Slot, st[v] = "alive", slots[v][i] = e PROVE drops'[e] > 0
    <3>1. len[v] > 0
      BY <2>3, SlotFacts
    <3> QED
      BY <1>5, <1>7, <2>3, <3>1 DEF Destroy
  <2> QED
    BY <1>0, <2>1, <2>2, <2>3 DEF Somewhere
<1>8. ASSUME NEW v \in VecId, NEW w \in VecId, Append(v, w) PROVE Somewhere(e)'
  <2>1. /\ v # w /\ st' = st /\ st[v] = "alive"
        /\ UNCHANGED <<held, drops>>
    BY <1>8 DEF Append
  <2>2. \A u \in VecId : \A i \in Slot :
          slots'[u][i] = IF u = v /\ i >= len[v] /\ i < len[v] + len[w] THEN slots[w][i - len[v]]
                         ELSE IF u = w THEN Junk ELSE slots[u][i]
    BY <1>8, <2>1 DEF Append, Empty, TypeOK
  <2>3. ASSUME NEW i \in Slot, slots[v][i] = e PROVE slots'[v][i] = e
    <3>1. i \in Nat /\ i < len[v] /\ len[v] \in Nat
      BY <2>3, SlotFacts
    <3> QED
      BY <2>1, <2>2, <2>3, <3>1
  <2>4. ASSUME NEW i \in Slot, slots[w][i] = e
        PROVE  i + len[v] \in Slot /\ slots'[v][i + len[v]] = e
    <3>1. i \in Nat /\ i < len[w] /\ len[v] \in Nat /\ len[w] \in Nat
      BY <2>4, SlotFacts DEF TypeOK
    <3>2. len'[v] \in 0 .. MaxCap /\ len'[v] = len[v] + len[w]
      BY <1>8, NextIInv DEF Append, TypeOK, Next
    <3>3. i + len[v] \in Slot
      BY <3>1, <3>2 DEF Slot
    <3> QED
      BY <2>1, <2>2, <2>4, <3>1, <3>3
  <2> QED
    BY <1>0, <2>1, <2>2, <2>3, <2>4 DEF Somewhere
<1>9. ASSUME NEW v \in VecId, NEW w \in VecId, Move(v, w) PROVE Somewhere(e)'
  <2>1. v # w /\ \A i \in Slot : slots[w][i] = Junk
    BY <1>9 DEF Move, Stored
  <2>2. slots'[w] = slots[v] /\ \A u \in VecId \ {v, w} : slots'[u] = slots[u]
    BY <1>9, <2>1 DEF Move, TypeOK
  <2>3. st'[w] = "alive" /\ \A u \in VecId \ {v, w} : st'[u] = st[u]
    BY <1>9, <2>1 DEF Move, TypeOK
  <2>4. UNCHANGED <<held, drops>>
    BY <1>9 DEF Move
  <2> QED
    BY <1>0, <2>1, <2>2, <2>3, <2>4 DEF Somewhere
<1> QED
  BY <1>1, <1>2, <1>3, <1>4, <1>6, <1>7, <1>8, <1>9 DEF Next, vars

\* While no vector is moved from that has elements, a vector that was moved
\* from has no length left.
LEMMA NextMovedEmpty ==
  ASSUME ~MovesValues, IInv, MovedEmpty, [Next]_vars
  PROVE  MovedEmpty'
<1> USE DEF IInv, TypeOK, MovedEmpty
<1>1. ASSUME NEW v \in VecId, New(v) \/ WithCapacity(v) \/ Reserve(v) PROVE MovedEmpty'
  BY <1>1 DEF New, WithCapacity, Reserve
<1>2. ASSUME NEW v \in VecId, Push(v) \/ Pop(v) \/ Truncate(v) \/ Destroy(v) PROVE MovedEmpty'
  BY <1>2 DEF Push, Pop, Truncate, Destroy
<1>3. ASSUME NEW v \in VecId, NEW w \in VecId, Append(v, w) PROVE MovedEmpty'
  BY <1>3 DEF Append
<1>4. ASSUME NEW v \in VecId, NEW w \in VecId, Move(v, w) PROVE MovedEmpty'
  BY <1>4 DEF Move
<1>5. CASE UNCHANGED vars
  BY <1>5 DEF vars
<1> QED
  BY <1>1, <1>2, <1>3, <1>4, <1>5 DEF Next

\* A vector that is alive and has elements has memory: its loop of destructors
\* runs on elements that are there.
LEMMA NextNoNullDrop ==
  ASSUME IInv, MovedEmpty, NoNullDrop, [Next]_vars
  PROVE  NoNullDrop'
<1>1. ASSUME NEW v \in VecId, st[v] = "alive", len[v] > 0, DropAll(v) PROVE NoNullDrop'
  <2>1. mem[v]
    BY <1>1 DEF IInv, TypeOK, Stored
  <2> QED
    BY <1>1, <2>1, DropAllCounts DEF IInv, NoNullDrop
<1>2. ASSUME UNCHANGED nullDrop PROVE NoNullDrop'
  BY <1>2 DEF NoNullDrop
<1>3. ASSUME NEW v \in VecId, Truncate(v) PROVE NoNullDrop'
  <2>1. len[v] > 0
    BY <1>3, VecAssumption DEF Truncate, IInv, TypeOK
  <2> QED
    BY <1>1, <1>3, <2>1 DEF Truncate
<1>4. ASSUME NEW v \in VecId, Destroy(v) PROVE NoNullDrop'
  <2>1. CASE len[v] > 0
    BY <1>1, <1>4, <2>1 DEF Destroy, MovedEmpty
  <2>2. CASE ~(len[v] > 0)
    BY <1>2, <1>4, <2>2 DEF Destroy
  <2> QED
    BY <2>1, <2>2
<1>5. ASSUME NEW v \in VecId, \/ New(v) \/ WithCapacity(v) \/ Reserve(v) \/ Push(v) \/ Pop(v)
                              \/ \E w \in VecId : Append(v, w) \/ Move(v, w)
      PROVE  NoNullDrop'
  BY <1>2, <1>5 DEF New, WithCapacity, Reserve, Push, Pop, Append, Move
<1>6. CASE UNCHANGED vars
  BY <1>2, <1>6 DEF vars
<1> QED
  BY <1>3, <1>4, <1>5, <1>6 DEF Next

-----------------------------------------------------------------------------
\* The elements of a vector are in the first slots of memory that it owns,
\* through every growth, append and move: the inductive invariant.
THEOREM VecInvariant == Spec => []IInv
<1>1. IInv /\ [Next]_vars => IInv'
  BY NextIInv
<1> QED
  BY InitIInv, <1>1, PTL DEF Spec

\* No operation of vec.h writes or reads a slot past an allocation, whatever
\* the alignment and the sizes are.
THEOREM VecMemoryHoldsElements == Spec => []MemoryHoldsElements
<1>1. IInv => MemoryHoldsElements
  BY DEF IInv, Stored, MemoryHoldsElements
<1> QED
  BY <1>1, VecInvariant, PTL

\* An element is in one slot of one vector, or with the caller, or destroyed,
\* once: for elements without a destructor, or for vectors that are cleared
\* and destroyed but not truncated to a length above 0, where the loop of
\* truncate destroys also what stays.
THEOREM VecInOnePlace ==
  ASSUME Trivial \/ TruncateTo \subseteq {0}
  PROVE  Spec => []InOnePlace
<1>1. Init => InOnePlace
  BY DEF Init, InOnePlace, Empty
<1>2. IInv /\ InOnePlace /\ [Next]_vars => InOnePlace'
  BY NextInOnePlace
<1> QED
  BY <1>1, <1>2, VecInvariant, PTL DEF Spec

\* An element that has a destructor is never forgotten: it is with the caller,
\* in a vector that is alive, or its destructor has run.
THEOREM VecNoElementLost ==
  ASSUME ~Trivial
  PROVE  Spec => []NoElementLost
<1>1. Init => NoElementLost
  BY DEF Init, NoElementLost
<1>2. IInv /\ NoElementLost /\ [Next]_vars => NoElementLost'
  BY NextNoElementLost
<1> QED
  BY <1>1, <1>2, VecInvariant, PTL DEF Spec

\* As long as no vector is moved from that has elements, no destructor runs at
\* a null address: the length that the defaulted move leaves in its source is
\* the only cause of one.
THEOREM VecNoNullDrop ==
  ASSUME ~MovesValues
  PROVE  Spec => []NoNullDrop
<1>1. Init => MovedEmpty /\ NoNullDrop
  BY DEF Init, MovedEmpty, NoNullDrop
<1>2. IInv /\ MovedEmpty /\ NoNullDrop /\ [Next]_vars => (MovedEmpty /\ NoNullDrop)'
  BY NextMovedEmpty, NextNoNullDrop
<1> QED
  BY <1>1, <1>2, VecInvariant, PTL DEF Spec
=============================================================================
