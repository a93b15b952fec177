---------------------------- MODULE LibraryProofs ----------------------------
(***************************************************************************)
(* Proofs about the parts of the library that MCLibrary checks, for every  *)
(* value of their constants.                                               *)
(*                                                                         *)
(* BinaryHeap: between the calls the vector is a heap, and it is a         *)
(* priority queue.  The inductive invariant is IInv of the module: TypeOK, *)
(* and OrderedButOne, which says what the two loops leave in order around  *)
(* the node they are at.                                                   *)
(*                                                                         *)
(* Library: nothing has an owner too many or too few, reads give what      *)
(* stands in the file, nobody loses content who did not ask for it, a path *)
(* is a stack of names, and a view of an array shows what it should.  The  *)
(* inductive invariant is LibraryInv: OptionInv, the count of the owners   *)
(* of each resource and the tags of what has one; FilesInv, the            *)
(* descriptors that are open, one for each File that has one, and what a   *)
(* read that runs has read; that a path is made of characters; and         *)
(* ViewInv, the rank of a view and the cell that each of its addresses is. *)
(*                                                                         *)
(* Queries: texts, characters and tests are found where they are, numbers  *)
(* and times are read back and come back, and the vector of a list stays   *)
(* in its block.  QueriesInv says that an answer is what the call makes of *)
(* its input; the lemmas say what each call makes of every input: how far  *)
(* the fingers of a searcher go, what the folds over the masks choose, how *)
(* rests are added, and, by induction on how many digits a number has,     *)
(* that the digits that are written of it have its value.                  *)
(***************************************************************************)
EXTENDS BinaryHeap, Library, Queries, Sequences, FiniteSetTheorems, NaturalsInduction, TLAPS

(***************************************************************************)
(* BinaryHeap                                                              *)
(***************************************************************************)

\* The tree in the vector: a node other than the top has a root before it,
\* and is the left or the right child of that root.
LEMMA RootBefore ==
  ASSUME NEW i \in Nat, i > 0
  PROVE  /\ Root(i) \in Nat
         /\ Root(i) < i
         /\ i = Left(Root(i)) \/ i = Right(Root(i))
BY DEF Root, Left, Right

\* The children of a node have that node as their root.
LEMMA ChildrenOfRoot ==
  ASSUME NEW i \in Nat
  PROVE  Root(Left(i)) = i /\ Root(Right(i)) = i /\ Left(i) \in Nat /\ Right(i) \in Nat
BY DEF Root, Left, Right

\* What a swap of two elements leaves where.
LEMMA SwapFacts ==
  ASSUME TypeOK, NEW i \in 0 .. len - 1, NEW k \in 0 .. len - 1, vec' = Swapped(i, k)
  PROVE  /\ vec' \in [0 .. len - 1 -> Value]
         /\ vec'[i] = vec[k]
         /\ vec'[k] = vec[i]
         /\ \A j \in 0 .. len - 1 : j # i /\ j # k => vec'[j] = vec[j]
BY DEF TypeOK, Swapped

\* The values are integers: they are compared by a total order.
LEMMA VecInt ==
  ASSUME TypeOK
  PROVE  len \in Nat /\ \A j \in 0 .. len - 1 : vec[j] \in Int
BY ValueAssumption DEF TypeOK

\* push puts the value at the end, where only its parent may be below it.
LEMMA PushStep ==
  ASSUME IInv, Push
  PROVE  IInv'
<1>1. TypeOK'
  BY DEF IInv, TypeOK, Push
<1>2. len \in Nat /\ len' = len + 1 /\ pc' = "up" /\ idx' = len
  BY DEF IInv, TypeOK, Push
<1>3. \A j \in 0 .. len - 1 : vec'[j] = vec[j]
  BY <1>2 DEF IInv, TypeOK, Push
<1>4. \A i \in 1 .. len - 1 : vec[Root(i)] <= vec[i]
  BY DEF IInv, OrderedButOne, Push
<1>5. ASSUME NEW i \in 1 .. len' - 1, i # idx'
      PROVE  vec'[Root(i)] <= vec'[i]
  BY <1>2, <1>3, <1>4, <1>5, RootBefore
<1>6. ASSUME NEW i \in 1 .. len' - 1, Root(i) = idx'
      PROVE  FALSE
  BY <1>2, <1>6, RootBefore
<1> QED BY <1>1, <1>2, <1>5, <1>6 DEF IInv, OrderedButOne

\* pop moves the last value to the root, where only its children may be above it.
LEMMA PopStep ==
  ASSUME IInv, Pop
  PROVE  IInv'
<1>1. len \in Nat /\ len > 0 /\ len' = len - 1 /\ pc' = "down" /\ idx' = 0
  BY DEF IInv, TypeOK, Pop
<1>2. /\ vec' \in [0 .. len' - 1 -> Value]
      /\ \A j \in 1 .. len' - 1 : vec'[j] = vec[j]
  BY <1>1 DEF IInv, TypeOK, Pop
<1>3. TypeOK'
  BY <1>1, <1>2 DEF IInv, TypeOK, Pop
<1>4. \A i \in 1 .. len - 1 : vec[Root(i)] <= vec[i]
  BY DEF IInv, OrderedButOne, Pop
<1>5. ASSUME NEW i \in 1 .. len' - 1, Root(i) # idx'
      PROVE  vec'[Root(i)] <= vec'[i]
  <2>1. Root(i) \in 1 .. len' - 1
    BY <1>1, <1>5, RootBefore
  <2> QED BY <1>1, <1>2, <1>4, <2>1
<1> QED BY <1>1, <1>3, <1>5 DEF IInv, OrderedButOne

\* A turn of shift_up moves the one place where the order may be broken to the parent.
LEMMA ShiftUpStep ==
  ASSUME IInv, ShiftUp
  PROVE  IInv'
<1>1. /\ pc = "up" /\ len' = len /\ res' = res
      /\ len \in Nat /\ idx \in Nat /\ idx < len
  BY DEF IInv, TypeOK, ShiftUp
<1>2. \A i \in 1 .. len - 1 : i # idx => vec[Root(i)] <= vec[i]
  BY <1>1 DEF IInv, OrderedButOne
<1>3. idx > 0 => \A i \in 1 .. len - 1 : Root(i) = idx => vec[Root(idx)] <= vec[i]
  BY <1>1 DEF IInv, OrderedButOne
<1>4. \A j \in 0 .. len - 1 : vec[j] \in Int
  BY VecInt DEF IInv
<1>5. CASE idx > 0 /\ ~(vec[Root(idx)] <= vec[idx])
  <2> DEFINE r == Root(idx)
  <2>1. vec' = Swapped(idx, r) /\ idx' = r /\ pc' = "up"
    BY <1>1, <1>5 DEF ShiftUp
  <2>2. r \in 0 .. len - 1 /\ r < idx /\ idx \in 0 .. len - 1
    BY <1>1, <1>5, RootBefore
  <2>3. /\ vec' \in [0 .. len - 1 -> Value]
        /\ vec'[idx] = vec[r]
        /\ vec'[r] = vec[idx]
        /\ \A j \in 0 .. len - 1 : j # idx /\ j # r => vec'[j] = vec[j]
    BY <2>1, <2>2, SwapFacts DEF IInv
  <2>4. vec[idx] <= vec[r]
    BY <1>4, <1>5, <2>2
  <2> HIDE DEF r
  <2>5. TypeOK'
    BY <1>1, <2>1, <2>2, <2>3 DEF IInv, TypeOK
  <2>6. ASSUME NEW i \in 1 .. len - 1, i # r
        PROVE  vec'[Root(i)] <= vec'[i]
    <3>1. Root(i) \in 0 .. len - 1 /\ Root(i) < i /\ i \in 0 .. len - 1
      BY <1>1, RootBefore
    <3>2. CASE i = idx
      BY <2>3, <2>4, <3>2 DEF r
    <3>3. CASE i # idx /\ Root(i) = r
      BY <1>2, <1>4, <2>2, <2>3, <2>4, <2>6, <3>1, <3>3
    <3>4. CASE i # idx /\ Root(i) = idx
      BY <1>3, <1>5, <2>2, <2>3, <2>6, <3>1, <3>4 DEF r
    <3>5. CASE i # idx /\ Root(i) # r /\ Root(i) # idx
      BY <1>2, <2>3, <2>6, <3>1, <3>5
    <3> QED BY <3>2, <3>3, <3>4, <3>5
  <2>7. ASSUME r > 0, NEW i \in 1 .. len - 1, Root(i) = r
        PROVE  vec'[Root(r)] <= vec'[i]
    <3>1. Root(r) \in 0 .. len - 1 /\ Root(r) < r
      BY <1>1, <2>2, <2>7, RootBefore
    <3>2. vec'[Root(r)] = vec[Root(r)] /\ vec[Root(r)] <= vec[r]
      BY <1>1, <1>2, <2>2, <2>3, <2>7, <3>1
    <3>3. i \in 0 .. len - 1 /\ i # r
      BY <1>1, <2>2, <2>7, RootBefore
    <3>4. CASE i = idx
      BY <2>3, <3>2, <3>4
    <3>5. CASE i # idx
      BY <1>2, <1>4, <2>2, <2>3, <2>7, <3>1, <3>2, <3>3, <3>5
    <3> QED BY <3>4, <3>5
  <2> QED BY <1>1, <2>1, <2>5, <2>6, <2>7 DEF IInv, OrderedButOne
<1>6. CASE ~(idx > 0 /\ ~(vec[Root(idx)] <= vec[idx]))
  <2>1. vec' = vec /\ idx' = 0 /\ pc' = "ready"
    BY <1>1, <1>6 DEF ShiftUp
  <2>2. TypeOK'
    BY <1>1, <2>1 DEF IInv, TypeOK
  <2>3. \A i \in 1 .. len - 1 : vec[Root(i)] <= vec[i]
    BY <1>1, <1>2, <1>6
  <2> QED BY <1>1, <2>1, <2>2, <2>3 DEF IInv, OrderedButOne, Root
<1> QED BY <1>5, <1>6

\* A turn of shift_down moves that place to the greater child.
LEMMA ShiftDownStep ==
  ASSUME IInv, ShiftDown
  PROVE  IInv'
<1>1. /\ pc = "down" /\ len' = len /\ res' = res
      /\ len \in Nat /\ idx \in Nat
  BY DEF IInv, TypeOK, ShiftDown
<1>2. \A i \in 1 .. len - 1 : Root(i) # idx => vec[Root(i)] <= vec[i]
  BY <1>1 DEF IInv, OrderedButOne
<1>3. idx > 0 => \A i \in 1 .. len - 1 : Root(i) = idx => vec[Root(idx)] <= vec[i]
  BY <1>1 DEF IInv, OrderedButOne
<1>4. \A j \in 0 .. len - 1 : vec[j] \in Int
  BY VecInt DEF IInv
<1>5. ASSUME Left(idx) < len
      PROVE  /\ Lesser(idx) \in 1 .. len - 1
             /\ Root(Lesser(idx)) = idx
             /\ idx < Lesser(idx)
             /\ \A i \in 1 .. len - 1 : Root(i) = idx => vec[Lesser(idx)] <= vec[i]
  <2>1. /\ Left(idx) \in 1 .. len - 1 /\ idx < Left(idx) /\ idx < Right(idx)
        /\ Right(idx) \in Nat /\ Right(idx) > 0
    BY <1>1, <1>5 DEF Left, Right
  <2>2. \A i \in 1 .. len - 1 : Root(i) = idx => i = Left(idx) \/ i = Right(idx)
    BY <1>1, RootBefore
  <2>3. CASE Right(idx) < len /\ ~(vec[Left(idx)] <= vec[Right(idx)])
    BY <1>1, <1>4, <2>1, <2>2, <2>3, ChildrenOfRoot DEF Lesser
  <2>4. CASE ~(Right(idx) < len /\ ~(vec[Left(idx)] <= vec[Right(idx)]))
    BY <1>1, <1>4, <2>1, <2>2, <2>4, ChildrenOfRoot DEF Lesser
  <2> QED BY <2>3, <2>4
<1>6. CASE Left(idx) < len /\ ~(vec[idx] <= vec[Lesser(idx)])
  <2> DEFINE c == Lesser(idx)
  <2>1. vec' = Swapped(idx, c) /\ idx' = c /\ pc' = "down"
    BY <1>1, <1>6 DEF ShiftDown
  <2>2. /\ c \in 1 .. len - 1 /\ Root(c) = idx /\ idx < c /\ idx \in 0 .. len - 1
        /\ \A i \in 1 .. len - 1 : Root(i) = idx => vec[c] <= vec[i]
    BY <1>1, <1>5, <1>6
  <2>3. /\ vec' \in [0 .. len - 1 -> Value]
        /\ vec'[idx] = vec[c]
        /\ vec'[c] = vec[idx]
        /\ \A j \in 0 .. len - 1 : j # idx /\ j # c => vec'[j] = vec[j]
    BY <2>1, <2>2, SwapFacts DEF IInv
  <2>4. vec[c] <= vec[idx]
    BY <1>4, <1>6, <2>2
  <2> HIDE DEF c
  <2>5. TypeOK'
    BY <1>1, <2>1, <2>2, <2>3 DEF IInv, TypeOK
  <2>6. ASSUME NEW i \in 1 .. len - 1, Root(i) # c
        PROVE  vec'[Root(i)] <= vec'[i]
    <3>1. Root(i) \in 0 .. len - 1 /\ Root(i) < i /\ i \in 0 .. len - 1
      BY <1>1, RootBefore
    <3>2. CASE i = c
      BY <2>2, <2>3, <2>4, <3>2
    <3>3. CASE i # c /\ Root(i) = idx
      BY <2>2, <2>3, <3>1, <3>3
    <3>4. CASE i = idx
      BY <1>1, <1>3, <2>2, <2>3, <2>6, <3>1, <3>4
    <3>5. CASE i # c /\ i # idx /\ Root(i) # idx
      BY <1>2, <2>3, <2>6, <3>1, <3>5
    <3> QED BY <3>2, <3>3, <3>4, <3>5
  <2>7. ASSUME NEW i \in 1 .. len - 1, Root(i) = c
        PROVE  vec'[Root(c)] <= vec'[i]
    <3>1. i \in 0 .. len - 1 /\ c < i
      BY <1>1, <2>7, RootBefore
    <3> QED BY <1>1, <1>2, <2>2, <2>3, <2>7, <3>1
  <2> QED BY <1>1, <2>1, <2>5, <2>6, <2>7 DEF IInv, OrderedButOne
<1>7. CASE ~(Left(idx) < len /\ ~(vec[idx] <= vec[Lesser(idx)]))
  <2>1. vec' = vec /\ idx' = 0 /\ pc' = "ready"
    BY <1>1, <1>7 DEF ShiftDown
  <2>2. TypeOK'
    BY <1>1, <2>1 DEF IInv, TypeOK
  <2>3. ASSUME NEW i \in 1 .. len - 1
        PROVE  vec[Root(i)] <= vec[i]
    <3>1. CASE Root(i) # idx
      BY <1>2, <3>1
    <3>2. CASE Root(i) = idx
      <4>1. i = Left(idx) \/ i = Right(idx)
        BY <1>1, <3>2, RootBefore
      <4>2. Left(idx) < len /\ idx \in 0 .. len - 1
        BY <1>1, <4>1 DEF Left, Right
      <4>3. vec[idx] <= vec[Lesser(idx)] /\ vec[Lesser(idx)] <= vec[i]
        BY <1>5, <1>7, <3>2, <4>2
      <4>4. vec[idx] \in Int /\ vec[Lesser(idx)] \in Int /\ vec[i] \in Int
        BY <1>1, <1>4, <1>5, <4>2
      <4> QED BY <3>2, <4>3, <4>4
    <3> QED BY <3>1, <3>2
  <2> QED BY <1>1, <2>1, <2>2, <2>3 DEF IInv, OrderedButOne
<1> QED BY <1>6, <1>7

\* The inductive invariant of the heap: binary_heap.h, 38-75.
THEOREM HeapInvariant == Spec => []IInv
<1>1. Init => IInv
  BY DEF Init, IInv, TypeOK, OrderedButOne
<1>2. IInv /\ [Next]_vars => IInv'
  <2> SUFFICES ASSUME IInv, [Next]_vars PROVE IInv'
    OBVIOUS
  <2>1. CASE Next
    BY <2>1, PushStep, PopStep, ShiftUpStep, ShiftDownStep DEF Next
  <2>2. CASE UNCHANGED vars
    BY <2>2 DEF vars, IInv, TypeOK, OrderedButOne
  <2> QED BY <2>1, <2>2
<1> QED BY <1>1, <1>2, PTL DEF Spec

\* Between calls of push and pop no element is less than its root: the top,
\* which pop returns, is where the least value is.
THEOREM HeapAlwaysOrdered == Spec => []HeapOrdered
<1>1. IInv => HeapOrdered
  BY DEF IInv, OrderedButOne, HeapOrdered
<1> QED BY <1>1, HeapInvariant, PTL

\* push and pop keep the types of the heap.
THEOREM HeapTypeOK == Spec => []TypeOK
<1>1. IInv => TypeOK
  BY DEF IInv
<1> QED BY <1>1, HeapInvariant, PTL
-----------------------------------------------------------------------------
\* A set of numbers has a least one: induction over the indexes of the tree.
LEMMA LeastNumber ==
  ASSUME NEW T \in SUBSET Nat, T # {}
  PROVE  \E m \in T : \A k \in T : m <= k
<1> DEFINE Upto == {0 .. k : k \in T}
           R == StrictSubsetOrdering(Nat)
<1>1. IsWellFoundedOn(R, FiniteSubsetsOf(Nat))
  BY FS_StrictSubsetOrderingWellFounded
<1>2. Upto \subseteq FiniteSubsetsOf(Nat) /\ Upto # {}
  <2>1. ASSUME NEW k \in T PROVE 0 .. k \in FiniteSubsetsOf(Nat)
    BY FS_Interval DEF FiniteSubsetsOf
  <2> QED
    BY <2>1
<1>3. PICK x \in Upto : \A y \in Upto : ~(<<y, x>> \in R)
  <2> HIDE DEF Upto, R
  <2> QED
    BY <1>1, <1>2, WFMin
<1>4. PICK m \in T : x = 0 .. m
  OBVIOUS
<1>5. ASSUME NEW k \in T, ~(m <= k) PROVE FALSE
  <2>1. 0 .. k \subseteq 0 .. m /\ 0 .. k # 0 .. m /\ 0 .. k \subseteq Nat /\ 0 .. m \subseteq Nat
    <3>1. m \in 0 .. m /\ m \notin 0 .. k
      BY <1>5
    <3> QED
      BY <1>5, <3>1
  <2>2. <<0 .. k, x>> \in R
    BY <1>4, <2>1 DEF StrictSubsetOrdering
  <2> QED
    BY <1>3, <2>2
<1> QED
  BY <1>5

\* The top of a heap is not above any of its values.
LEMMA LeastOnTop ==
  ASSUME IInv, pc = "ready", len > 0
  PROVE  \A i \in 0 .. len - 1 : vec[0] <= vec[i]
<1>1. len \in Nat /\ \A j \in 0 .. len - 1 : vec[j] \in Int
  BY VecInt DEF IInv
<1>2. \A i \in 1 .. len - 1 : vec[Root(i)] <= vec[i]
  BY DEF IInv, OrderedButOne
<1> DEFINE Below == {i \in 0 .. len - 1 : ~(vec[0] <= vec[i])}
<1>3. CASE Below # {}
  <2>1. PICK m \in Below : \A k \in Below : m <= k
    <3>1. Below \in SUBSET Nat
      BY <1>1
    <3> HIDE DEF Below
    <3> QED
      BY <1>3, <3>1, LeastNumber
  <2>2. m \in 1 .. len - 1
    BY <1>1, <2>1
  <2>3. Root(m) \in 0 .. len - 1 /\ Root(m) < m
    BY <1>1, <2>2, RootBefore
  <2>4. vec[0] <= vec[Root(m)]
    BY <2>1, <2>2, <2>3
  <2>5. vec[Root(m)] <= vec[m]
    BY <1>2, <2>2
  <2> QED
    BY <1>1, <2>1, <2>2, <2>3, <2>4, <2>5
<1> QED
  BY <1>3

\* Where n elements of s hold v, and how many of them do.
Places(s, n, v) == {i \in 0 .. n - 1 : s[i] = v}
Times(s, n, v) == Cardinality(Places(s, n, v))

\* A value is at finitely many places, so that their number is a natural one.
LEMMA PlacesFinite ==
  ASSUME NEW s, NEW n \in Nat, NEW v
  PROVE  IsFiniteSet(Places(s, n, v)) /\ Times(s, n, v) \in Nat
<1>1. IsFiniteSet(0 .. n - 1)
  BY FS_Interval
<1>2. Places(s, n, v) \in SUBSET (0 .. n - 1)
  BY DEF Places
<1>3. IsFiniteSet(Places(s, n, v))
  BY <1>1, <1>2, FS_Subset
<1> QED
  BY <1>3, FS_CardinalityType DEF Times

\* One element more.
LEMMA TimesPushed ==
  ASSUME NEW n \in Nat, NEW s, NEW t, NEW w, NEW v,
         \A i \in 0 .. n - 1 : t[i] = s[i], t[n] = w
  PROVE  Times(t, n + 1, v) = IF v = w THEN Times(s, n, v) + 1 ELSE Times(s, n, v)
<1>1. IsFiniteSet(Places(s, n, v)) /\ n \notin Places(s, n, v)
  BY PlacesFinite DEF Places
<1>2. CASE v = w
  <2>1. Places(t, n + 1, v) = Places(s, n, v) \cup {n}
    BY <1>2 DEF Places
  <2> QED
    BY <1>1, <1>2, <2>1, FS_AddElement DEF Times
<1>3. CASE v # w
  <2>1. Places(t, n + 1, v) = Places(s, n, v)
    BY <1>3 DEF Places
  <2> QED
    BY <1>3, <2>1 DEF Times
<1> QED
  BY <1>2, <1>3

\* The first element less, whose place the last one takes.
LEMMA TimesPopped ==
  ASSUME NEW n \in Nat, n > 0, NEW s, NEW t, NEW v,
         \A i \in 1 .. n - 2 : t[i] = s[i], n > 1 => t[0] = s[n - 1]
  PROVE  Times(t, n - 1, v) = IF v = s[0] THEN Times(s, n, v) - 1 ELSE Times(s, n, v)
<1> DEFINE old == Places(s, n, v)
           rest == old \ {0}
<1>1. IsFiniteSet(old) /\ (0 \in old <=> v = s[0]) /\ Cardinality(old) = Times(s, n, v)
  <2>1. IsFiniteSet(old)
    BY PlacesFinite
  <2>2. 0 \in old <=> v = s[0]
    BY DEF Places
  <2> QED
    BY <2>1, <2>2 DEF Times
<1>2. /\ IsFiniteSet(rest)
      /\ Cardinality(rest) = IF v = s[0] THEN Times(s, n, v) - 1 ELSE Times(s, n, v)
  <2> HIDE DEF old
  <2> QED
    BY <1>1, FS_RemoveElement
<1>3. Cardinality(rest) \in Nat
  BY <1>2, FS_CardinalityType
<1>4. CASE n > 1 /\ v = s[n - 1]
  <2>1. n - 1 \in rest /\ 0 \notin rest
    BY <1>4 DEF Places
  <2>2. Places(t, n - 1, v) = (rest \ {n - 1}) \cup {0}
    BY <1>4 DEF Places
  <2>3. /\ IsFiniteSet(rest \ {n - 1})
        /\ Cardinality(rest \ {n - 1}) = Cardinality(rest) - 1
    BY <1>2, <2>1, FS_RemoveElement
  <2>4. Cardinality((rest \ {n - 1}) \cup {0}) = Cardinality(rest \ {n - 1}) + 1
    BY <2>1, <2>3, FS_AddElement
  <2>5. Times(t, n - 1, v) = Cardinality((rest \ {n - 1}) \cup {0})
    BY <2>2 DEF Times
  <2> HIDE DEF rest
  <2> QED
    BY <1>2, <1>3, <2>3, <2>4, <2>5
<1>5. CASE ~(n > 1 /\ v = s[n - 1])
  <2>1. Places(t, n - 1, v) = rest
    BY <1>5 DEF Places
  <2> QED
    BY <1>2, <2>1 DEF Times
<1> QED
  BY <1>4, <1>5

\* Two elements that change places.
Exchanged(s, t, n, i, k) ==
  /\ i \in 0 .. n - 1 /\ k \in 0 .. n - 1
  /\ t[i] = s[k] /\ t[k] = s[i]
  /\ \A j \in 0 .. n - 1 : j # i /\ j # k => t[j] = s[j]

\* An exchange of two elements leaves each value there as often as before.
LEMMA TimesExchanged ==
  ASSUME NEW n \in Nat, NEW s, NEW t, NEW v, NEW i, NEW k, Exchanged(s, t, n, i, k)
  PROVE  Times(t, n, v) = Times(s, n, v)
<1> USE DEF Exchanged
<1>1. IsFiniteSet(Places(s, n, v)) /\ Times(s, n, v) \in Nat
  BY PlacesFinite
<1>2. ASSUME NEW a \in 0 .. n - 1, NEW b \in 0 .. n - 1,
             a \in Places(s, n, v), b \notin Places(s, n, v),
             Places(t, n, v) = (Places(s, n, v) \ {a}) \cup {b}
      PROVE  Times(t, n, v) = Times(s, n, v)
  <2>1. /\ IsFiniteSet(Places(s, n, v) \ {a})
        /\ Cardinality(Places(s, n, v) \ {a}) = Times(s, n, v) - 1
    BY <1>1, <1>2, FS_RemoveElement DEF Times
  <2>2. Cardinality((Places(s, n, v) \ {a}) \cup {b}) = Cardinality(Places(s, n, v) \ {a}) + 1
    BY <1>2, <2>1, FS_AddElement
  <2> QED
    BY <1>1, <1>2, <2>1, <2>2 DEF Times
<1>3. CASE s[i] = v /\ s[k] # v
  <2>1. Places(t, n, v) = (Places(s, n, v) \ {i}) \cup {k}
    BY <1>3 DEF Places
  <2> QED
    BY <1>2, <1>3, <2>1 DEF Places
<1>4. CASE s[k] = v /\ s[i] # v
  <2>1. Places(t, n, v) = (Places(s, n, v) \ {k}) \cup {i}
    BY <1>4 DEF Places
  <2> QED
    BY <1>2, <1>4, <2>1 DEF Places
<1>5. CASE s[i] = v <=> s[k] = v
  <2>1. Places(t, n, v) = Places(s, n, v)
    BY <1>5 DEF Places
  <2> QED
    BY <2>1 DEF Times
<1> QED
  BY <1>3, <1>4, <1>5

\* A swap keeps the values the heap has.
LEMMA SwapKeepsTimes ==
  ASSUME TypeOK, NEW i \in 0 .. len - 1, NEW k \in 0 .. len - 1, vec' = Swapped(i, k), NEW v
  PROVE  Times(vec', len, v) = Times(vec, len, v)
<1>1. Exchanged(vec, vec', len, i, k)
  BY SwapFacts DEF Exchanged
<1>2. len \in Nat
  BY DEF TypeOK
<1> QED
  BY <1>1, <1>2, TimesExchanged

\* What the queue holds, as Queue substitutes it.
Items == [v \in Value |-> Times(vec, len, v)]

\* A queue as it is made.
LEMMA QueueInit == Init => Queue!Init
<1> SUFFICES ASSUME Init PROVE Queue!Init
  OBVIOUS
<1>1. ASSUME NEW v PROVE Cardinality({i \in 0 .. len - 1 : vec[i] = v}) = 0
  <2>1. {i \in 0 .. len - 1 : vec[i] = v} = {}
    BY DEF Init
  <2> QED
    BY <2>1, FS_EmptySet
<1> QED
  BY <1>1 DEF Init, Queue!Init

\* Every step is one of a priority queue, or shows nothing of it.
LEMMA QueueNext ==
  ASSUME IInv, [Next]_vars
  PROVE  \/ \E v \in Value : Items' = [Items EXCEPT ![v] = @ + 1] /\ res' = NoValue
         \/ \E v \in Value :
              /\ Items[v] > 0
              /\ \A w \in Value : Items[w] > 0 => v <= w
              /\ Items' = [Items EXCEPT ![v] = @ - 1]
              /\ res' = v
         \/ Items' = Items /\ res' = res
<1>1. len \in Nat /\ vec \in [0 .. len - 1 -> Value]
  BY DEF IInv, TypeOK
<1>2. \A v : Times(vec, len, v) \in Nat
  BY <1>1, PlacesFinite
<1>3. CASE Push
  <2>1. PICK v \in Value : vec' = [i \in 0 .. len |-> IF i = len THEN v ELSE vec[i]]
    BY <1>3 DEF Push
  <2>2. len' = len + 1 /\ res' = NoValue
    BY <1>3 DEF Push
  <2>3. vec'[len] = v /\ \A i \in 0 .. len - 1 : vec'[i] = vec[i]
    BY <1>1, <2>1
  <2>4. ASSUME NEW w \in Value
        PROVE  Times(vec', len + 1, w) = IF w = v THEN Times(vec, len, w) + 1 ELSE Times(vec, len, w)
    BY <1>1, <2>3, TimesPushed
  <2>5. Items' = [Items EXCEPT ![v] = @ + 1]
    BY <2>2, <2>4 DEF Items
  <2> QED
    BY <2>2, <2>5
<1>4. CASE Pop
  <2> DEFINE v == vec[0]
  <2>1. /\ pc = "ready" /\ len > 0 /\ len' = len - 1 /\ res' = v /\ v \in Value
        /\ vec' = [i \in 0 .. len - 2 |-> IF i = 0 THEN vec[len - 1] ELSE vec[i]]
    BY <1>1, <1>4 DEF Pop
  <2>2. (len > 1 => vec'[0] = vec[len - 1]) /\ \A i \in 1 .. len - 2 : vec'[i] = vec[i]
    BY <1>1, <2>1
  <2>3. ASSUME NEW w \in Value
        PROVE  Times(vec', len - 1, w) = IF w = v THEN Times(vec, len, w) - 1 ELSE Times(vec, len, w)
    BY <1>1, <2>1, <2>2, TimesPopped
  <2>4. Items' = [Items EXCEPT ![v] = @ - 1]
    BY <2>1, <2>3 DEF Items
  <2>5. ASSUME NEW w \in Value
        PROVE  Items[w] > 0 <=> \E i \in 0 .. len - 1 : vec[i] = w
    <3>1. IsFiniteSet(Places(vec, len, w))
      BY <1>1, PlacesFinite
    <3>2. Items[w] = 0 <=> Places(vec, len, w) = {}
      BY <3>1, FS_EmptySet DEF Items, Times
    <3>3. Items[w] \in Nat
      BY <1>2 DEF Items
    <3> QED
      BY <3>2, <3>3 DEF Places
  <2>6. \A i \in 0 .. len - 1 : v <= vec[i]
    BY <2>1, LeastOnTop
  <2>7. Items[v] > 0 /\ \A w \in Value : Items[w] > 0 => v <= w
    BY <1>1, <2>1, <2>5, <2>6
  <2> QED
    BY <2>1, <2>4, <2>7
<1>5. ASSUME len' = len, res' = res, \A v \in Value : Times(vec', len, v) = Times(vec, len, v)
      PROVE  Items' = Items /\ res' = res
  BY <1>5 DEF Items
<1>6. CASE ShiftUp
  <2>1. len' = len /\ res' = res
    BY <1>6 DEF ShiftUp
  <2>2. CASE vec' = vec
    BY <1>5, <2>1, <2>2
  <2>3. CASE idx > 0 /\ vec' = Swapped(idx, Root(idx))
    <3>1. idx \in 0 .. len - 1 /\ Root(idx) \in 0 .. len - 1
      BY <1>1, <1>6, <2>3, RootBefore DEF IInv, TypeOK, ShiftUp
    <3> QED
      BY <1>5, <2>1, <2>3, <3>1, SwapKeepsTimes DEF IInv
  <2> QED
    BY <1>6, <2>2, <2>3 DEF ShiftUp
<1>7. CASE ShiftDown
  <2>1. len' = len /\ res' = res
    BY <1>7 DEF ShiftDown
  <2>2. CASE vec' = vec
    BY <1>5, <2>1, <2>2
  <2>3. CASE Left(idx) < len /\ vec' = Swapped(idx, Lesser(idx))
    <3>1. idx \in Nat
      BY DEF IInv, TypeOK
    <3>2. idx \in 0 .. len - 1 /\ Lesser(idx) \in 0 .. len - 1
      BY <1>1, <2>3, <3>1 DEF Left, Right, Lesser
    <3> QED
      BY <1>5, <2>1, <2>3, <3>2, SwapKeepsTimes DEF IInv
  <2> QED
    BY <1>7, <2>2, <2>3 DEF ShiftDown
<1>8. CASE UNCHANGED vars
  BY <1>5, <1>8 DEF vars
<1> QED
  BY <1>3, <1>4, <1>6, <1>7, <1>8 DEF Next

\* ImplementsQueue, for every length: pop returns one of the least values, and
\* the swaps neither lose nor double any.
THEOREM HeapImplementsQueue == Spec => ImplementsQueue
<1>1. Items = [v \in Value |-> Cardinality({i \in 0 .. len - 1 : vec[i] = v})]
  BY DEF Items, Times, Places
<1>2. IInv /\ [Next]_vars => [Queue!Next]_<<[v \in Value |-> Cardinality({i \in 0 .. len - 1 : vec[i] = v})], res>>
  <2> SUFFICES ASSUME IInv, [Next]_vars
               PROVE  [Queue!Next]_<<[v \in Value |-> Cardinality({i \in 0 .. len - 1 : vec[i] = v})], res>>
    OBVIOUS
  <2>1. Items' = [v \in Value |-> Cardinality({i \in 0 .. len' - 1 : vec'[i] = v})]
    BY DEF Items, Times, Places
  <2> QED
    BY <1>1, <2>1, QueueNext DEF Queue!Next, Queue!Push, Queue!Pop
<1> QED
  BY <1>2, QueueInit, HeapInvariant, PTL DEF Spec, ImplementsQueue, Queue!Spec

(***************************************************************************)
(* Options and Results                                                     *)
(***************************************************************************)

\* What an Option or a Result has: a tag, and a resource or a husk.
Val == Resource \cup {O!Husk}
Slotted == [tag : {"absent", "None", "Some", "Err", "Ok"}, val : Val]

\* The objects of s that have r
Having(s, r) == {k \in Slot : s[k].val = r}

\* One owner for one object
One(x, r) == IF x = r THEN 1 ELSE 0

\* The objects of s are tagged for what they have.
Tagged(s) ==
  s \in [Slot -> Slotted] /\ \A k \in Slot : s[k].val # O!Husk => s[k].tag \in {"Some", "Ok"}

\* What the steps preserve of Options and Results
OptionInv ==
  /\ Tagged(slot)
  /\ hand \in Val
  /\ owners \in [Resource -> Int]
  /\ \A r \in Resource : owners[r] = Cardinality(Having(slot, r)) + One(hand, r)

\* The objects that have a resource can be counted.
LEMMA HavingFew ==
  ASSUME NEW s, NEW r
  PROVE  Cardinality(Having(s, r)) \in Nat
<1>1. IsFiniteSet(Slot) /\ Having(s, r) \subseteq Slot
  BY LibraryAssumption DEF Having
<1>2. IsFiniteSet(Having(s, r))
  BY <1>1, FS_Subset
<1> QED
  BY <1>2, FS_CardinalityType

\* How many objects have a resource after one of them was given another value
LEMMA HavingPut ==
  ASSUME NEW s \in [Slot -> Slotted], NEW k \in Slot, NEW x \in Slotted, NEW r \in Resource
  PROVE  /\ Cardinality(Having(s, r)) \in Nat
         /\ Cardinality(Having([s EXCEPT ![k] = x], r))
              = Cardinality(Having(s, r)) - One(s[k].val, r) + One(x.val, r)
<1> DEFINE t == [s EXCEPT ![k] = x]
           A == {i \in Slot \ {k} : s[i].val = r}
<1>1. IsFiniteSet(A) /\ k \notin A /\ Cardinality(A) \in Nat
  <2>1. IsFiniteSet(Slot) /\ A \subseteq Slot
    BY LibraryAssumption
  <2> HIDE DEF A
  <2>2. IsFiniteSet(A)
    BY <2>1, FS_Subset
  <2>3. Cardinality(A) \in Nat
    BY <2>2, FS_CardinalityType
  <2> QED
    BY <2>2, <2>3 DEF A
<1>2. Having(s, r) = IF s[k].val = r THEN A \cup {k} ELSE A
  BY DEF Having
<1>3. t[k] = x /\ \A i \in Slot \ {k} : t[i] = s[i]
  OBVIOUS
<1> HIDE DEF t
<1>5. Having(t, r) = IF x.val = r THEN A \cup {k} ELSE A
  BY <1>3 DEF Having
<1> HIDE DEF A
<1>6. Cardinality(A \cup {k}) = Cardinality(A) + 1
  BY <1>1, FS_AddElement
<1>7. Cardinality(Having(t, r)) = Cardinality(Having(s, r)) - One(s[k].val, r) + One(x.val, r)
      /\ Cardinality(Having(s, r)) \in Nat
  BY <1>1, <1>2, <1>5, <1>6 DEF One
<1> QED
  BY <1>7 DEF t

\* The object k is given the value x.
IsPut(t, s, k, x) ==
  /\ Tagged(t)
  /\ \A i \in Slot : t[i] = IF i = k THEN x ELSE s[i]
  /\ \A r \in Resource : /\ Cardinality(Having(s, r)) \in Nat /\ Cardinality(Having(t, r)) \in Nat
                         /\ Cardinality(Having(t, r)) = Cardinality(Having(s, r)) - One(s[k].val, r) + One(x.val, r)

\* What is put has the tag it should.
LEMMA Put ==
  ASSUME NEW s, Tagged(s), NEW k \in Slot, NEW x \in Slotted, x.val # O!Husk => x.tag \in {"Some", "Ok"}
  PROVE  IsPut([s EXCEPT ![k] = x], s, k, x)
<1> DEFINE t == [s EXCEPT ![k] = x]
<1>1. s \in [Slot -> Slotted] /\ \A i \in Slot : s[i].val # O!Husk => s[i].tag \in {"Some", "Ok"}
  BY DEF Tagged
<1>2. t \in [Slot -> Slotted] /\ \A i \in Slot : t[i] = IF i = k THEN x ELSE s[i]
  BY <1>1
<1>3. ASSUME NEW r \in Resource
      PROVE  /\ Cardinality(Having(s, r)) \in Nat /\ Cardinality(Having(t, r)) \in Nat
             /\ Cardinality(Having(t, r)) = Cardinality(Having(s, r)) - One(s[k].val, r) + One(x.val, r)
  <2>1. /\ Cardinality(Having(s, r)) \in Nat
        /\ Cardinality(Having(t, r)) = Cardinality(Having(s, r)) - One(s[k].val, r) + One(x.val, r)
    BY <1>1, HavingPut
  <2> HIDE DEF t
  <2>2. Cardinality(Having(t, r)) \in Nat
    BY <1>2, HavingPut
  <2> QED
    BY <2>1, <2>2
<1> HIDE DEF t
<1>4. Tagged(t)
  BY <1>1, <1>2 DEF Tagged
<1>5. IsPut(t, s, k, x)
  BY <1>2, <1>3, <1>4 DEF IsPut
<1> QED
  BY <1>5 DEF t

\* A husk is no resource.
LEMMA HuskIs ==
  /\ O!Husk \in Val /\ \A r \in Resource : One(O!Husk, r) = 0
  /\ \A x, r : One(x, r) \in {0, 1}
  /\ O!Absent \in Slotted /\ O!None \in Slotted /\ O!Err \in Slotted
  /\ O!Absent.val = O!Husk /\ O!None.val = O!Husk /\ O!Err.val = O!Husk
  /\ O!Absent.tag = "absent" /\ O!None.tag = "None"
BY LibraryAssumption DEF O!Absent, O!None, O!Err, O!Slotted, Slotted, Val, One

\* A copy of a T counts its owner, the destruction of one discounts it.
LEMMA OwnedIs ==
  ASSUME owners \in [Resource -> Int], NEW x, NEW n \in Int, O!Owned(x, n)
  PROVE  /\ owners' \in [Resource -> Int]
         /\ \A r \in Resource : owners'[r] = owners[r] + n * One(x, r)
BY DEF O!Owned, One

\* No object has a resource at first.
LEMMA InitOption == O!Init => OptionInv
<1> SUFFICES ASSUME O!Init PROVE OptionInv
  OBVIOUS
<1>1. /\ slot = [s \in Slot |-> O!Absent] /\ hand = O!Husk /\ owners = [r \in Resource |-> 0]
      /\ O!Absent \in Slotted /\ O!Absent.val = O!Husk /\ O!Husk \in Val
  BY DEF O!Init, O!Absent, O!Slotted, Slotted, Val
<1>2. Tagged(slot)
  BY <1>1 DEF Tagged
<1>3. ASSUME NEW r \in Resource PROVE Having(slot, r) = {} /\ One(hand, r) = 0
  BY <1>1, LibraryAssumption DEF Having, One
<1>4. Cardinality({}) = 0
  BY FS_EmptySet
<1> QED
  BY <1>1, <1>2, <1>3, <1>4 DEF OptionInv

\* What an object of the program is
LEMMA SlotIs ==
  ASSUME OptionInv, NEW s \in Slot
  PROVE  /\ slot[s] \in Slotted /\ slot[s].val \in Val
         /\ [slot[s] EXCEPT !.val = O!Husk] \in Slotted
         /\ [slot[s] EXCEPT !.val = O!Husk].val = O!Husk
         /\ slot[s].val # O!Husk => O!Holds(slot[s])
         /\ O!Holds(slot[s]) <=> slot[s].tag \in {"Some", "Ok"}
         /\ slot[s] = O!Absent => slot[s].val = O!Husk
BY HuskIs DEF OptionInv, Tagged, Slotted, O!Holds

\* An object that has no value gets one, and another loses its own.
LEMMA PutTaken ==
  ASSUME OptionInv, NEW s \in Slot, NEW k \in Slot, s # k, slot[k] = O!Absent,
         NEW x \in Slotted, x.val # O!Husk => x.tag \in {"Some", "Ok"}
  PROVE  /\ Tagged([slot EXCEPT ![k] = x, ![s].val = O!Husk])
         /\ \A r \in Resource :
              Cardinality(Having([slot EXCEPT ![k] = x, ![s].val = O!Husk], r))
                = Cardinality(Having(slot, r)) - One(slot[s].val, r) + One(x.val, r)
<1> DEFINE t == [slot EXCEPT ![k] = x]
           y == [slot[s] EXCEPT !.val = O!Husk]
           u == [t EXCEPT ![s] = y]
<1>1. IsPut(t, slot, k, x)
  BY Put DEF OptionInv
<1>2. y \in Slotted /\ y.val = O!Husk /\ slot[k].val = O!Husk
  BY SlotIs
<1> HIDE DEF y
<1>3. t[s] = slot[s]
  BY <1>1 DEF IsPut
<1>4. IsPut(u, t, s, y)
  <2>1. Tagged(t)
    BY <1>1 DEF IsPut
  <2> HIDE DEF t
  <2> QED
    BY <1>2, <2>1, Put
<1>5. [slot EXCEPT ![k] = x, ![s].val = O!Husk] = u
  BY <1>3 DEF y
<1> HIDE DEF t, u
<1>6. ASSUME NEW r \in Resource
      PROVE  Cardinality(Having(u, r)) = Cardinality(Having(slot, r)) - One(slot[s].val, r) + One(x.val, r)
  <2>1. /\ Cardinality(Having(slot, r)) \in Nat /\ Cardinality(Having(t, r)) \in Nat
        /\ Cardinality(Having(t, r)) = Cardinality(Having(slot, r)) - One(slot[k].val, r) + One(x.val, r)
    BY <1>1 DEF IsPut
  <2>2. Cardinality(Having(u, r)) = Cardinality(Having(t, r)) - One(t[s].val, r) + One(y.val, r)
    BY <1>4 DEF IsPut
  <2>3. One(y.val, r) = 0 /\ One(slot[k].val, r) = 0 /\ One(slot[s].val, r) \in {0, 1} /\ One(x.val, r) \in {0, 1}
    BY <1>2, HuskIs
  <2> QED
    BY <1>3, <2>1, <2>2, <2>3
<1> QED
  BY <1>4, <1>5, <1>6 DEF IsPut

\* An object loses its value.
LEMMA Taken ==
  ASSUME OptionInv, NEW s \in Slot
  PROVE  /\ Tagged([slot EXCEPT ![s].val = O!Husk])
         /\ \A r \in Resource :
              Cardinality(Having([slot EXCEPT ![s].val = O!Husk], r))
                = Cardinality(Having(slot, r)) - One(slot[s].val, r)
<1> DEFINE y == [slot[s] EXCEPT !.val = O!Husk]
           u == [slot EXCEPT ![s] = y]
<1>1. y \in Slotted /\ y.val = O!Husk
  BY SlotIs
<1>2. [slot EXCEPT ![s].val = O!Husk] = u
  OBVIOUS
<1> HIDE DEF y
<1>3. IsPut(u, slot, s, y)
  BY <1>1, Put DEF OptionInv
<1>4. ASSUME NEW r \in Resource
      PROVE  Cardinality(Having(u, r)) = Cardinality(Having(slot, r)) - One(slot[s].val, r)
  <2>1. /\ Cardinality(Having(slot, r)) \in Nat
        /\ Cardinality(Having(u, r)) = Cardinality(Having(slot, r)) - One(slot[s].val, r) + One(y.val, r)
    BY <1>3 DEF IsPut
  <2>2. One(y.val, r) = 0 /\ One(slot[s].val, r) \in {0, 1}
    BY <1>1, HuskIs
  <2> QED
    BY <2>1, <2>2
<1> QED
  BY <1>2, <1>3, <1>4 DEF IsPut

\* A value is put where there was no object.
LEMMA PutNew ==
  ASSUME OptionInv, NEW k \in Slot, slot[k].val = O!Husk,
         NEW x \in Slotted, x.val # O!Husk => x.tag \in {"Some", "Ok"}
  PROVE  /\ Tagged([slot EXCEPT ![k] = x])
         /\ \A r \in Resource :
              Cardinality(Having([slot EXCEPT ![k] = x], r)) = Cardinality(Having(slot, r)) + One(x.val, r)
<1> DEFINE u == [slot EXCEPT ![k] = x]
<1>3. IsPut(u, slot, k, x)
  BY Put DEF OptionInv
<1> HIDE DEF u
<1>4. ASSUME NEW r \in Resource
      PROVE  Cardinality(Having(u, r)) = Cardinality(Having(slot, r)) + One(x.val, r)
  <2>1. /\ Cardinality(Having(slot, r)) \in Nat
        /\ Cardinality(Having(u, r)) = Cardinality(Having(slot, r)) - One(slot[k].val, r) + One(x.val, r)
    BY <1>3 DEF IsPut
  <2>2. One(slot[k].val, r) = 0 /\ One(x.val, r) \in {0, 1}
    BY HuskIs
  <2> QED
    BY <2>1, <2>2
<1>5. Tagged(u)
  BY <1>3 DEF IsPut
<1> QED
  BY <1>4, <1>5 DEF u

\* The owners of a resource, before and after
LEMMA Counted ==
  ASSUME OptionInv, Tagged(slot'), hand' \in Val, owners' \in [Resource -> Int],
         \A r \in Resource :
           owners'[r] = owners[r] + Cardinality(Having(slot', r)) - Cardinality(Having(slot, r))
                          + One(hand', r) - One(hand, r)
  PROVE  OptionInv'
<1>1. ASSUME NEW r \in Resource PROVE owners'[r] = Cardinality(Having(slot', r)) + One(hand', r)
  <2>1. Cardinality(Having(slot, r)) \in Nat /\ Cardinality(Having(slot', r)) \in Nat
    <3>1. slot \in [Slot -> Slotted] /\ slot' \in [Slot -> Slotted]
      BY DEF OptionInv, Tagged
    <3> QED
      BY <3>1, HavingFew
  <2>2. owners[r] = Cardinality(Having(slot, r)) + One(hand, r) /\ One(hand, r) \in {0, 1} /\ One(hand', r) \in {0, 1}
    BY HuskIs DEF OptionInv
  <2> QED
    BY <2>1, <2>2
<1> QED
  BY <1>1 DEF OptionInv, One, Having

\* The variables of OptionInv
LEMMA OptionTypes ==
  ASSUME OptionInv
  PROVE  Tagged(slot) /\ hand \in Val /\ owners \in [Resource -> Int]
BY DEF OptionInv

\* The caller's T has an owner more, or one fewer.
LEMMA HandKeeps ==
  ASSUME OptionInv, O!New \/ O!DropHand
  PROVE  OptionInv'
<1>1. Tagged(slot) /\ hand \in Val /\ owners \in [Resource -> Int]
  BY OptionTypes
<1>2. CASE O!New
  <2>1. PICK r \in Resource : hand = O!Husk /\ hand' = r /\ O!Owned(r, 1) /\ slot' = slot
    BY <1>2 DEF O!New
  <2>2. /\ owners' \in [Resource -> Int]
        /\ \A q \in Resource : owners'[q] = owners[q] + 1 * One(r, q)
    BY <1>1, <2>1, OwnedIs
  <2>3. \A q \in Resource : One(hand, q) = 0 /\ One(hand', q) = One(r, q) /\ One(r, q) \in {0, 1}
                          /\ Cardinality(Having(slot', q)) = Cardinality(Having(slot, q))
                          /\ Cardinality(Having(slot, q)) \in Nat /\ owners[q] \in Int
    BY <1>1, <2>1, HuskIs, HavingFew
  <2>4. hand' \in Val
    BY <2>1 DEF Val
  <2> QED
    BY <1>1, <2>1, <2>2, <2>3, <2>4, Counted
<1>3. CASE O!DropHand
  <2>1. hand' = O!Husk /\ O!Owned(hand, -1) /\ slot' = slot
    BY <1>3 DEF O!DropHand
  <2>2. /\ owners' \in [Resource -> Int]
        /\ \A q \in Resource : owners'[q] = owners[q] + (-1) * One(hand, q)
    BY <1>1, <2>1, OwnedIs
  <2>3. \A q \in Resource : One(hand', q) = 0 /\ One(hand, q) \in {0, 1}
                          /\ Cardinality(Having(slot', q)) = Cardinality(Having(slot, q))
                          /\ Cardinality(Having(slot, q)) \in Nat /\ owners[q] \in Int
    BY <1>1, <2>1, HuskIs, HavingFew
  <2>4. hand' \in Val
    BY <2>1, HuskIs
  <2> QED
    BY <1>1, <2>1, <2>2, <2>3, <2>4, Counted
<1> QED
  BY <1>2, <1>3

\* A value that is made has the owner that the caller had.
LEMMA MakeKeeps ==
  ASSUME OptionInv, NEW s \in Slot, O!Make(s)
  PROVE  OptionInv'
<1>1. Tagged(slot) /\ hand \in Val /\ owners \in [Resource -> Int] /\ slot[s].val = O!Husk /\ owners' = owners
  BY OptionTypes, SlotIs DEF O!Make
<1>2. ASSUME NEW x \in Slotted, slot' = [slot EXCEPT ![s] = x], x.val # O!Husk => x.tag \in {"Some", "Ok"},
             (x.val = O!Husk /\ hand' = hand) \/ (x.val = hand /\ hand' = O!Husk)
      PROVE  OptionInv'
  <2>1. /\ Tagged(slot')
        /\ \A r \in Resource : Cardinality(Having(slot', r)) = Cardinality(Having(slot, r)) + One(x.val, r)
    BY <1>1, <1>2, PutNew
  <2>2. hand' \in Val
    BY <1>1, <1>2, HuskIs
  <2>3. \A r \in Resource : /\ One(O!Husk, r) = 0 /\ One(x.val, r) \in {0, 1} /\ One(hand, r) \in {0, 1}
                          /\ Cardinality(Having(slot, r)) \in Nat /\ owners[r] \in Int
    BY <1>1, HuskIs, HavingFew
  <2>4. \A r \in Resource : One(x.val, r) + One(hand', r) = One(hand, r)
    BY <1>2, <2>3
  <2>5. \A r \in Resource : One(hand', r) \in {0, 1}
    BY HuskIs
  <2> QED
    BY <1>1, <2>1, <2>2, <2>3, <2>4, <2>5, Counted
<1>3. CASE \E x \in {O!None, O!Err} : slot' = [slot EXCEPT ![s] = x] /\ hand' = hand
  <2>1. PICK x \in {O!None, O!Err} : slot' = [slot EXCEPT ![s] = x] /\ hand' = hand
    BY <1>3
  <2>2. x \in Slotted /\ x.val = O!Husk
    BY HuskIs
  <2> QED
    BY <1>2, <2>1, <2>2
<1>4. CASE (\E tag \in {"Some", "Ok"} : slot' = [slot EXCEPT ![s] = O!Slotted(tag, hand)]) /\ hand' = O!Husk
  <2>1. PICK tag \in {"Some", "Ok"} : slot' = [slot EXCEPT ![s] = O!Slotted(tag, hand)]
    BY <1>4
  <2> DEFINE x == O!Slotted(tag, hand)
  <2>2. x \in Slotted /\ x.val = hand /\ x.tag \in {"Some", "Ok"}
    BY <1>1 DEF O!Slotted, Slotted
  <2> HIDE DEF x
  <2> QED
    BY <1>2, <1>4, <2>1, <2>2 DEF x
<1> QED
  BY <1>3, <1>4 DEF O!Make

\* A copy has an owner of its own.
LEMMA CopyKeeps ==
  ASSUME OptionInv, NEW s \in Slot, NEW k \in Slot, O!Copy(s, k)
  PROVE  OptionInv'
<1> DEFINE x == slot[s]
<1>1. /\ Tagged(slot) /\ hand \in Val /\ owners \in [Resource -> Int] /\ slot[k].val = O!Husk /\ hand' = hand
      /\ x \in Slotted /\ (x.val # O!Husk => x.tag \in {"Some", "Ok"}) /\ slot' = [slot EXCEPT ![k] = x]
      /\ O!Owned(x.val, 1)
  BY OptionTypes, SlotIs DEF O!Copy
<1> HIDE DEF x
<1>2. /\ Tagged(slot')
      /\ \A r \in Resource : Cardinality(Having(slot', r)) = Cardinality(Having(slot, r)) + One(x.val, r)
  BY <1>1, PutNew
<1>3. /\ owners' \in [Resource -> Int]
      /\ \A r \in Resource : owners'[r] = owners[r] + 1 * One(x.val, r)
  BY <1>1, OwnedIs
<1>4. \A r \in Resource : /\ One(x.val, r) \in {0, 1} /\ One(hand, r) \in {0, 1} /\ One(hand', r) = One(hand, r)
                        /\ Cardinality(Having(slot, r)) \in Nat /\ owners[r] \in Int
  BY <1>1, HuskIs, HavingFew
<1>5. ASSUME NEW r \in Resource
      PROVE  owners'[r] = owners[r] + Cardinality(Having(slot', r)) - Cardinality(Having(slot, r))
                            + One(hand', r) - One(hand, r)
  BY <1>2, <1>3, <1>4
<1> QED
  BY <1>1, <1>2, <1>3, <1>5, Counted

\* What is destroyed loses an owner, if its tag says that there is one.
LEMMA DropKeeps ==
  ASSUME OptionInv, NEW s \in Slot, O!Drop(s)
  PROVE  OptionInv'
<1> DEFINE v == IF O!Holds(slot[s]) THEN slot[s].val ELSE O!Husk
<1>1. /\ Tagged(slot) /\ hand \in Val /\ owners \in [Resource -> Int] /\ hand' = hand
      /\ slot' = [slot EXCEPT ![s] = O!Absent] /\ O!Owned(v, -1) /\ v = slot[s].val
  BY OptionTypes, SlotIs DEF O!Drop
<1> HIDE DEF v
<1>2. IsPut(slot', slot, s, O!Absent)
  BY <1>1, HuskIs, Put
<1>3. /\ owners' \in [Resource -> Int]
      /\ \A r \in Resource : owners'[r] = owners[r] + (-1) * One(v, r)
  BY <1>1, OwnedIs
<1>4. \A r \in Resource : /\ One(v, r) \in {0, 1} /\ One(hand, r) \in {0, 1} /\ One(hand', r) = One(hand, r)
                        /\ One(O!Absent.val, r) = 0 /\ owners[r] \in Int
  BY <1>1, HuskIs
<1>5. /\ Tagged(slot')
      /\ \A r \in Resource : /\ Cardinality(Having(slot, r)) \in Nat /\ Cardinality(Having(slot', r)) \in Nat
                             /\ Cardinality(Having(slot', r)) = Cardinality(Having(slot, r)) - One(v, r) + One(O!Absent.val, r)
  BY <1>1, <1>2 DEF IsPut
<1>6. ASSUME NEW r \in Resource
      PROVE  owners'[r] = owners[r] + Cardinality(Having(slot', r)) - Cardinality(Having(slot, r))
                            + One(hand', r) - One(hand, r)
  BY <1>3, <1>4, <1>5
<1> QED
  BY <1>1, <1>3, <1>5, <1>6, Counted

\* What goes from one object to another has the owners it had, less the one
\* that is destroyed on the way.
LEMMA GoesOver ==
  ASSUME OptionInv, NEW s \in Slot, NEW k \in Slot, s # k, slot[k] = O!Absent,
         NEW x \in Slotted, x.val # O!Husk => x.tag \in {"Some", "Ok"}, hand' = hand,
         slot' = [slot EXCEPT ![k] = x, ![s].val = O!Husk],
         \/ owners' = owners /\ x.val = slot[s].val
         \/ O!Owned(slot[s].val, -1) /\ x.val = O!Husk
  PROVE  OptionInv'
<1>1. Tagged(slot) /\ hand \in Val /\ owners \in [Resource -> Int]
  BY OptionTypes
<1>2. /\ Tagged(slot')
      /\ \A r \in Resource :
           Cardinality(Having(slot', r)) = Cardinality(Having(slot, r)) - One(slot[s].val, r) + One(x.val, r)
  BY PutTaken
<1> DEFINE v == slot[s].val
           w == x.val
<1>3. /\ owners' \in [Resource -> Int]
      /\ \A r \in Resource : owners'[r] = owners[r] + One(w, r) - One(v, r)
  <2>1. CASE owners' = owners /\ w = v
    <3>1. \A r \in Resource : owners[r] \in Int /\ One(v, r) \in {0, 1}
      BY <1>1, HuskIs
    <3> HIDE DEF v, w
    <3> QED
      BY <1>1, <2>1, <3>1
  <2>2. CASE O!Owned(v, -1) /\ w = O!Husk
    <3> HIDE DEF v, w
    <3>1. \A r \in Resource : owners[r] \in Int /\ One(v, r) \in {0, 1} /\ One(w, r) = 0
      BY <1>1, <2>2, HuskIs
    <3>2. /\ owners' \in [Resource -> Int]
          /\ \A r \in Resource : owners'[r] = owners[r] + (-1) * One(v, r)
      BY <1>1, <2>2, OwnedIs
    <3> QED
      BY <3>1, <3>2
  <2> QED
    BY <2>1, <2>2
<1>4. \A r \in Resource : /\ One(v, r) \in {0, 1} /\ One(w, r) \in {0, 1} /\ One(hand, r) \in {0, 1}
                        /\ One(hand', r) = One(hand, r) /\ owners[r] \in Int
                        /\ Cardinality(Having(slot, r)) \in Nat
  BY <1>1, HuskIs, HavingFew
<1>5. ASSUME NEW r \in Resource
      PROVE  owners'[r] = owners[r] + Cardinality(Having(slot', r)) - Cardinality(Having(slot, r))
                            + One(hand', r) - One(hand, r)
  <2>1. Cardinality(Having(slot', r)) = Cardinality(Having(slot, r)) - One(v, r) + One(w, r)
    BY <1>2
  <2> HIDE DEF v, w
  <2> QED
    BY <1>3, <1>4, <2>1
<1> QED
  BY <1>1, <1>2, <1>3, <1>5, Counted

\* What is made without a value has no owner.
LEMMA HuskPut ==
  ASSUME OptionInv, NEW k \in Slot, slot[k] = O!Absent, NEW x \in Slotted, x.val = O!Husk,
         slot' = [slot EXCEPT ![k] = x], hand' = hand, owners' = owners
  PROVE  OptionInv'
<1>1. Tagged(slot) /\ hand \in Val /\ owners \in [Resource -> Int] /\ slot[k].val = O!Husk
  BY OptionTypes, SlotIs
<1>2. /\ Tagged(slot')
      /\ \A r \in Resource : Cardinality(Having(slot', r)) = Cardinality(Having(slot, r)) + One(x.val, r)
  BY <1>1, PutNew
<1>3. \A r \in Resource : /\ One(x.val, r) = 0 /\ One(hand, r) \in {0, 1} /\ One(hand', r) = One(hand, r)
                        /\ Cardinality(Having(slot, r)) \in Nat /\ owners[r] \in Int
  BY <1>1, HuskIs, HavingFew
<1>4. ASSUME NEW r \in Resource
      PROVE  owners'[r] = owners[r] + Cardinality(Having(slot', r)) - Cardinality(Having(slot, r))
                            + One(hand', r) - One(hand, r)
  <2>1. owners'[r] = owners[r] /\ One(hand', r) - One(hand, r) = 0
    BY <1>3
  <2>2. Cardinality(Having(slot', r)) - Cardinality(Having(slot, r)) = 0 /\ Cardinality(Having(slot', r)) \in Nat
    <3> DEFINE a == Cardinality(Having(slot', r))
               b == Cardinality(Having(slot, r))
               c == One(x.val, r)
    <3>1. a = b + c /\ c = 0 /\ b \in Nat
      BY <1>2, <1>3
    <3> HIDE DEF a, b, c
    <3>2. a - b = 0 /\ a \in Nat
      BY <3>1
    <3> QED
      BY <3>2 DEF a, b
  <2> QED
    BY <1>3, <2>1, <2>2
<1> QED
  BY <1>1, <1>2, <1>4, Counted

\* The move constructor moves the owner with the value.
LEMMA MoveKeeps ==
  ASSUME OptionInv, NEW s \in Slot, NEW k \in Slot, O!Move(s, k)
  PROVE  OptionInv'
<1> DEFINE x == slot[s]
<1>1. /\ s # k /\ slot[k] = O!Absent /\ x \in Slotted /\ (x.val # O!Husk => x.tag \in {"Some", "Ok"})
      /\ hand' = hand /\ owners' = owners /\ slot' = [slot EXCEPT ![k] = x, ![s].val = O!Husk]
      /\ x.val = slot[s].val
  BY SlotIs DEF O!Move
<1> HIDE DEF x
<1> QED
  BY <1>1, GoesOver

\* So do map and operator|.
LEMMA MapIntoKeeps ==
  ASSUME OptionInv, NEW s \in Slot, NEW k \in Slot, O!MapInto(s, k)
  PROVE  OptionInv'
<1> DEFINE x == slot[s]
<1>1. /\ s # k /\ slot[k] = O!Absent /\ x \in Slotted /\ (x.val # O!Husk => x.tag \in {"Some", "Ok"})
      /\ (~O!Holds(slot[s]) => x.val = O!Husk)
      /\ hand' = hand /\ owners' = owners /\ x.val = slot[s].val
  BY SlotIs DEF O!MapInto
<1>2. slot' = IF O!Holds(slot[s]) THEN [slot EXCEPT ![k] = x, ![s].val = O!Husk]
              ELSE [slot EXCEPT ![k] = x]
  BY DEF O!MapInto
<1> HIDE DEF x
<1>3. CASE O!Holds(slot[s])
  BY <1>1, <1>2, <1>3, GoesOver
<1>4. CASE ~O!Holds(slot[s])
  BY <1>1, <1>2, <1>4, HuskPut
<1> QED
  BY <1>3, <1>4

\* and_then destroys what f did not give back.
LEMMA AndThenKeeps ==
  ASSUME OptionInv, NEW s \in Slot, NEW k \in Slot, O!AndThen(s, k)
  PROVE  OptionInv'
<1>1. CASE O!MapInto(s, k)
  BY <1>1, MapIntoKeeps
<1>2. CASE ~O!MapInto(s, k)
  <2>1. /\ slot[k] = O!Absent /\ O!Holds(slot[s]) /\ hand' = hand /\ O!Owned(slot[s].val, -1)
        /\ slot' = [slot EXCEPT ![k] = O!None, ![s].val = O!Husk]
    BY <1>2 DEF O!AndThen
  <2>2. s # k
    BY <2>1, HuskIs DEF O!Holds
  <2>3. O!None \in Slotted /\ O!None.val = O!Husk
    BY HuskIs
  <2> DEFINE x == O!None
  <2> HIDE DEF x
  <2>4. /\ x \in Slotted /\ x.val = O!Husk
        /\ slot' = [slot EXCEPT ![k] = x, ![s].val = O!Husk]
    BY <2>1, <2>3 DEF x
  <2> QED
    BY <2>1, <2>2, <2>4, GoesOver
<1> QED
  BY <1>1, <1>2

\* or_else moves the value of the caller in.
LEMMA OrElseKeeps ==
  ASSUME OptionInv, NEW s \in Slot, NEW k \in Slot, O!OrElse(s, k)
  PROVE  OptionInv'
<1>1. CASE O!Holds(slot[s])
  BY <1>1, MapIntoKeeps DEF O!OrElse
<1>2. CASE ~O!Holds(slot[s])
  <2> DEFINE x == O!Slotted("Some", hand)
  <2>1. slot[k] = O!Absent /\ slot' = [slot EXCEPT ![k] = x] /\ hand' = O!Husk /\ owners' = owners
    BY <1>2 DEF O!OrElse
  <2>2. Tagged(slot) /\ hand \in Val /\ owners \in [Resource -> Int] /\ slot[k].val = O!Husk
    BY <2>1, OptionTypes, SlotIs
  <2>3. x \in Slotted /\ x.val = hand /\ x.tag \in {"Some", "Ok"}
    BY <2>2 DEF O!Slotted, Slotted
  <2> HIDE DEF x
  <2>4. /\ Tagged(slot')
        /\ \A r \in Resource : Cardinality(Having(slot', r)) = Cardinality(Having(slot, r)) + One(x.val, r)
    BY <2>1, <2>2, <2>3, PutNew
  <2>5. \A r \in Resource : /\ One(x.val, r) = One(hand, r) /\ One(hand, r) \in {0, 1} /\ One(hand', r) = 0
                          /\ Cardinality(Having(slot, r)) \in Nat /\ owners[r] \in Int
    BY <2>1, <2>2, <2>3, HuskIs, HavingFew
  <2>6. ASSUME NEW r \in Resource
        PROVE  owners'[r] = owners[r] + Cardinality(Having(slot', r)) - Cardinality(Having(slot, r))
                              + One(hand', r) - One(hand, r)
    <3>1. owners'[r] = owners[r] /\ One(hand', r) = 0
      BY <2>1, <2>5
    <3>2. Cardinality(Having(slot', r)) - Cardinality(Having(slot, r)) = One(hand, r) /\ Cardinality(Having(slot', r)) \in Nat
      BY <2>4, <2>5, HavingFew
    <3> QED
      BY <2>5, <3>1, <3>2
  <2>7. hand' \in Val
    BY <2>1, HuskIs
  <2> QED
    BY <2>1, <2>2, <2>4, <2>6, <2>7, Counted
<1> QED
  BY <1>1, <1>2

\* Result::ok moves the value into an Option.
LEMMA OkKeeps ==
  ASSUME OptionInv, NEW s \in Slot, NEW k \in Slot, O!Ok(s, k)
  PROVE  OptionInv'
<1>1. CASE O!Holds(slot[s])
  <2> DEFINE x == O!Slotted("Some", slot[s].val)
  <2>1. /\ slot[k] = O!Absent /\ hand' = hand /\ owners' = owners
        /\ slot' = [slot EXCEPT ![k] = x, ![s].val = O!Husk]
    BY <1>1 DEF O!Ok
  <2>2. s # k
    BY <1>1, <2>1, HuskIs DEF O!Holds
  <2>3. x \in Slotted /\ x.val = slot[s].val /\ x.tag \in {"Some", "Ok"}
    BY SlotIs DEF O!Slotted, Slotted
  <2> HIDE DEF x
  <2> QED
    BY <2>1, <2>2, <2>3, GoesOver
<1>2. CASE ~O!Holds(slot[s])
  <2>1. slot[k] = O!Absent /\ hand' = hand /\ owners' = owners /\ slot' = [slot EXCEPT ![k] = O!None]
    BY <1>2 DEF O!Ok
  <2> QED
    BY <2>1, HuskIs, HuskPut
<1> QED
  BY <1>1, <1>2

\* What unwrap, expect and unwrap_or give has the owner that the object had;
\* of the default that was not needed, none is left.
LEMMA UnwrapKeeps ==
  ASSUME OptionInv, NEW s \in Slot, O!Unwrap(s) \/ O!UnwrapOr(s)
  PROVE  OptionInv'
<1>1. CASE UNCHANGED optionVars
  BY <1>1 DEF optionVars, OptionInv, Having, One
<1>2. CASE ~UNCHANGED optionVars
  <2> DEFINE v == slot[s].val
  <2>1. /\ slot' = [slot EXCEPT ![s].val = O!Husk] /\ hand' = v
        /\ (owners' = owners /\ hand = O!Husk) \/ O!Owned(hand, -1)
    BY <1>2 DEF O!Unwrap, O!UnwrapOr, O!optionVars, optionVars
  <2>2. Tagged(slot) /\ hand \in Val /\ owners \in [Resource -> Int] /\ v \in Val
    BY OptionTypes, SlotIs
  <2>3. /\ Tagged(slot')
        /\ \A r \in Resource : Cardinality(Having(slot', r)) = Cardinality(Having(slot, r)) - One(v, r)
    BY <2>1, Taken
  <2> HIDE DEF v
  <2>4. \A r \in Resource : /\ One(v, r) \in {0, 1} /\ One(hand, r) \in {0, 1} /\ One(hand', r) = One(v, r)
                          /\ Cardinality(Having(slot, r)) \in Nat /\ owners[r] \in Int
    BY <2>1, <2>2, HuskIs, HavingFew
  <2>5. /\ owners' \in [Resource -> Int]
        /\ \A r \in Resource : owners'[r] = owners[r] - One(hand, r)
    <3>1. CASE owners' = owners /\ hand = O!Husk
      <4>1. \A r \in Resource : One(hand, r) = 0
        BY <3>1, HuskIs
      <4> QED
        BY <2>2, <2>4, <3>1, <4>1
    <3>2. CASE O!Owned(hand, -1)
      <4>1. /\ owners' \in [Resource -> Int]
            /\ \A r \in Resource : owners'[r] = owners[r] + (-1) * One(hand, r)
        BY <2>2, <3>2, OwnedIs
      <4> QED
        BY <2>4, <4>1
    <3> QED
      BY <2>1, <3>1, <3>2
  <2>6. ASSUME NEW r \in Resource
        PROVE  owners'[r] = owners[r] + Cardinality(Having(slot', r)) - Cardinality(Having(slot, r))
                              + One(hand', r) - One(hand, r)
    BY <2>3, <2>4, <2>5
  <2>7. hand' \in Val
    BY <2>1, <2>2
  <2> QED
    BY <2>2, <2>3, <2>5, <2>6, <2>7, Counted
<1> QED
  BY <1>1, <1>2

\* Two objects are given up for a third: what of theirs is not in it is
\* destroyed.
LEMMA TwoForOne ==
  ASSUME OptionInv, NEW s \in Slot, NEW o \in Slot, NEW k \in Slot, s # o, s # k, o # k,
         slot[k] = O!Absent, NEW x \in Slotted, x.val # O!Husk => x.tag \in {"Some", "Ok"},
         hand' = hand, slot' = [slot EXCEPT ![s].val = O!Husk, ![o].val = O!Husk, ![k] = x],
         x.val = slot[o].val, O!Owned(slot[s].val, -1)
  PROVE  OptionInv'
<1> DEFINE y == [slot[s] EXCEPT !.val = O!Husk]
           z == [slot[o] EXCEPT !.val = O!Husk]
           t == [slot EXCEPT ![s] = y]
           u == [t EXCEPT ![o] = z]
           w == [u EXCEPT ![k] = x]
           a == slot[s].val
           b == slot[o].val
<1>1. Tagged(slot) /\ hand \in Val /\ owners \in [Resource -> Int]
  BY OptionTypes
<1>2. /\ y \in Slotted /\ y.val = O!Husk /\ z \in Slotted /\ z.val = O!Husk /\ slot[k].val = O!Husk
  BY SlotIs
<1>3. slot' = w
  OBVIOUS
<1> HIDE DEF y, z
<1>4. IsPut(t, slot, s, y)
  BY <1>1, <1>2, Put
<1> HIDE DEF t
<1>5. IsPut(u, t, o, z)
  <2>1. Tagged(t)
    BY <1>4 DEF IsPut
  <2> QED
    BY <1>2, <2>1, Put
<1> HIDE DEF u
<1>6. IsPut(w, u, k, x)
  <2>1. Tagged(u)
    BY <1>5 DEF IsPut
  <2> QED
    BY <2>1, Put
<1> HIDE DEF w
<1>7. t[o] = slot[o] /\ u[k] = slot[k]
  BY <1>4, <1>5 DEF IsPut
<1>8. /\ owners' \in [Resource -> Int]
      /\ \A r \in Resource : owners'[r] = owners[r] + (-1) * One(a, r)
  BY <1>1, OwnedIs
<1>9. ASSUME NEW r \in Resource
      PROVE  owners'[r] = owners[r] + Cardinality(Having(slot', r)) - Cardinality(Having(slot, r))
                            + One(hand', r) - One(hand, r)
  <2> DEFINE m == Cardinality(Having(slot, r))
             n == Cardinality(Having(w, r))
             i == One(a, r)
             j == One(b, r)
  <2>1. /\ m \in Nat /\ Cardinality(Having(t, r)) \in Nat
        /\ Cardinality(Having(t, r)) = m - i + One(y.val, r)
    BY <1>4 DEF IsPut
  <2>2. /\ Cardinality(Having(u, r)) \in Nat
        /\ Cardinality(Having(u, r)) = Cardinality(Having(t, r)) - One(t[o].val, r) + One(z.val, r)
    BY <1>5 DEF IsPut
  <2>3. /\ n \in Nat
        /\ n = Cardinality(Having(u, r)) - One(u[k].val, r) + One(x.val, r)
    BY <1>6 DEF IsPut
  <2>4. /\ One(y.val, r) = 0 /\ One(z.val, r) = 0 /\ One(u[k].val, r) = 0
    BY <1>2, <1>7, HuskIs
  <2>5. /\ One(t[o].val, r) = j /\ One(x.val, r) = j /\ i \in {0, 1} /\ j \in {0, 1}
        /\ One(hand, r) \in {0, 1} /\ One(hand', r) = One(hand, r) /\ owners[r] \in Int
        /\ owners'[r] = owners[r] + (-1) * i
    BY <1>1, <1>7, <1>8, HuskIs
  <2> HIDE DEF m, n, i, j
  <2>6. n = m - i
    BY <2>1, <2>2, <2>3, <2>4, <2>5
  <2>7. owners'[r] = owners[r] + n - m + One(hand', r) - One(hand, r)
    BY <2>1, <2>3, <2>5, <2>6
  <2> QED
    BY <1>3, <2>7 DEF m, n
<1>10. Tagged(slot')
  BY <1>3, <1>6 DEF IsPut
<1> QED
  BY <1>1, <1>8, <1>9, <1>10, Counted

\* operator|| gives the second.
LEMMA OrKeeps ==
  ASSUME OptionInv, NEW s \in Slot, NEW o \in Slot, NEW k \in Slot, O!Or(s, o, k)
  PROVE  OptionInv'
<1> DEFINE x == slot[o]
<1>1. /\ s # o /\ slot[k] = O!Absent /\ hand' = hand /\ O!Owned(slot[s].val, -1)
      /\ slot' = [slot EXCEPT ![s].val = O!Husk, ![o].val = O!Husk, ![k] = x]
      /\ x.val = slot[o].val
  BY DEF O!Or
<1>2. s # k /\ o # k
  BY <1>1, HuskIs DEF O!Or, O!IsOption
<1>3. x \in Slotted /\ (x.val # O!Husk => x.tag \in {"Some", "Ok"})
  BY SlotIs
<1> HIDE DEF x
<1> QED
  BY <1>1, <1>2, <1>3, TwoForOne

\* operator&& gives the second, or destroys it.
LEMMA AndKeeps ==
  ASSUME OptionInv, NEW s \in Slot, NEW o \in Slot, NEW k \in Slot, O!And(s, o, k)
  PROVE  OptionInv'
<1> DEFINE x == IF O!Holds(slot[s]) THEN slot[o] ELSE O!None
           v == IF O!Holds(slot[s]) THEN O!Husk ELSE slot[o].val
<1>1. /\ slot[k] = O!Absent /\ hand' = hand /\ O!Owned(v, -1)
      /\ slot' = [slot EXCEPT ![o].val = O!Husk, ![k] = x]
  BY DEF O!And
<1>2. o # k
  BY <1>1, HuskIs DEF O!And, O!IsOption
<1>3. x \in Slotted /\ (x.val # O!Husk => x.tag \in {"Some", "Ok"})
  BY SlotIs, HuskIs
<1>4. \/ x.val = slot[o].val /\ v = O!Husk
      \/ v = slot[o].val /\ x.val = O!Husk
  BY HuskIs
<1> HIDE DEF x, v
<1>5. slot' = [slot EXCEPT ![k] = x, ![o].val = O!Husk]
  <2>1. slot \in [Slot -> Slotted]
    BY OptionTypes DEF Tagged
  <2> QED
    BY <1>1, <1>2, <2>1
<1>6. \/ owners' = owners /\ x.val = slot[o].val
      \/ O!Owned(slot[o].val, -1) /\ x.val = O!Husk
  <2>1. CASE x.val = slot[o].val /\ v = O!Husk
    <3>1. owners \in [Resource -> Int]
      BY OptionTypes
    <3>2. /\ owners' \in [Resource -> Int]
          /\ \A r \in Resource : owners'[r] = owners[r] + (-1) * One(v, r)
      BY <1>1, <3>1, OwnedIs
    <3>3. \A r \in Resource : One(v, r) = 0
      BY <2>1, HuskIs
    <3>4. owners' = owners
      BY <3>1, <3>2, <3>3
    <3> QED
      BY <2>1, <3>4
  <2>2. CASE v = slot[o].val /\ x.val = O!Husk
    BY <1>1, <2>2
  <2> QED
    BY <1>4, <2>1, <2>2
<1> QED
  BY <1>1, <1>2, <1>3, <1>5, <1>6, GoesOver

\* Every operation of an Option or a Result keeps the count of owners.
LEMMA NextOption == ASSUME OptionInv, O!Next PROVE OptionInv'
<1>1. CASE O!New \/ O!DropHand
  BY <1>1, HandKeeps
<1>2. ASSUME NEW s \in Slot, O!Make(s) \/ O!Drop(s) \/ O!Unwrap(s) \/ O!UnwrapOr(s)
      PROVE  OptionInv'
  BY <1>2, MakeKeeps, DropKeeps, UnwrapKeeps
<1>3. ASSUME NEW s \in Slot, NEW k \in Slot,
             O!Copy(s, k) \/ O!Move(s, k) \/ O!MapInto(s, k) \/ O!AndThen(s, k) \/ O!OrElse(s, k) \/ O!Ok(s, k)
      PROVE  OptionInv'
  BY <1>3, CopyKeeps, MoveKeeps, MapIntoKeeps, AndThenKeeps, OrElseKeeps, OkKeeps
<1>4. ASSUME NEW s \in Slot, NEW o \in Slot, NEW k \in Slot, O!And(s, o, k) \/ O!Or(s, o, k)
      PROVE  OptionInv'
  BY <1>4, AndKeeps, OrKeeps
<1> QED
  BY <1>1, <1>2, <1>3, <1>4 DEF O!Next

\* What is known of Options and Results is not about Files.
LEMMA OptionStays == ASSUME OptionInv, UNCHANGED optionVars PROVE OptionInv'
BY DEF optionVars, OptionInv, Having, One

\* An INSTANCE counts sets as this module does.
LEMMA CardinalitySame == \A S : O!Cardinality(S) = Cardinality(S) /\ D!Cardinality(S) = Cardinality(S)
<1>1. \A S : O!Cardinality(S) = Cardinality(S)
  BY DEF O!Cardinality, Cardinality
<1>2. \A S : D!Cardinality(S) = Cardinality(S)
  BY DEF D!Cardinality, Cardinality
<1> QED
  BY <1>1, <1>2

\* The count is the one that is meant.
LEMMA OptionOwned == ASSUME OptionInv PROVE O!OwnersCounted /\ O!TagsTell
<1>1. O!TagsTell
  BY SlotIs DEF O!TagsTell
<1>2. ASSUME NEW r \in Resource
      PROVE  owners[r] = Cardinality({s \in Slot : slot[s].val = r}) + (IF hand = r THEN 1 ELSE 0)
  <2>1. owners[r] = Cardinality(Having(slot, r)) + One(hand, r)
    BY DEF OptionInv
  <2> QED
    BY <2>1 DEF Having, One
<1>3. O!OwnersCounted
  BY <1>2, CardinalitySame DEF O!OwnersCounted
<1> QED
  BY <1>1, <1>3

(***************************************************************************)
(* Files                                                                   *)
(***************************************************************************)

\* A set of numbers that is not empty has a least one.
LEMMA LowestIs ==
  ASSUME NEW A \in SUBSET Nat, A # {}
  PROVE  D!Min(A) \in A
<1>1. \E i \in A : \A k \in A : i <= k
  BY LeastNumber
<1> QED
  BY <1>1 DEF D!Min

\* A descriptor that is open, and a read that was begun
Mode == [read : BOOLEAN, write : BOOLEAN, append : BOOLEAN]
Desc == [mode : Mode, pos : Nat]
Begun == [state : {"runs", "done", "eof"}, handle : Handle, want : Int, start : Nat, at : Nat, buf : Seq(Int)]

\* A read that runs stands where its turns have led it, and wants more; what
\* was read is what stands in the file.
ReadInv ==
  /\ call.buf = SubSeq(file, call.start + 1, call.start + call.at)
  /\ call.at > 0 => call.start + call.at <= Len(file)
  /\ call.state = "runs" => /\ fid[call.handle] \in Fids
                            /\ table[fid[call.handle]] \in Desc
                            /\ table[fid[call.handle]].pos = call.start + call.at
                            /\ call.want = -1 \/ call.at < call.want
  /\ call.state = "done" => call.at = call.want
  /\ call.state = "eof" => call.start + call.at >= Len(file) /\ call.at # call.want

\* A File has a descriptor that is open, or none, and no two have the same;
\* a descriptor that is open has a File.
FidsInv ==
  /\ fid \in [Handle -> Fids \cup {0, -1}]
  /\ table \in [Fids -> Desc \cup {D!Closed}]
  /\ \A h \in Handle : fid[h] \in Fids => table[fid[h]] \in Desc
  /\ \A h, k \in Handle : fid[h] \in Fids /\ fid[h] = fid[k] => h = k
  /\ \A f \in Fids : table[f] \in Desc => \E h \in Handle : fid[h] = f

\* What the steps preserve of Files
FilesInv ==
  /\ FidsInv
  /\ file \in Seq(Int)
  /\ call \in Begun \cup {D!NoCall}
  /\ call \in Begun => ReadInv

\* A descriptor that is open is not closed.
LEMMA DescIs == D!Closed \notin Desc /\ 0 \notin Fids /\ -1 \notin Fids
BY LibraryAssumption DEF D!Closed, Desc

\* Nor is a read that was begun none.
LEMMA BegunIs == D!NoCall \notin Begun /\ D!NoCall.state = "none"
BY DEF D!NoCall, Begun

\* No File has a descriptor at first.
LEMMA InitFiles == D!Init => FilesInv
<1> SUFFICES ASSUME D!Init PROVE FilesInv
  OBVIOUS
<1>1. /\ file = D!Absent /\ table = [f \in Fids |-> D!Closed] /\ fid = [h \in Handle |-> D!NoFile] /\ call = D!NoCall
  BY DEF D!Init
<1>2. FidsInv
  BY <1>1, DescIs DEF FidsInv, D!NoFile
<1>3. file \in Seq(Int)
  BY <1>1 DEF D!Absent
<1> QED
  BY <1>1, <1>2, <1>3, BegunIs DEF FilesInv

\* A File that is opened has the least descriptor that was free.
LEMMA OpenKeeps ==
  ASSUME FilesInv, NEW h \in Handle, NEW o \in D!Options, D!Open(h, o)
  PROVE  FilesInv'
<1>1. call' = D!NoCall /\ fid[h] = 0
  BY DEF D!Open, D!NoFile
<1>2. CASE UNCHANGED <<file, table, fid>>
  BY <1>1, <1>2, BegunIs DEF FilesInv, FidsInv
<1>3. CASE ~UNCHANGED <<file, table, fid>>
  <2> DEFINE f == D!Min(D!Free)
             d == [mode |-> D!AccessMode(o), pos |-> 0]
  <2>1. /\ D!Free # {} /\ file' \in {file, <<>>}
        /\ table' = [table EXCEPT ![f] = d] /\ fid' = [fid EXCEPT ![h] = f]
    BY <1>3 DEF D!Open
  <2>2. f \in Fids /\ table[f] = D!Closed
    <3>1. D!Free \in SUBSET Nat
      BY LibraryAssumption DEF D!Free
    <3>2. f \in D!Free
      BY <2>1, <3>1, LowestIs
    <3> QED
      BY <3>2 DEF D!Free
  <2>3. d \in Desc
    BY DEF D!Options, D!AccessMode, Desc, Mode
  <2> HIDE DEF f, d
  <2>4. FidsInv
    BY DEF FilesInv
  <2>5. \A k \in Handle : fid[k] # f
    BY <2>2, <2>4, DescIs DEF FidsInv
  <2>6. FidsInv'
    BY <1>1, <2>1, <2>2, <2>3, <2>4, <2>5, DescIs DEF FidsInv
  <2>7. file' \in Seq(Int)
    <3>1. file \in Seq(Int) /\ <<>> \in Seq(Int)
      BY DEF FilesInv
    <3> QED
      BY <2>1, <3>1
  <2> QED
    BY <1>1, <2>6, <2>7, BegunIs DEF FilesInv
<1> QED
  BY <1>2, <1>3

\* The move constructor moves the descriptor.
LEMMA FileMoveKeeps ==
  ASSUME FilesInv, NEW h \in Handle, NEW k \in Handle, D!Move(h, k)
  PROVE  FilesInv'
<1>1. /\ call' = D!NoCall /\ fid[h] # 0 /\ fid[k] = 0 /\ file' = file /\ table' = table
      /\ fid' = [fid EXCEPT ![k] = fid[h], ![h] = -1]
  BY DEF D!Move, D!NoFile
<1>2. FidsInv
  BY DEF FilesInv
<1>3. h # k /\ fid \in [Handle -> Fids \cup {0, -1}]
  BY <1>1, <1>2 DEF FidsInv
<1>4. \A i \in Handle : fid'[i] = IF i = h THEN -1 ELSE IF i = k THEN fid[h] ELSE fid[i]
  BY <1>1, <1>3
<1>5. fid' \in [Handle -> Fids \cup {0, -1}]
  BY <1>1, <1>3
<1>6. \A i \in Handle : fid'[i] \in Fids => table'[fid'[i]] \in Desc
  BY <1>1, <1>2, <1>4, DescIs DEF FidsInv
<1>7. \A i, j \in Handle : fid'[i] \in Fids /\ fid'[i] = fid'[j] => i = j
  BY <1>1, <1>2, <1>4, DescIs DEF FidsInv
<1>8. \A f \in Fids : table'[f] \in Desc => \E i \in Handle : fid'[i] = f
  BY <1>1, <1>2, <1>4, DescIs DEF FidsInv
<1>9. FidsInv'
  BY <1>1, <1>2, <1>5, <1>6, <1>7, <1>8 DEF FidsInv
<1> QED
  BY <1>1, <1>9, BegunIs DEF FilesInv

\* The destructor closes the descriptor of a File that has one.
LEMMA FileDropKeeps ==
  ASSUME FilesInv, NEW h \in Handle, D!Drop(h)
  PROVE  FilesInv'
<1>1. /\ call' = D!NoCall /\ fid[h] # 0 /\ file' = file
      /\ fid' = [fid EXCEPT ![h] = 0]
      /\ IF fid[h] = -1 THEN table' = table ELSE table' = [table EXCEPT ![fid[h]] = D!Closed]
  BY DEF D!Drop, D!NoFile
<1>2. FidsInv
  BY DEF FilesInv
<1>3. CASE fid[h] = -1
  BY <1>1, <1>2, <1>3, DescIs, BegunIs DEF FidsInv, FilesInv
<1>4. CASE fid[h] # -1
  <2>1. fid[h] \in Fids /\ table' = [table EXCEPT ![fid[h]] = D!Closed]
    BY <1>1, <1>2, <1>4 DEF FidsInv
  <2>2. FidsInv'
    BY <1>1, <1>2, <2>1, DescIs DEF FidsInv
  <2> QED
    BY <1>1, <2>2, BegunIs DEF FilesInv
<1> QED
  BY <1>3, <1>4

\* What moves the position of an open descriptor leaves the rest as it is.
LEMMA PosKeeps ==
  ASSUME FidsInv, NEW f \in Fids, table[f] \in Desc, NEW p \in Nat,
         fid' = fid, table' = [table EXCEPT ![f].pos = p]
  PROVE  /\ FidsInv'
         /\ table'[f] \in Desc /\ table'[f].pos = p
<1> DEFINE d == [table[f] EXCEPT !.pos = p]
<1>1. d \in Desc /\ d.pos = p
  BY DEF Desc
<1>2. table' = [table EXCEPT ![f] = d]
  OBVIOUS
<1> HIDE DEF d
<1>3. table'[f] = d
  BY <1>2 DEF FidsInv
<1> QED
  BY <1>1, <1>2, <1>3 DEF FidsInv

\* A File that can be used has an open descriptor.
LEMMA UsableIs ==
  ASSUME FidsInv, NEW h \in Handle, D!Usable(h)
  PROVE  fid[h] \in Fids /\ table[fid[h]] \in Desc /\ table[fid[h]].pos \in Nat /\ table[fid[h]].mode \in Mode
BY DEF FidsInv, D!Usable, Desc

\* A byte is written at the end or at the position.
LEMMA FileWriteKeeps ==
  ASSUME FilesInv, NEW h \in Handle, NEW b \in Bytes, D!Write(h, b)
  PROVE  FilesInv'
<1> DEFINE d == table[fid[h]]
           at == IF d.mode.append THEN Len(file) ELSE d.pos
<1>1. FidsInv /\ file \in Seq(Int) /\ Len(file) \in Nat /\ b \in Int
  BY LibraryAssumption DEF FilesInv
<1>2. /\ call' = D!NoCall /\ fid' = fid /\ D!Usable(h)
      /\ file' = IF at < Len(file) THEN [file EXCEPT ![at + 1] = b]
                 ELSE [i \in 1 .. at + 1 |-> IF i <= Len(file) THEN file[i] ELSE IF i = at + 1 THEN b ELSE 0]
      /\ table' = [table EXCEPT ![fid[h]].pos = at + 1]
  BY DEF D!Write
<1>3. fid[h] \in Fids /\ d \in Desc /\ d.pos \in Nat
  BY <1>1, <1>2, UsableIs
<1> HIDE DEF d
<1>4. at \in Nat
  BY <1>1, <1>3
<1> HIDE DEF at
<1> DEFINE p == at + 1
<1>5. FidsInv'
  <2>1. p \in Nat /\ table' = [table EXCEPT ![fid[h]].pos = p] /\ table[fid[h]] \in Desc
    BY <1>2, <1>3, <1>4 DEF d
  <2> HIDE DEF p
  <2> QED
    BY <1>1, <1>2, <1>3, <2>1, PosKeeps
<1>6. file' \in Seq(Int)
  <2>1. CASE at < Len(file)
    BY <1>1, <1>2, <1>4, <2>1
  <2>2. CASE ~(at < Len(file))
    <3> DEFINE s == [i \in 1 .. at + 1 |-> IF i <= Len(file) THEN file[i] ELSE IF i = at + 1 THEN b ELSE 0]
    <3>1. \A i \in 1 .. at + 1 : (IF i <= Len(file) THEN file[i] ELSE IF i = at + 1 THEN b ELSE 0) \in Int
      BY <1>1, <1>4
    <3>2. s \in Seq(Int)
      BY <1>4, <3>1
    <3> QED
      BY <1>2, <2>2, <3>2
  <2> QED
    BY <2>1, <2>2
<1> QED
  BY <1>2, <1>5, <1>6, BegunIs DEF FilesInv

\* seek moves the position.
LEMMA SeekKeeps ==
  ASSUME FilesInv, NEW h \in Handle, D!Seek(h)
  PROVE  FilesInv'
<1>1. FidsInv /\ file \in Seq(Int)
  BY DEF FilesInv
<1>2. PICK p \in 0 .. MaxFile : table' = [table EXCEPT ![fid[h]].pos = p]
  BY DEF D!Seek
<1>3. call' = D!NoCall /\ fid' = fid /\ file' = file /\ D!Usable(h)
  BY DEF D!Seek
<1>4. fid[h] \in Fids /\ table[fid[h]] \in Desc /\ p \in Nat
  BY <1>1, <1>3, UsableIs
<1>5. FidsInv'
  BY <1>1, <1>2, <1>3, <1>4, PosKeeps
<1> QED
  BY <1>1, <1>3, <1>5, BegunIs DEF FilesInv

\* A read begins where the descriptor stands, with nothing read.
LEMMA ReadBeginKeeps ==
  ASSUME FilesInv, NEW h \in Handle, D!ReadBegin(h)
  PROVE  FilesInv'
<1>1. FidsInv /\ file \in Seq(Int) /\ Len(file) \in Nat
  BY DEF FilesInv
<1>2. PICK want \in -1 .. MaxFile :
        call' = [state |-> IF want = 0 THEN "done" ELSE "runs", handle |-> h, want |-> want,
                 start |-> table[fid[h]].pos, at |-> 0, buf |-> <<>>]
  BY DEF D!ReadBegin
<1>3. fid' = fid /\ file' = file /\ table' = table /\ D!Usable(h)
  BY DEF D!ReadBegin
<1>4. fid[h] \in Fids /\ table[fid[h]] \in Desc /\ table[fid[h]].pos \in Nat
  BY <1>1, <1>3, UsableIs
<1> DEFINE c == call'
           p == table[fid[h]].pos
<1>5. want \in Int /\ (want = -1 \/ want = 0 \/ want > 0)
  BY LibraryAssumption
<1>6. /\ c.state = (IF want = 0 THEN "done" ELSE "runs") /\ c.handle = h /\ c.want = want
      /\ c.start = p /\ c.at = 0 /\ c.buf = <<>>
  BY <1>2
<1>7. c \in Begun
  <2> HIDE DEF p
  <2>1. p \in Nat /\ <<>> \in Seq(Int)
    BY <1>4 DEF p
  <2> QED
    BY <1>2, <1>5, <2>1 DEF Begun, p
<1>8. <<>> = SubSeq(file, p + 1, p + 0)
  <2> HIDE DEF p
  <2>1. p \in Nat
    BY <1>4 DEF p
  <2> QED
    BY <1>1, <2>1
<1> HIDE DEF c, p
<1>9. /\ c.buf = SubSeq(file', c.start + 1, c.start + c.at)
      /\ ~(c.at > 0)
      /\ c.state = "runs" => /\ fid'[c.handle] \in Fids
                             /\ table'[fid'[c.handle]] \in Desc
                             /\ table'[fid'[c.handle]].pos = c.start + c.at
                             /\ c.want = -1 \/ c.at < c.want
      /\ c.state = "done" => c.at = c.want
      /\ c.state # "eof"
  <2>1. c.buf = SubSeq(file', c.start + 1, c.start + c.at)
    BY <1>3, <1>6, <1>8
  <2>2. p + 0 = p
    BY <1>4 DEF p
  <2>3. c.state = "runs" => /\ fid'[c.handle] \in Fids
                            /\ table'[fid'[c.handle]] \in Desc
                            /\ table'[fid'[c.handle]].pos = c.start + c.at
                            /\ c.want = -1 \/ c.at < c.want
    <3> SUFFICES ASSUME c.state = "runs"
                 PROVE /\ fid'[c.handle] \in Fids
                       /\ table'[fid'[c.handle]] \in Desc
                       /\ table'[fid'[c.handle]].pos = c.start + c.at
                       /\ c.want = -1 \/ c.at < c.want
      OBVIOUS
    <3>1. fid'[c.handle] = fid[h] /\ table' = table
      BY <1>3, <1>6
    <3>2. table'[fid'[c.handle]].pos = p
      BY <3>1 DEF p
    <3>3. c.want = -1 \/ c.at < c.want
      BY <1>5, <1>6
    <3> QED
      BY <1>4, <1>6, <2>2, <3>1, <3>2, <3>3
  <2>4. ~(c.at > 0)
    BY <1>6
  <2>5. c.state = "done" => c.at = c.want
    BY <1>6
  <2>6. c.state # "eof"
    BY <1>6
  <2> QED
    BY Zenon, <2>1, <2>3, <2>4, <2>5, <2>6
<1>10. ReadInv'
  BY <1>9 DEF ReadInv, c
<1>11. FidsInv'
  BY <1>1, <1>3 DEF FidsInv
<1> QED
  BY <1>1, <1>3, <1>7, <1>10, <1>11, BegunIs DEF FilesInv, c

\* A piece that is read behind what was read before continues it.
LEMMA FilledIs ==
  ASSUME NEW s \in Seq(Int), NEW from \in Nat, NEW at \in Nat, NEW n \in Nat,
         n > 0, from + at + n <= Len(s)
  PROVE  D!Filled(SubSeq(s, from + 1, from + at), at, SubSeq(s, from + at + 1, from + at + n))
           = SubSeq(s, from + 1, from + at + n)
<1> DEFINE L == SubSeq(s, from + 1, from + at)
           R == SubSeq(s, from + at + 1, from + at + n)
           W == SubSeq(s, from + 1, from + at + n)
<1>1. L \in Seq(Int) /\ Len(L) = at /\ \A i \in 1 .. at : L[i] = s[from + i]
  <2>1. Len(s) \in Nat
    OBVIOUS
  <2>2. L = [i \in 1 .. at |-> s[from + i]]
    BY <2>1
  <2> QED
    BY <2>1, <2>2
<1>2. R \in Seq(Int) /\ Len(R) = n /\ \A i \in 1 .. n : R[i] = s[from + at + i]
  <2>1. Len(s) \in Nat
    OBVIOUS
  <2>2. R = [i \in 1 .. n |-> s[from + at + i]]
    BY <2>1
  <2> QED
    BY <2>1, <2>2
<1>3. W = [i \in 1 .. at + n |-> s[from + i]]
  <2>1. Len(s) \in Nat
    OBVIOUS
  <2> QED
    BY <2>1
<1> HIDE DEF L, R, W
<1>4. D!Filled(L, at, R) = [i \in 1 .. at + n |-> IF i <= at THEN L[i] ELSE R[i - at]]
  BY <1>2 DEF D!Filled
<1>5. \A i \in 1 .. at + n : (IF i <= at THEN L[i] ELSE R[i - at]) = s[from + i]
  <2> SUFFICES ASSUME NEW i \in 1 .. at + n
               PROVE (IF i <= at THEN L[i] ELSE R[i - at]) = s[from + i]
    OBVIOUS
  <2>1. CASE i <= at
    BY <1>1, <2>1
  <2>2. CASE ~(i <= at)
    <3>1. i - at \in 1 .. n /\ from + at + (i - at) = from + i
      BY <2>2
    <3>2. R[i - at] = s[from + at + (i - at)]
      BY <1>2, <3>1
    <3> QED
      BY <2>2, <3>1, <3>2
  <2> QED
    BY <2>1, <2>2
<1>6. D!Filled(L, at, R) = W
  BY <1>3, <1>4, <1>5
<1> QED
  BY <1>6 DEF L, R, W

\* A turn of a read gives bytes of the file, and moves the position behind
\* them; without bytes it ends the read.
LEMMA ReadTurnKeeps ==
  ASSUME FilesInv, D!ReadTurn
  PROVE  FilesInv'
<1> DEFINE f == fid[call.handle]
           d == table[f]
           start == call.start
           at == call.at
           want == call.want
           there == Len(file) - d.pos
           most == IF want = -1 \/ there < want - at THEN there ELSE want - at
<1>1. FidsInv /\ file \in Seq(Int) /\ Len(file) \in Nat
  BY DEF FilesInv
<1>2. call.state = "runs" /\ file' = file /\ fid' = fid
  BY DEF D!ReadTurn, D!Reading
<1>3. call \in Begun /\ ReadInv
  BY <1>2, BegunIs DEF FilesInv
<1>4. /\ call = [state |-> "runs", handle |-> call.handle, want |-> want, start |-> start, at |-> at, buf |-> call.buf]
      /\ call.handle \in Handle /\ want \in Int /\ start \in Nat /\ at \in Nat /\ call.buf \in Seq(Int)
  BY <1>2, <1>3 DEF Begun
<1>5. /\ call.buf = SubSeq(file, start + 1, start + at)
      /\ at > 0 => start + at <= Len(file)
      /\ f \in Fids /\ d \in Desc /\ d.pos = start + at
      /\ want = -1 \/ at < want
  BY <1>2, <1>3 DEF ReadInv
<1>6. CASE there <= 0 /\ call' = [call EXCEPT !.state = "eof"] /\ UNCHANGED table
  <2> DEFINE c == call'
  <2>1. there <= 0 /\ call' = [call EXCEPT !.state = "eof"] /\ table' = table
    BY <1>6
  <2>2. c = [state |-> "eof", handle |-> call.handle, want |-> want, start |-> start, at |-> at, buf |-> call.buf]
    BY <1>4, <2>1
  <2>3. c \in Begun
    BY <1>4, <2>2 DEF Begun
  <2>4. c.state = "eof" /\ c.want = want /\ c.start = start /\ c.at = at /\ c.buf = call.buf
    BY <2>2
  <2> HIDE DEF c
  <2>5. start + at >= Len(file) /\ at # want
    <3> DEFINE size == Len(file)
    <3>1. there = size - (start + at) /\ size \in Nat
      BY <1>1, <1>5
    <3> HIDE DEF start, at, want, there, size
    <3>2. start + at >= size
      BY <1>4, <2>1, <3>1
    <3>3. at # want
      BY <1>4, <1>5
    <3> QED
      BY <3>2, <3>3 DEF size
  <2>6. ReadInv'
    <3>1. c.buf = SubSeq(file', c.start + 1, c.start + c.at)
      BY <1>2, <1>5, <2>4
    <3>2. c.at > 0 => c.start + c.at <= Len(file')
      BY <1>2, <1>5, <2>4
    <3>3. c.start + c.at >= Len(file') /\ c.at # c.want
      BY <1>2, <2>4, <2>5
    <3>4. c.state # "runs" /\ c.state # "done"
      BY <2>4
    <3> QED
      BY <3>1, <3>2, <3>3, <3>4 DEF ReadInv, c
  <2>7. FidsInv'
    BY <1>1, <1>2, <2>1 DEF FidsInv
  <2> QED
    BY <1>1, <1>2, <2>3, <2>6, <2>7, BegunIs DEF FilesInv, c
<1>7. ASSUME NEW n \in 1 .. most,
             call' = [call EXCEPT !.at = @ + n,
                                  !.buf = D!Filled(@, call.at, SubSeq(file, d.pos + 1, d.pos + n)),
                                  !.state = IF call.at + n = call.want THEN "done" ELSE "runs"],
             table' = [table EXCEPT ![fid[call.handle]].pos = @ + n]
      PROVE  FilesInv'
  <2> DEFINE c == call'
             p == start + at + n
             buf == SubSeq(file, start + 1, p)
             end == IF at + n = want THEN "done" ELSE "runs"
  <2>1. /\ most \in Int /\ most <= there /\ there = Len(file) - (start + at)
        /\ want = -1 \/ most <= want - at
    <3>1. there = Len(file) - (start + at)
      BY <1>5
    <3> DEFINE size == Len(file)
    <3>2. there = size - (start + at) /\ size \in Nat
      BY <1>1, <3>1
    <3> HIDE DEF start, at, want, there, size
    <3>3. most \in Int /\ most <= there /\ (want = -1 \/ most <= want - at)
      BY <1>4, <3>2
    <3> QED
      BY <3>1, <3>3
  <2> HIDE DEF most, there
  <2>2. n \in Nat /\ n > 0 /\ p \in Nat /\ p <= Len(file) /\ (want = -1 \/ at + n <= want)
    <3> DEFINE size == Len(file)
    <3>1. size \in Nat /\ n \in Nat /\ n > 0 /\ n <= most
      BY <1>1, <2>1
    <3>2. there = size - (start + at)
      BY <2>1
    <3> HIDE DEF start, at, want, size
    <3>3. start + at + n <= size /\ start + at + n \in Nat
      BY <1>4, <2>1, <3>1, <3>2
    <3>4. want = -1 \/ at + n <= want
      BY <1>4, <2>1, <3>1
    <3> QED
      BY <3>1, <3>3, <3>4 DEF size
  <2>3. D!Filled(call.buf, at, SubSeq(file, d.pos + 1, d.pos + n)) = buf
    <3> HIDE DEF start, at, d
    <3>1. D!Filled(SubSeq(file, start + 1, start + at), at, SubSeq(file, start + at + 1, start + at + n))
            = SubSeq(file, start + 1, start + at + n)
      BY <1>1, <1>4, <2>2, FilledIs
    <3> QED
      BY <1>5, <3>1
  <2>4. c = [state |-> end, handle |-> call.handle, want |-> want, start |-> start, at |-> at + n, buf |-> buf]
    BY <1>4, <1>7, <2>3
  <2>5. buf \in Seq(Int)
    <3> HIDE DEF start, at
    <3>1. start + 1 \in Nat /\ start + 1 >= 1
      BY <1>4
    <3> HIDE DEF p
    <3> QED
      BY <1>1, <2>2, <3>1
  <2> HIDE DEF buf, c
  <2>6. c.state = end /\ c.handle = call.handle /\ c.want = want /\ c.start = start /\ c.at = at + n /\ c.buf = buf
    BY <2>4
  <2>7. at + n \in Nat /\ at + n # 0 /\ start + (at + n) = p
    <3> HIDE DEF start, at
    <3> QED
      BY <1>4, <2>2
  <2>8. c \in Begun
    BY <1>4, <2>4, <2>5, <2>7 DEF Begun
  <2>9. table' = [table EXCEPT ![f].pos = p]
    <3>1. d.pos + n = p
      BY <1>5
    <3> HIDE DEF p
    <3> QED
      BY <1>7, <3>1
  <2>10. FidsInv' /\ table'[f] \in Desc /\ table'[f].pos = p
    <3> HIDE DEF f, p
    <3> QED
      BY <1>1, <1>2, <1>5, <2>2, <2>9, PosKeeps DEF d
  <2>11. ReadInv'
    <3>1. c.buf = SubSeq(file', c.start + 1, c.start + c.at)
      BY <1>2, <2>6, <2>7 DEF buf
    <3>2. c.at > 0 => c.start + c.at <= Len(file')
      BY <1>2, <2>2, <2>6, <2>7
    <3>3. c.state = "runs" => /\ fid'[c.handle] \in Fids
                              /\ table'[fid'[c.handle]] \in Desc
                              /\ table'[fid'[c.handle]].pos = c.start + c.at
                              /\ c.want = -1 \/ c.at < c.want
      <4> SUFFICES ASSUME c.state = "runs"
                   PROVE /\ fid'[c.handle] \in Fids
                         /\ table'[fid'[c.handle]] \in Desc
                         /\ table'[fid'[c.handle]].pos = c.start + c.at
                         /\ c.want = -1 \/ c.at < c.want
        OBVIOUS
      <4>1. fid'[c.handle] = f
        BY <1>2, <2>6
      <4>2. at + n # want
        BY <2>6
      <4>3. c.want = -1 \/ c.at < c.want
        <5> HIDE DEF at, want
        <5> QED
          BY <1>4, <2>2, <2>6, <2>7, <4>2
      <4>4. c.start + c.at = p
        BY <2>6, <2>7
      <4> HIDE DEF f, p
      <4> QED
        BY <1>5, <2>10, <4>1, <4>3, <4>4
    <3>4. c.state = "done" => c.at = c.want
      BY <2>6
    <3>5. c.state # "eof"
      BY <2>6
    <3> QED
      BY Zenon, <3>1, <3>2, <3>3, <3>4, <3>5 DEF ReadInv, c
  <2> QED
    BY <1>1, <1>2, <2>8, <2>10, <2>11, BegunIs DEF FilesInv, c
<1> QED
  <2>1. \/ there <= 0 /\ call' = [call EXCEPT !.state = "eof"] /\ UNCHANGED table
        \/ \E n \in 1 .. most :
             /\ call' = [call EXCEPT !.at = @ + n,
                                     !.buf = D!Filled(@, call.at, SubSeq(file, d.pos + 1, d.pos + n)),
                                     !.state = IF call.at + n = call.want THEN "done" ELSE "runs"]
             /\ table' = [table EXCEPT ![fid[call.handle]].pos = @ + n]
    BY DEF D!ReadTurn
  <2> QED
    BY Zenon, <1>6, <1>7, <2>1

\* Every step of Files preserves what they are.
LEMMA NextFiles == FilesInv /\ D!Next => FilesInv'
<1> SUFFICES ASSUME FilesInv, D!Next PROVE FilesInv'
  OBVIOUS
<1>1. CASE \E h \in Handle, o \in D!Options : D!Open(h, o)
  BY Zenon, <1>1, OpenKeeps
<1>2. CASE \E h, k \in Handle : D!Move(h, k)
  BY Zenon, <1>2, FileMoveKeeps
<1>3. CASE \E h \in Handle : D!Drop(h)
  BY Zenon, <1>3, FileDropKeeps
<1>4. CASE \E h \in Handle : D!Seek(h)
  BY Zenon, <1>4, SeekKeeps
<1>5. CASE \E h \in Handle : D!ReadBegin(h)
  BY Zenon, <1>5, ReadBeginKeeps
<1>6. CASE \E h \in Handle : \E b \in Bytes : D!Write(h, b)
  BY Zenon, <1>6, FileWriteKeeps
<1>7. CASE D!ReadTurn
  BY <1>7, ReadTurnKeeps
<1> QED
  BY Zenon, <1>1, <1>2, <1>3, <1>4, <1>5, <1>6, <1>7 DEF D!Next

\* A step of the others leaves them alone.
LEMMA FilesStay == FilesInv /\ UNCHANGED fileVars => FilesInv'
BY DEF FilesInv, FidsInv, ReadInv, fileVars

\* A descriptor has the owners that DescriptorsOwned says: one Handle has it,
\* because no two have the same, or none.
LEMMA DescriptorsAreOwned == FilesInv => D!DescriptorsOwned
<1> SUFFICES ASSUME FilesInv, NEW f \in Fids
             PROVE D!Cardinality({h \in Handle : fid[h] = f}) = IF table[f] = D!Closed THEN 0 ELSE 1
  BY DEF D!DescriptorsOwned
<1> DEFINE A == {h \in Handle : fid[h] = f}
<1>1. FidsInv
  BY DEF FilesInv
<1>2. D!Cardinality(A) = Cardinality(A)
  BY CardinalitySame
<1>3. CASE table[f] = D!Closed
  <2>1. A = {}
    BY <1>1, <1>3, DescIs DEF FidsInv
  <2> QED
    BY <1>2, <1>3, <2>1, FS_EmptySet
<1>4. CASE table[f] # D!Closed
  <2>1. PICK h \in Handle : fid[h] = f
    BY <1>1, <1>4 DEF FidsInv
  <2>2. A = {h}
    BY <1>1, <2>1 DEF FidsInv
  <2> QED
    BY <1>2, <1>4, <2>2, FS_Singleton
<1> QED
  BY <1>3, <1>4

\* What a read has is what ReadsWhole says.
LEMMA ReadsAreWhole == FilesInv => D!ReadsWhole
BY DEF FilesInv, ReadInv, D!ReadsWhole

\* A step that opens a File gives it the mode that was asked for and keeps the
\* content that truncate does not take away.
LEMMA OpenShows ==
  ASSUME FilesInv, NEW h \in Handle, NEW o \in D!Options, fid[h] = D!NoFile, fid'[h] # D!NoFile, D!Open(h, o)
  PROVE  LET mode == table'[fid'[h]].mode IN
         /\ o.read => mode.read
         /\ o.write \/ o.append => mode.write
         /\ mode.write => o.write \/ mode.append
         /\ file # D!Absent => ~o.create_new /\ (file' = file \/ o.truncate)
<1> DEFINE f == D!Min(D!Free)
           how == D!CreateMode(o)
           m == D!AccessMode(o)
           d == [mode |-> m, pos |-> 0]
<1>1. FidsInv
  BY DEF FilesInv
<1>2. ~UNCHANGED <<file, table, fid>>
  OBVIOUS
<1>3. /\ D!Free # {} /\ ~(file # D!Absent /\ how.excl)
      /\ file' = IF file = D!Absent \/ how.trunc THEN <<>> ELSE file
      /\ table' = [table EXCEPT ![f] = d] /\ fid' = [fid EXCEPT ![h] = f]
  BY <1>2 DEF D!Open
<1>4. f \in Fids
  <2>1. D!Free \in SUBSET Nat
    BY LibraryAssumption DEF D!Free
  <2>2. f \in D!Free
    BY <1>3, <2>1, LowestIs
  <2> QED
    BY <2>2 DEF D!Free
<1>5. d.mode = m
  OBVIOUS
<1> HIDE DEF f, d
<1>6. table'[fid'[h]] = d
  BY <1>1, <1>3, <1>4 DEF FidsInv
<1>7. table'[fid'[h]].mode = m
  BY <1>5, <1>6
<1>8. /\ o.read => m.read
      /\ o.write \/ o.append => m.write
      /\ m.write => o.write \/ m.append
  BY DEF D!AccessMode, D!Options
<1>9. file # D!Absent => ~o.create_new /\ (file' = file \/ o.truncate)
  BY <1>3 DEF D!CreateMode, D!Options
<1> HIDE DEF m
<1> QED
  BY <1>7, <1>8, <1>9

\* A step that writes through a File that appends keeps what was there.
LEMMA AppendShows ==
  ASSUME FilesInv, NEW h \in Handle, NEW b \in Bytes, D!Usable(h), table[fid[h]].mode.append, D!Write(h, b)
  PROVE  SubSeq(file', 1, Len(file)) = file
<1> DEFINE size == Len(file)
           s == [i \in 1 .. size + 1 |-> IF i <= size THEN file[i] ELSE IF i = size + 1 THEN b ELSE 0]
<1>1. file \in Seq(Int) /\ size \in Nat /\ b \in Int
  BY LibraryAssumption DEF FilesInv
<1>2. file' = s
  BY <1>1 DEF D!Write
<1>3. s \in Seq(Int) /\ Len(s) = size + 1 /\ \A i \in 1 .. size : s[i] = file[i]
  <2>1. \A i \in 1 .. size + 1 : (IF i <= size THEN file[i] ELSE IF i = size + 1 THEN b ELSE 0) \in Int
    BY <1>1
  <2> QED
    BY <1>1, <2>1
<1> HIDE DEF s
<1>4. SubSeq(s, 1, size) = [i \in 1 .. size |-> file[i]]
  <2> HIDE DEF size
  <2> QED
    BY <1>1, <1>3
<1>5. file = [i \in 1 .. size |-> file[i]]
  BY <1>1
<1> QED
  BY <1>2, <1>4, <1>5
(***************************************************************************)
(* Paths                                                                   *)
(***************************************************************************)

\* A set of numbers below a bound has a greatest one.
LEMMA GreatestOf ==
  ASSUME NEW n \in Nat, NEW A \in SUBSET (0 .. n), A # {}
  PROVE  \E i \in A : \A k \in A : i >= k
<1> DEFINE B == {n - k : k \in A}
<1>1. B \in SUBSET Nat /\ B # {}
  <2>1. \A k \in A : n - k \in Nat
    OBVIOUS
  <2>2. PICK k \in A : TRUE
    OBVIOUS
  <2>3. n - k \in B
    BY <2>2
  <2> QED
    BY <2>1, <2>3
<1>2. PICK i \in B : \A k \in B : i <= k
  <2> HIDE DEF B
  <2> QED
    BY <1>1, LeastNumber
<1>3. PICK j \in A : i = n - j
  BY <1>2
<1>4. \A k \in A : n - k \in B
  OBVIOUS
<1> HIDE DEF B
<1>5. \A k \in A : n - j <= n - k
  BY <1>2, <1>3, <1>4
<1>6. \A k \in A : j >= k
  BY <1>5
<1> QED
  BY <1>6

\* The texts that are paths, or parts of one
Paths == Seq(P!Char)

\* The characters that are put into a path
LEMMA CharsAre ==
  "/" \in P!Char /\ \A s \in PathParts \cup PathNames \cup PathExts : s \in Paths
BY LibraryAssumption DEF P!PathAssumption, P!Char, Paths

\* A character is looked for from the end: it is not there, or stands behind r,
\* and not behind that.
IsLast(p, c, r) ==
  \/ r = P!None /\ \A i \in 1 .. Len(p) : p[i] # c
  \/ \E k \in 0 .. Len(p) - 1 :
       /\ r = P!Some(k) /\ p[k + 1] = c
       /\ \A i \in 1 .. Len(p) : i > k + 1 => p[i] # c

\* rfind of a character
LEMMA RfindIs ==
  ASSUME NEW T, NEW p \in Seq(T), NEW c
  PROVE  IsLast(p, c, P!Rfind(p, P!CharPat(c)))
<1> DEFINE A == {i \in 0 .. Len(p) - 1 : p[i + 1] = c}
<1>1. P!Finger(P!CharPat(c), p) = Len(p) /\ Len(p) \in Nat
  BY DEF P!Finger, P!CharPat
<1>2. P!Hits(P!CharPat(c), p) = A
  BY <1>1 DEF P!Hits, P!Holds, P!CharPat
<1>3. P!Rfind(p, P!CharPat(c)) = IF A = {} THEN P!None ELSE P!Some(P!Max(A))
  BY <1>1, <1>2 DEF P!Rfind
<1>4. CASE A = {}
  <2>1. \A i \in 1 .. Len(p) : p[i] # c
    <3> SUFFICES ASSUME NEW i \in 1 .. Len(p), p[i] = c PROVE FALSE
      OBVIOUS
    <3>1. i - 1 \in 0 .. Len(p) - 1 /\ (i - 1) + 1 = i
      BY <1>1
    <3>2. i - 1 \in A
      BY <3>1
    <3> QED
      BY <1>4, <3>2
  <2> QED
    BY <1>3, <1>4, <2>1 DEF IsLast
<1>5. CASE A # {}
  <2> DEFINE m == P!Max(A)
  <2>1. m \in A /\ \A k \in A : m >= k
    <3>1. A \in SUBSET (0 .. Len(p))
      BY <1>1
    <3> HIDE DEF A
    <3>2. \E i \in A : \A k \in A : i >= k
      BY <1>1, <1>5, <3>1, GreatestOf
    <3> QED
      BY <3>2 DEF P!Max
  <2> HIDE DEF m
  <2>2. \A i \in 1 .. Len(p) : i > m + 1 => p[i] # c
    <3> SUFFICES ASSUME NEW i \in 1 .. Len(p), i > m + 1, p[i] = c PROVE FALSE
      OBVIOUS
    <3>1. i - 1 \in 0 .. Len(p) - 1 /\ (i - 1) + 1 = i /\ m \in Int /\ i - 1 > m
      BY <1>1, <2>1
    <3>2. i - 1 \in A
      BY <3>1
    <3> HIDE DEF A
    <3> QED
      BY <2>1, <3>1, <3>2
  <2>3. P!Rfind(p, P!CharPat(c)) = P!Some(m)
    BY <1>3, <1>5 DEF m
  <2> QED
    BY <2>1, <2>2, <2>3 DEF IsLast
<1> QED
  BY <1>4, <1>5

\* find of a character: the number of characters up to and with the first.
LEMMA FindIs ==
  ASSUME NEW T, NEW p \in Seq(T), NEW c
  PROVE  \/ /\ P!Find(p, P!CharPat(c)) = P!None
            /\ \A i \in 1 .. Len(p) : p[i] # c
         \/ \E k \in 1 .. Len(p) : P!Find(p, P!CharPat(c)) = P!Some(k) /\ p[k] = c
<1> DEFINE A == {i \in 0 .. Len(p) - 1 : p[i + 1] = c}
<1>1. P!Finger(P!CharPat(c), p) = Len(p) /\ Len(p) \in Nat
  BY DEF P!Finger, P!CharPat
<1>2. P!Hits(P!CharPat(c), p) = A
  BY <1>1 DEF P!Hits, P!Holds, P!CharPat
<1>3. P!Find(p, P!CharPat(c)) = IF A = {} THEN P!None ELSE P!Some(P!Min(A) + 1)
  BY <1>1, <1>2 DEF P!Find
<1>4. CASE A = {}
  <2>1. \A i \in 1 .. Len(p) : p[i] # c
    <3> SUFFICES ASSUME NEW i \in 1 .. Len(p), p[i] = c PROVE FALSE
      OBVIOUS
    <3>1. i - 1 \in 0 .. Len(p) - 1 /\ (i - 1) + 1 = i
      BY <1>1
    <3>2. i - 1 \in A
      BY <3>1
    <3> QED
      BY <1>4, <3>2
  <2> QED
    BY <1>3, <1>4, <2>1
<1>5. CASE A # {}
  <2>1. P!Min(A) \in A
    <3>1. A \in SUBSET Nat
      BY <1>1
    <3> HIDE DEF A
    <3>2. \E i \in A : \A k \in A : i <= k
      BY <1>5, <3>1, LeastNumber
    <3> QED
      BY <3>2 DEF P!Min
  <2>2. P!Min(A) + 1 \in 1 .. Len(p) /\ p[P!Min(A) + 1] = c
    BY <1>1, <2>1
  <2> HIDE DEF A
  <2> QED
    BY <1>3, <1>5, <2>2
<1> QED
  BY <1>4, <1>5

\* What is known of a path while it is read
NameSeqs == Seq(Paths)
Readings == [names : NameSeqs, name : Paths]
Nothing == [names |-> <<>>, name |-> <<>>]

\* The readings of a path, after each of its characters
IsRead(f, p) ==
  /\ f \in [0 .. Len(p) -> Readings] /\ f[0] = Nothing
  /\ \A i \in 1 .. Len(p) : f[i] = P!ReadOn(f[i - 1], p[i])

\* A name that ends is one more.
LEMMA EndedIs ==
  ASSUME NEW r \in Readings
  PROVE  P!Ended(r) \in NameSeqs
BY DEF Readings, NameSeqs, P!Ended

\* A reading goes on to a reading.
LEMMA ReadOnIs ==
  ASSUME NEW r \in Readings, NEW c \in P!Char
  PROVE  /\ P!ReadOn(r, c) \in Readings
         /\ c = "/" => P!ReadOn(r, c) = [names |-> P!Ended(r), name |-> <<>>]
         /\ c # "/" => P!ReadOn(r, c) = [names |-> r.names, name |-> Append(r.name, c)]
<1>1. P!Ended(r) \in NameSeqs /\ r.names \in NameSeqs /\ r.name \in Paths
  BY EndedIs DEF Readings
<1>2. <<>> \in Paths /\ Append(r.name, c) \in Paths
  BY <1>1 DEF Paths
<1> QED
  BY <1>1, <1>2 DEF P!ReadOn, Readings

\* A path is read, as far as it goes.
LEMMA ReadExists == ASSUME NEW p \in Paths PROVE \E f : IsRead(f, p)
<1> DEFINE n == Len(p)
           Upto(k) == \E f \in [0 .. k -> Readings] :
                        f[0] = Nothing /\ \A i \in 1 .. k : f[i] = P!ReadOn(f[i - 1], p[i])
<1>0. n \in Nat /\ \A i \in 1 .. n : p[i] \in P!Char
  BY DEF Paths
<1> HIDE DEF n
<1>1. Upto(0)
  <2> DEFINE f == [i \in 0 .. 0 |-> Nothing]
  <2>0. Nothing \in Readings
    BY DEF Nothing, Readings, NameSeqs, Paths
  <2>1. f \in [0 .. 0 -> Readings] /\ f[0] = Nothing
    BY <2>0
  <2>2. \A i \in 1 .. 0 : f[i] = P!ReadOn(f[i - 1], p[i])
    OBVIOUS
  <2> QED
    BY <2>1, <2>2
<1>2. ASSUME NEW k \in Nat, k < n, Upto(k) PROVE Upto(k + 1)
  <2>1. PICK f \in [0 .. k -> Readings] :
          f[0] = Nothing /\ \A i \in 1 .. k : f[i] = P!ReadOn(f[i - 1], p[i])
    BY <1>2
  <2> DEFINE new == P!ReadOn(f[k], p[k + 1])
             h == [i \in 0 .. k + 1 |-> IF i <= k THEN f[i] ELSE new]
  <2>2. new \in Readings
    <3>1. f[k] \in Readings
      BY <2>1
    <3>2. p[k + 1] \in P!Char
      <4>1. k + 1 \in 1 .. n
        BY <1>0, <1>2
      <4> QED
        BY <1>0, <4>1
    <3> QED
      BY <3>1, <3>2, ReadOnIs
  <2> HIDE DEF new
  <2>3. h \in [0 .. k + 1 -> Readings] /\ h[0] = Nothing
    BY <1>2, <2>1, <2>2
  <2>4. \A i \in 1 .. k + 1 : h[i] = P!ReadOn(h[i - 1], p[i])
    <3> SUFFICES ASSUME NEW i \in 1 .. k + 1 PROVE h[i] = P!ReadOn(h[i - 1], p[i])
      OBVIOUS
    <3>1. i \in 0 .. k + 1 /\ i - 1 \in 0 .. k + 1 /\ i - 1 <= k
      BY <1>2
    <3>2. h[i - 1] = f[i - 1]
      BY <3>1
    <3>3. CASE i <= k
      <4>1. h[i] = f[i] /\ i \in 1 .. k
        BY <3>1, <3>3
      <4> QED
        BY <2>1, <3>2, <4>1
    <3>4. CASE i = k + 1
      <4>1. h[i] = new /\ i - 1 = k
        BY <1>2, <3>1, <3>4
      <4> HIDE DEF h
      <4> QED
        BY <3>2, <3>4, <4>1 DEF new
    <3> QED
      BY <3>3, <3>4
  <2> QED
    BY <2>3, <2>4
<1> HIDE DEF Upto
<1>3. Upto(n)
  <2> DEFINE A == {k \in 0 .. n : ~Upto(k)}
  <2> SUFFICES ASSUME ~Upto(n) PROVE FALSE
    OBVIOUS
  <2>0. n \in A
    BY <1>0
  <2>1. PICK k \in A : \A j \in A : k <= j
    <3> HIDE DEF A
    <3>1. A \in SUBSET Nat /\ A # {}
      BY <1>0, <2>0 DEF A
    <3> QED
      BY <3>1, LeastNumber
  <2>2. k # 0
    BY <1>1
  <2>3. k - 1 \in Nat /\ k - 1 \in 0 .. n /\ k - 1 < n /\ (k - 1) + 1 = k /\ ~(k <= k - 1)
    BY <1>0, <2>1, <2>2
  <2>4. k - 1 \notin A /\ ~Upto(k)
    BY <2>1, <2>3
  <2> DEFINE j == k - 1
  <2>5. j \in 0 .. n /\ j \notin A
    BY <2>3, <2>4
  <2> HIDE DEF j
  <2>6. Upto(j)
    BY <2>5, Zenon
  <2>7. j \in Nat /\ j < n /\ j + 1 = k
    BY <2>3 DEF j
  <2> QED
    BY <1>2, <2>4, <2>6, <2>7, Zenon
<1> QED
  BY <1>3 DEF Upto, IsRead, n

\* Whatever holds at the beginning, and after a step if before it, holds at the end.
LEMMA Onward ==
  ASSUME NEW n \in Nat, NEW Q, 0 \in Q, \A i \in 1 .. n : i - 1 \in Q => i \in Q
  PROVE  0 .. n \subseteq Q
<1> DEFINE A == {k \in 0 .. n : k \notin Q}
<1> SUFFICES ASSUME A # {} PROVE FALSE
  OBVIOUS
<1>1. PICK k \in A : \A j \in A : k <= j
  <2>1. A \in SUBSET Nat
    OBVIOUS
  <2> HIDE DEF A
  <2> QED
    BY <2>1, LeastNumber
<1>2. k \in 1 .. n /\ k \notin Q
  BY <1>1
<1>3. k - 1 \in 0 .. n /\ ~(k <= k - 1)
  BY <1>2
<1>4. k - 1 \in Q
  BY <1>1, <1>3
<1> QED
  BY <1>2, <1>4

\* The names of a path are those it has when it was read to its end.
LEMMA NamesAre ==
  ASSUME NEW p \in Paths, NEW g, IsRead(g, p)
  PROVE  P!NamesOf(p) = P!Ended(g[Len(p)]) /\ P!NamesOf(p) \in NameSeqs
<1> DEFINE n == Len(p)
           Ok(f) == f = [i \in 0 .. Len(p) |->
                           IF i = 0 THEN [names |-> <<>>, name |-> <<>>] ELSE P!ReadOn(f[i - 1], p[i])]
           h == CHOOSE f : Ok(f)
<1>1. P!NamesOf(p) = P!Ended(h[n])
  BY Zenon DEF P!NamesOf
<1>2. n \in Nat /\ g \in [0 .. n -> Readings] /\ g[0] = Nothing
      /\ \A i \in 1 .. n : g[i] = P!ReadOn(g[i - 1], p[i])
  BY DEF IsRead, Paths
<1>3. \A i \in 0 .. n : g[i] = IF i = 0 THEN [names |-> <<>>, name |-> <<>>] ELSE P!ReadOn(g[i - 1], p[i])
  <2> SUFFICES ASSUME NEW i \in 0 .. n
               PROVE g[i] = IF i = 0 THEN [names |-> <<>>, name |-> <<>>] ELSE P!ReadOn(g[i - 1], p[i])
    OBVIOUS
  <2>1. CASE i = 0
    BY <1>2, <2>1 DEF Nothing
  <2>2. CASE i # 0
    <3>1. i \in 1 .. n
      BY <1>2, <2>2
    <3> QED
      BY <1>2, <2>2, <3>1
  <2> QED
    BY <2>1, <2>2
<1>4. Ok(g)
  <2>1. g = [i \in 0 .. n |-> g[i]]
    BY <1>2
  <2> QED
    BY <1>3, <2>1, Zenon
<1>5. Ok(h)
  BY <1>4
<1> HIDE DEF h
<1>6. \A i \in 0 .. n : h[i] = IF i = 0 THEN [names |-> <<>>, name |-> <<>>] ELSE P!ReadOn(h[i - 1], p[i])
  BY <1>5, Zenon
<1> DEFINE Q == {i \in 0 .. n : h[i] = g[i]}
<1> HIDE DEF n
<1>7. 0 \in Q
  BY <1>2, <1>3, <1>6
<1>8. ASSUME NEW i \in 1 .. n, i - 1 \in Q PROVE i \in Q
  <2>1. i \in 0 .. n /\ i # 0 /\ h[i - 1] = g[i - 1]
    BY <1>2, <1>8
  <2> QED
    BY <1>3, <1>6, <2>1
<1> HIDE DEF Q
<1>9. 0 .. n \subseteq Q
  BY <1>2, <1>7, <1>8, Onward, Zenon
<1>10. h[n] = g[n] /\ g[n] \in Readings
  <2>1. n \in 0 .. n
    BY <1>2
  <2> QED
    BY <1>2, <1>9, <2>1 DEF Q
<1> QED
  BY <1>1, <1>10, EndedIs DEF n

\* Two sequences that are joined, and an item behind them
JoinsOn(a, b, e, T) == a \o b \in Seq(T) /\ Append(a \o b, e) = a \o Append(b, e)

\* It does not matter whether the item is put there before or after.
LEMMA JoinAppend ==
  ASSUME NEW T, NEW a \in Seq(T), NEW b \in Seq(T), NEW e \in T
  PROVE  JoinsOn(a, b, e, T)
<1> DEFINE l == Append(a \o b, e)
           r == a \o Append(b, e)
           n == Len(a) + Len(b) + 1
<1>0. Len(a) \in Nat /\ Len(b) \in Nat /\ n \in Nat
  OBVIOUS
<1>1. l \in Seq(T) /\ Len(l) = n
  OBVIOUS
<1>2. r \in Seq(T) /\ Len(r) = n
  OBVIOUS
<1>3. \A i \in 1 .. n : l[i] = r[i]
  <2> SUFFICES ASSUME NEW i \in 1 .. n PROVE l[i] = r[i]
    OBVIOUS
  <2>1. CASE i <= Len(a)
    BY <1>0, <2>1
  <2>2. CASE i > Len(a) /\ i <= Len(a) + Len(b)
    BY <1>0, <2>2
  <2>3. CASE i = n
    BY <1>0, <2>3
  <2> QED
    BY <1>0, <2>1, <2>2, <2>3
<1>4. l = [i \in 1 .. n |-> l[i]] /\ r = [i \in 1 .. n |-> r[i]]
  <2> HIDE DEF l, r, n
  <2> QED
    BY <1>1, <1>2
<1>5. a \o b \in Seq(T)
  OBVIOUS
<1> HIDE DEF l, r
<1>6. l = r
  BY <1>3, <1>4
<1> QED
  BY <1>5, <1>6 DEF l, r, JoinsOn

\* What is read behind other names
Behind(names, r) == [names |-> names \o r.names, name |-> r.name]

\* A name that ends there is one more of them all.
LEMMA EndedBehind ==
  ASSUME NEW N \in NameSeqs, NEW r \in Readings
  PROVE  Behind(N, r) \in Readings /\ P!Ended(Behind(N, r)) = N \o P!Ended(r)
<1>1. r.names \in Seq(Paths) /\ r.name \in Paths /\ N \in Seq(Paths)
  BY DEF Readings, NameSeqs
<1>2. N \o r.names \in Seq(Paths) /\ Append(N \o r.names, r.name) = N \o Append(r.names, r.name)
  <2> DEFINE b == r.names
             e == r.name
  <2>1. N \in Seq(Paths) /\ b \in Seq(Paths) /\ e \in Paths
    BY <1>1
  <2> HIDE DEF b, e
  <2>2. JoinsOn(N, b, e, Paths)
    BY <2>1, JoinAppend, Zenon
  <2> QED
    BY <2>2 DEF b, e, JoinsOn
<1>3. Behind(N, r) \in Readings
  BY <1>1, <1>2 DEF Behind, Readings, NameSeqs
<1> QED
  BY <1>2, <1>3 DEF Behind, P!Ended

\* To read on changes only what is read there.
LEMMA ReadOnBehind ==
  ASSUME NEW N \in NameSeqs, NEW r \in Readings, NEW c \in P!Char
  PROVE  P!ReadOn(Behind(N, r), c) = Behind(N, P!ReadOn(r, c))
<1>1. P!Ended(Behind(N, r)) = N \o P!Ended(r)
  BY EndedBehind
<1>2. Behind(N, r).names = N \o r.names /\ Behind(N, r).name = r.name
  BY DEF Behind
<1> QED
  BY <1>1, <1>2 DEF P!ReadOn, Behind

\* A path that is empty or ends with a slash, and one put behind it
LEMMA NamesJoin ==
  ASSUME NEW d \in Paths, NEW x \in Paths, d = <<>> \/ d[Len(d)] = "/"
  PROVE  d \o x \in Paths /\ P!NamesOf(d \o x) = P!NamesOf(d) \o P!NamesOf(x)
<1> DEFINE m == Len(d)
           n == Len(x)
           y == d \o x
           N == P!NamesOf(d)
<1>1. PICK f : IsRead(f, d)
  BY ReadExists
<1>2. PICK g : IsRead(g, x)
  BY ReadExists
<1>3. m \in Nat /\ n \in Nat /\ y \in Paths /\ Len(y) = m + n
      /\ (\A i \in 1 .. m : y[i] = d[i] /\ d[i] \in P!Char) /\ (\A i \in 1 .. n : y[m + i] = x[i] /\ x[i] \in P!Char)
  <2>1. d \in Seq(P!Char) /\ x \in Seq(P!Char)
    BY DEF Paths
  <2> QED
    BY <2>1 DEF Paths
<1>4. f \in [0 .. m -> Readings] /\ f[0] = Nothing /\ \A i \in 1 .. m : f[i] = P!ReadOn(f[i - 1], d[i])
  BY <1>1 DEF IsRead
<1>5. g \in [0 .. n -> Readings] /\ g[0] = Nothing /\ \A i \in 1 .. n : g[i] = P!ReadOn(g[i - 1], x[i])
  BY <1>2 DEF IsRead
<1>6. N = P!Ended(f[m]) /\ N \in NameSeqs /\ P!NamesOf(x) = P!Ended(g[n])
  BY <1>1, <1>2, NamesAre
<1>7. f[m] = [names |-> N, name |-> <<>>]
  <2>1. CASE m = 0
    BY <1>4, <1>6, <2>1 DEF Nothing, P!Ended
  <2>2. CASE m # 0
    <3>1. m \in 1 .. m /\ m - 1 \in 0 .. m /\ d # <<>>
      BY <1>3, <2>2
    <3>2. f[m] = P!ReadOn(f[m - 1], "/") /\ f[m - 1] \in Readings
      BY <1>4, <3>1
    <3>3. f[m] = [names |-> P!Ended(f[m - 1]), name |-> <<>>]
      BY <3>2, CharsAre, ReadOnIs
    <3> QED
      BY <1>6, <3>3 DEF P!Ended
  <2> QED
    BY <2>1, <2>2
<1> HIDE DEF N, m, n, y
<1>8. f[m] = Behind(N, g[0])
  <2>1. N \o <<>> = N
    BY <1>6 DEF NameSeqs
  <2> QED
    BY <1>5, <1>7, <2>1 DEF Behind, Nothing
<1> DEFINE h == [i \in 0 .. m + n |-> IF i <= m THEN f[i] ELSE Behind(N, g[i - m])]
<1>9. \A i \in 0 .. n : h[m + i] = Behind(N, g[i]) /\ h[m + i] \in Readings
  <2> SUFFICES ASSUME NEW i \in 0 .. n PROVE h[m + i] = Behind(N, g[i]) /\ h[m + i] \in Readings
    OBVIOUS
  <2>1. m + i \in 0 .. m + n /\ (m + i) - m = i
    BY <1>3
  <2>2. h[m + i] = Behind(N, g[i])
    <3>1. CASE i = 0
      BY <1>3, <1>8, <2>1, <3>1
    <3>2. CASE i # 0
      <4>1. ~(m + i <= m)
        BY <1>3, <3>2
      <4> QED
        BY <2>1, <4>1
    <3> QED
      BY <3>1, <3>2
  <2>3. g[i] \in Readings
    BY <1>5
  <2> HIDE DEF h
  <2> QED
    BY <1>6, <2>2, <2>3, EndedBehind
<1>10. \A i \in 0 .. m : h[i] = f[i]
  BY <1>3
<1>11. IsRead(h, y)
  <2>1. h[0] = Nothing
    BY <1>3, <1>4, <1>10
  <2>2. \A i \in 0 .. m + n : h[i] \in Readings
    <3> SUFFICES ASSUME NEW i \in 0 .. m + n PROVE h[i] \in Readings
      OBVIOUS
    <3> HIDE DEF h
    <3>1. CASE i <= m
      <4>1. i \in 0 .. m
        BY <1>3, <3>1
      <4> QED
        BY <1>4, <1>10, <4>1
    <3>2. CASE ~(i <= m)
      <4>1. i - m \in 0 .. n /\ m + (i - m) = i
        BY <1>3, <3>2
      <4> QED
        BY <1>9, <4>1
    <3> QED
      BY <3>1, <3>2
  <2>3. h \in [0 .. m + n -> Readings]
    BY <2>2
  <2>4. \A i \in 1 .. m + n : h[i] = P!ReadOn(h[i - 1], y[i])
    <3> SUFFICES ASSUME NEW i \in 1 .. m + n PROVE h[i] = P!ReadOn(h[i - 1], y[i])
      OBVIOUS
    <3> HIDE DEF h
    <3>1. CASE i <= m
      <4>1. i \in 1 .. m /\ i \in 0 .. m /\ i - 1 \in 0 .. m
        BY <1>3, <3>1
      <4> QED
        BY <1>3, <1>4, <1>10, <4>1
    <3>2. CASE ~(i <= m)
      <4> DEFINE k == i - m
      <4>1. k \in 1 .. n /\ k \in 0 .. n /\ k - 1 \in 0 .. n /\ m + k = i /\ m + (k - 1) = i - 1
        BY <1>3, <3>2
      <4> HIDE DEF k
      <4>2. h[i] = Behind(N, g[k]) /\ h[i - 1] = Behind(N, g[k - 1])
        BY <1>9, <4>1
      <4>3. g[k] = P!ReadOn(g[k - 1], x[k]) /\ g[k - 1] \in Readings /\ x[k] \in P!Char /\ y[i] = x[k]
        BY <1>3, <1>5, <4>1
      <4>4. P!ReadOn(Behind(N, g[k - 1]), x[k]) = Behind(N, P!ReadOn(g[k - 1], x[k]))
        BY <1>6, <4>3, ReadOnBehind
      <4> QED
        BY <4>2, <4>3, <4>4
    <3> QED
      BY <3>1, <3>2
  <2> HIDE DEF h
  <2> QED
    BY <1>3, <2>1, <2>3, <2>4 DEF IsRead
<1> HIDE DEF h
<1>12. P!NamesOf(y) = P!Ended(h[m + n])
  BY <1>3, <1>11, NamesAre
<1>13. h[m + n] = Behind(N, g[n]) /\ g[n] \in Readings
  <2>1. n \in 0 .. n
    BY <1>3
  <2> QED
    BY <1>5, <1>9, <2>1
<1>14. P!Ended(Behind(N, g[n])) = N \o P!Ended(g[n])
  BY <1>6, <1>13, EndedBehind
<1> QED
  BY <1>3, <1>6, <1>12, <1>13, <1>14 DEF N, y

\* A path without slashes has one name at most.
LEMMA NamesOne ==
  ASSUME NEW x \in Paths, \A i \in 1 .. Len(x) : x[i] # "/"
  PROVE  P!NamesOf(x) = IF x = <<>> THEN <<>> ELSE <<x>>
<1> DEFINE n == Len(x)
           g == [i \in 0 .. n |-> [names |-> <<>>, name |-> SubSeq(x, 1, i)]]
<1>1. x \in Seq(P!Char) /\ n \in Nat /\ \A i \in 1 .. n : x[i] \in P!Char
  BY DEF Paths
<1>2. \A i \in 0 .. n : SubSeq(x, 1, i) \in Paths
  BY <1>1 DEF Paths
<1>3. \A i \in 1 .. n : SubSeq(x, 1, i) = Append(SubSeq(x, 1, i - 1), x[i])
  BY <1>1
<1>4. SubSeq(x, 1, 0) = <<>> /\ SubSeq(x, 1, n) = x
  BY <1>1
<1> HIDE DEF n
<1>5. IsRead(g, x)
  <2>1. <<>> \in NameSeqs
    BY DEF NameSeqs
  <2>2. \A i \in 0 .. n : g[i] \in Readings
    BY <1>2, <2>1 DEF Readings
  <2>3. g[0] = Nothing
    BY <1>1, <1>4 DEF Nothing
  <2>4. \A i \in 1 .. n : g[i] = P!ReadOn(g[i - 1], x[i])
    <3> SUFFICES ASSUME NEW i \in 1 .. n PROVE g[i] = P!ReadOn(g[i - 1], x[i])
      OBVIOUS
    <3>1. i \in 0 .. n /\ i - 1 \in 0 .. n
      BY <1>1
    <3>2. g[i] = [names |-> <<>>, name |-> SubSeq(x, 1, i)]
          /\ g[i - 1] = [names |-> <<>>, name |-> SubSeq(x, 1, i - 1)]
      BY <3>1
    <3>3. SubSeq(x, 1, i) = Append(SubSeq(x, 1, i - 1), x[i]) /\ x[i] # "/"
      BY <1>3 DEF n
    <3> HIDE DEF g
    <3>4. P!ReadOn(g[i - 1], x[i]) = [names |-> <<>>, name |-> Append(SubSeq(x, 1, i - 1), x[i])]
      <4>1. g[i - 1] \in Readings /\ x[i] \in P!Char
        BY <1>1, <2>2, <3>1 DEF n
      <4>2. P!ReadOn(g[i - 1], x[i]) = [names |-> g[i - 1].names, name |-> Append(g[i - 1].name, x[i])]
        BY <3>3, <4>1, ReadOnIs
      <4>3. g[i - 1].names = <<>> /\ g[i - 1].name = SubSeq(x, 1, i - 1)
        BY <3>2
      <4> QED
        BY <4>2, <4>3
    <3> QED
      BY <3>2, <3>3, <3>4
  <2>5. g \in [0 .. n -> Readings]
    BY <2>2
  <2> HIDE DEF g
  <2> QED
    BY <2>3, <2>4, <2>5 DEF IsRead, n
<1>6. P!NamesOf(x) = P!Ended(g[n])
  <2> HIDE DEF g
  <2> QED
    BY <1>5, NamesAre DEF n
<1>7. g[n] = [names |-> <<>>, name |-> x]
  BY <1>1, <1>4
<1> HIDE DEF g
<1>8. Append(<<>>, x) = <<x>>
  OBVIOUS
<1> QED
  BY <1>6, <1>7, <1>8 DEF P!Ended

\* A slash at the end brings no name, nor does one at the beginning.
LEMMA NamesOfSlash ==
  ASSUME NEW p \in Paths
  PROVE  P!NamesOf(Append(p, "/")) = P!NamesOf(p) /\ Append(p, "/") \in Paths
<1> DEFINE n == Len(p)
           y == Append(p, "/")
<1>1. PICK f : IsRead(f, p)
  BY ReadExists
<1>2. /\ n \in Nat /\ y \in Paths /\ Len(y) = n + 1 /\ y[n + 1] = "/"
      /\ \A i \in 1 .. n : y[i] = p[i]
  BY CharsAre DEF Paths
<1>3. f \in [0 .. n -> Readings] /\ f[0] = Nothing /\ \A i \in 1 .. n : f[i] = P!ReadOn(f[i - 1], p[i])
  BY <1>1 DEF IsRead
<1>4. P!NamesOf(p) = P!Ended(f[n])
  BY <1>1, NamesAre
<1> HIDE DEF n, y
<1> DEFINE e == P!ReadOn(f[n], "/")
           h == [i \in 0 .. n + 1 |-> IF i <= n THEN f[i] ELSE e]
<1>5. f[n] \in Readings
  BY <1>2, <1>3
<1>6. e \in Readings /\ e = [names |-> P!Ended(f[n]), name |-> <<>>]
  BY <1>5, CharsAre, ReadOnIs
<1> HIDE DEF e
<1>7. IsRead(h, y)
  <2>1. h \in [0 .. n + 1 -> Readings] /\ h[0] = Nothing
    BY <1>2, <1>3, <1>6
  <2>2. \A i \in 1 .. n + 1 : h[i] = P!ReadOn(h[i - 1], y[i])
    <3> SUFFICES ASSUME NEW i \in 1 .. n + 1 PROVE h[i] = P!ReadOn(h[i - 1], y[i])
      OBVIOUS
    <3>1. i \in 0 .. n + 1 /\ i - 1 \in 0 .. n + 1 /\ i - 1 <= n
      BY <1>2
    <3>2. h[i - 1] = f[i - 1]
      BY <3>1
    <3>3. CASE i <= n
      <4>1. h[i] = f[i] /\ i \in 1 .. n
        BY <3>1, <3>3
      <4> QED
        BY <1>2, <1>3, <3>2, <4>1
    <3>4. CASE i = n + 1
      <4>1. h[i] = e /\ i - 1 = n
        BY <1>2, <3>1, <3>4
      <4> HIDE DEF h
      <4> QED
        BY <1>2, <3>2, <3>4, <4>1 DEF e
    <3> QED
      BY <1>2, <3>3, <3>4
  <2> HIDE DEF h
  <2> QED
    BY <1>2, <2>1, <2>2 DEF IsRead
<1>8. h[n + 1] = e
  BY <1>2
<1> HIDE DEF h
<1>9. P!NamesOf(y) = P!Ended(e)
  BY <1>2, <1>7, <1>8, NamesAre
<1>10. P!Ended(e) = P!Ended(f[n])
  BY <1>6 DEF P!Ended
<1> QED
  BY <1>2, <1>4, <1>9, <1>10 DEF y

\* Nor does one at the beginning.
LEMMA NamesBehindSlash ==
  ASSUME NEW x \in Paths
  PROVE  P!NamesOf(<<"/">> \o x) = P!NamesOf(x)
<1>1. <<>> \in Paths /\ Append(<<>>, "/") = <<"/">>
  BY DEF Paths
<1>2. P!NamesOf(<<>>) = <<>>
  BY <1>1, NamesOne
<1>3. P!NamesOf(<<"/">>) = <<>> /\ <<"/">> \in Paths
  BY <1>1, <1>2, NamesOfSlash
<1>4. P!NamesOf(<<"/">> \o x) = P!NamesOf(<<"/">>) \o P!NamesOf(x)
  BY <1>3, NamesJoin
<1>5. P!NamesOf(x) \in NameSeqs
  BY ReadExists, NamesAre
<1> QED
  BY <1>3, <1>4, <1>5 DEF NameSeqs

\* A range that lies in a text
LEMMA CutIs ==
  ASSUME NEW T, NEW p \in Seq(T), NEW a \in 0 .. Len(p), NEW b \in 0 .. Len(p)
  PROVE  P!Cut(p, a, b) = SubSeq(p, a + 1, b)
<1> DEFINE n == Len(p)
<1>1. n \in Nat
  OBVIOUS
<1> HIDE DEF n
<1>2. (IF a < n THEN a ELSE n) = a /\ (IF b < n THEN b ELSE n) = b
  BY <1>1 DEF n
<1>3. P!Cut(p, a, b) = SubSeq(p, (IF a < n THEN a ELSE n) + 1, IF b < n THEN b ELSE n)
  BY DEF P!Cut, n
<1> QED
  BY <1>2, <1>3

\* The first k characters of a path go up to the last slash, or there is none.
IsAbove(p, k) ==
  /\ k \in 0 .. Len(p)
  /\ k # 0 => p[k] = "/"
  /\ \A i \in 1 .. Len(p) : i > k => p[i] # "/"

\* The file name stands behind them.
LEMMA FileNameIs ==
  ASSUME NEW p \in Paths
  PROVE  \E k : /\ IsAbove(p, k)
                /\ P!FileName(p) = SubSeq(p, k + 1, Len(p)) /\ P!Above(p) = SubSeq(p, 1, k)
                /\ Len(p) - Len(P!FileName(p)) = k
                /\ P!OrElse(P!Rfind(p, P!CharPat("/")), 0) = IF k = 0 THEN 0 ELSE k - 1
<1> DEFINE r == P!Rfind(p, P!CharPat("/"))
           n == Len(p)
           k == P!OrElse(r, -1) + 1
<1>1. p \in Seq(P!Char) /\ n \in Nat
  BY DEF Paths
<1>2. IsLast(p, "/", r)
  BY <1>1, RfindIs
<1> HIDE DEF r
<1>3. IsAbove(p, k) /\ P!OrElse(r, 0) = IF k = 0 THEN 0 ELSE k - 1
  <2>1. CASE r = P!None /\ \A i \in 1 .. n : p[i] # "/"
    <3>1. k = 0 /\ P!OrElse(r, 0) = 0
      BY <2>1 DEF P!OrElse, P!None
    <3> HIDE DEF k
    <3> QED
      BY <1>1, <2>1, <3>1 DEF IsAbove
  <2>2. ASSUME NEW j \in 0 .. n - 1, r = P!Some(j), p[j + 1] = "/", \A i \in 1 .. n : i > j + 1 => p[i] # "/"
        PROVE  IsAbove(p, k) /\ P!OrElse(r, 0) = IF k = 0 THEN 0 ELSE k - 1
    <3>1. k = j + 1 /\ P!OrElse(r, 0) = j
      BY <2>2 DEF P!OrElse, P!Some
    <3> HIDE DEF k
    <3>2. k \in 0 .. n /\ k # 0 /\ k - 1 = j
      BY <1>1, <3>1
    <3> QED
      BY <2>2, <3>1, <3>2 DEF IsAbove
  <2> QED
    BY <1>2, <2>1, <2>2 DEF IsLast
<1>4. P!FileName(p) = P!Cut(p, k, n)
  BY DEF P!FileName, r
<1> HIDE DEF k
<1>5. k \in 0 .. n
  BY <1>3 DEF IsAbove
<1>6. P!FileName(p) = SubSeq(p, k + 1, n)
  <2>1. n \in 0 .. n
    BY <1>1
  <2> QED
    BY <1>1, <1>4, <1>5, <2>1, CutIs
<1>7. Len(SubSeq(p, k + 1, n)) = n - k
  BY <1>1, <1>5
<1>8. n - Len(P!FileName(p)) = k
  BY <1>1, <1>5, <1>6, <1>7
<1>9. P!Above(p) = SubSeq(p, 1, k)
  BY <1>8 DEF P!Above
<1> QED
  BY <1>3, <1>6, <1>8, <1>9 DEF r

\* A path is what stands before the file name, and that.
SplitsAt(p, k, u, v) ==
  /\ u = SubSeq(p, 1, k) /\ v = SubSeq(p, k + 1, Len(p))
  /\ u \in Paths /\ v \in Paths /\ u \o v = p
  /\ Len(u) = k /\ Len(v) = Len(p) - k
  /\ \A i \in 1 .. k : u[i] = p[i]
  /\ \A i \in 1 .. Len(p) - k : v[i] = p[k + i]

\* A path that is cut in two
LEMMA SplitIs ==
  ASSUME NEW p \in Paths, NEW k \in 0 .. Len(p)
  PROVE  SplitsAt(p, k, SubSeq(p, 1, k), SubSeq(p, k + 1, Len(p)))
<1> DEFINE u == SubSeq(p, 1, k)
           v == SubSeq(p, k + 1, Len(p))
           n == Len(p)
<1>1. p \in Seq(P!Char) /\ n \in Nat
  BY DEF Paths
<1>2. u \in Seq(P!Char) /\ Len(u) = k /\ \A i \in 1 .. k : u[i] = p[i]
  BY <1>1
<1>3. v \in Seq(P!Char) /\ Len(v) = n - k /\ \A i \in 1 .. n - k : v[i] = p[k + i]
  <2>1. v = [i \in 1 .. n - k |-> p[k + i]]
    BY <1>1
  <2>2. \A i \in 1 .. n - k : p[k + i] \in P!Char
    BY <1>1
  <2> QED
    BY <1>1, <2>1, <2>2
<1> HIDE DEF u, v
<1>4. u \o v = p
  <2> DEFINE y == u \o v
  <2>0. Len(y) = n /\ y \in Seq(P!Char) /\ \A i \in 1 .. n : y[i] = IF i <= k THEN u[i] ELSE v[i - k]
    <3>1. Len(y) = Len(u) + Len(v) /\ y \in Seq(P!Char)
      <4> DEFINE T == P!Char
      <4>1. u \in Seq(T) /\ v \in Seq(T)
        BY <1>2, <1>3
      <4> HIDE DEF T
      <4>2. Len(u \o v) = Len(u) + Len(v)
        BY <4>1
      <4>3. u \o v \in Seq(T)
        BY <4>1
      <4> QED
        BY <4>2, <4>3 DEF T
    <3>2. \A i \in 1 .. Len(u) + Len(v) : y[i] = IF i <= Len(u) THEN u[i] ELSE v[i - Len(u)]
      BY <1>2, <1>3
    <3>3. Len(u) + Len(v) = n
      BY <1>1, <1>2, <1>3
    <3> HIDE DEF y
    <3> QED
      BY <1>2, <3>1, <3>2, <3>3
  <2> HIDE DEF y
  <2>1. y = [i \in 1 .. n |-> IF i <= k THEN u[i] ELSE v[i - k]]
    <3>1. y = [i \in 1 .. n |-> y[i]]
      BY <1>1, <2>0
    <3> QED
      BY <2>0, <3>1
  <2>2. \A i \in 1 .. n : (IF i <= k THEN u[i] ELSE v[i - k]) = p[i]
    <3> SUFFICES ASSUME NEW i \in 1 .. n PROVE (IF i <= k THEN u[i] ELSE v[i - k]) = p[i]
      OBVIOUS
    <3>1. CASE i <= k
      BY <1>1, <1>2, <3>1
    <3>2. CASE ~(i <= k)
      <4>1. i - k \in 1 .. n - k /\ k + (i - k) = i
        BY <1>1, <3>2
      <4> QED
        BY <1>3, <3>2, <4>1
    <3> QED
      BY <3>1, <3>2
  <2>3. p = [i \in 1 .. n |-> p[i]]
    BY <1>1
  <2> QED
    BY <2>1, <2>2, <2>3 DEF y
<1> QED
  BY <1>2, <1>3, <1>4 DEF SplitsAt, Paths, u, v

\* The names of a path are those above it, and the name of the file if it has one.
LEMMA BelowIs ==
  ASSUME NEW p \in Paths
  PROVE  /\ P!Above(p) \in Paths /\ P!FileName(p) \in Paths
         /\ P!Above(p) \o P!FileName(p) = p
         /\ P!Above(p) = <<>> \/ P!Above(p)[Len(P!Above(p))] = "/"
         /\ \A i \in 1 .. Len(P!FileName(p)) : P!FileName(p)[i] # "/"
         /\ P!Below(p) = P!NamesOf(P!Above(p))
<1> DEFINE u == P!Above(p)
           v == P!FileName(p)
<1>1. PICK k : IsAbove(p, k) /\ v = SubSeq(p, k + 1, Len(p)) /\ u = SubSeq(p, 1, k)
  BY FileNameIs
<1>2. k \in 0 .. Len(p) /\ Len(p) \in Nat
  BY <1>1 DEF IsAbove, Paths
<1> HIDE DEF u, v
<1>3. SplitsAt(p, k, u, v)
  BY <1>1, <1>2, SplitIs
<1>4. u \in Paths /\ v \in Paths /\ u \o v = p /\ Len(u) = k /\ Len(v) = Len(p) - k
  BY <1>3 DEF SplitsAt
<1>5. u = <<>> \/ u[Len(u)] = "/"
  <2>1. CASE k = 0
    BY <1>4, <2>1 DEF Paths
  <2>2. CASE k # 0
    <3>1. k \in 1 .. k
      BY <1>2, <2>2
    <3> QED
      BY <1>1, <1>3, <2>2, <3>1 DEF SplitsAt, IsAbove
  <2> QED
    BY <2>1, <2>2
<1>6. \A i \in 1 .. Len(v) : v[i] # "/"
  <2> SUFFICES ASSUME NEW i \in 1 .. Len(v) PROVE v[i] # "/"
    OBVIOUS
  <2>1. i \in 1 .. Len(p) - k /\ k + i \in 1 .. Len(p) /\ k + i > k
    BY <1>2, <1>4
  <2> QED
    BY <1>1, <1>3, <2>1 DEF SplitsAt, IsAbove
<1>7. P!NamesOf(p) = P!NamesOf(u) \o (IF v = <<>> THEN <<>> ELSE <<v>>) /\ P!NamesOf(u) \in Seq(Paths)
  <2>1. P!NamesOf(u \o v) = P!NamesOf(u) \o P!NamesOf(v)
    BY <1>4, <1>5, NamesJoin
  <2>2. P!NamesOf(v) = IF v = <<>> THEN <<>> ELSE <<v>>
    BY <1>4, <1>6, NamesOne
  <2>3. P!NamesOf(u) \in Seq(Paths)
    BY <1>4, ReadExists, NamesAre DEF NameSeqs
  <2> QED
    BY <1>4, <2>1, <2>2, <2>3
<1>8. P!Below(p) = P!NamesOf(u)
  <2> DEFINE N == P!NamesOf(u)
  <2>1. P!Below(p) = IF v = <<>> THEN P!NamesOf(p) ELSE SubSeq(P!NamesOf(p), 1, Len(P!NamesOf(p)) - 1)
    BY DEF P!Below, v
  <2>2. N \in Seq(Paths)
    BY <1>7
  <2> HIDE DEF N
  <2>3. CASE v = <<>>
    <3>1. N \o <<>> = N
      BY <2>2
    <3> QED
      BY <1>7, <2>1, <2>3, <3>1 DEF N
  <2>4. CASE v # <<>>
    <3> DEFINE T == Paths
    <3>1. N \in Seq(T) /\ v \in T
      BY <1>4, <2>2
    <3> HIDE DEF T
    <3>2. Len(N \o <<v>>) - 1 = Len(N) /\ SubSeq(N \o <<v>>, 1, Len(N)) = N
      BY <3>1
    <3>3. P!NamesOf(p) = N \o <<v>>
      BY <1>7, <2>4 DEF N
    <3> QED
      BY <2>1, <2>4, <3>2, <3>3 DEF N
  <2> QED
    BY <2>3, <2>4 DEF N
<1> QED
  BY <1>4, <1>5, <1>6, <1>8 DEF u, v

\* Where the extension of a name begins: at its last dot, or at its end.
IsDot(v, d) ==
  /\ d \in 0 .. Len(v)
  /\ d # Len(v) => v[d + 1] = "."
  /\ \A i \in 1 .. Len(v) : i > d + 1 => v[i] # "."

\* Dot answers with that place (Path::file_stem and extension).
LEMMA DotIs ==
  ASSUME NEW v \in Paths
  PROVE  IsDot(v, P!Dot(v))
<1> DEFINE r == P!Rfind(v, P!CharPat("."))
           d == P!Dot(v)
<1>1. v \in Seq(P!Char) /\ Len(v) \in Nat
  BY DEF Paths
<1>2. IsLast(v, ".", r)
  BY <1>1, RfindIs
<1>3. d = P!OrElse(r, Len(v))
  BY DEF P!Dot
<1> HIDE DEF r, d
<1>4. CASE r = P!None /\ \A i \in 1 .. Len(v) : v[i] # "."
  <2>1. d = Len(v)
    BY <1>3, <1>4 DEF P!OrElse, P!None
  <2> QED
    BY <1>1, <1>4, <2>1 DEF IsDot, d
<1>5. ASSUME NEW j \in 0 .. Len(v) - 1, r = P!Some(j), v[j + 1] = ".", \A i \in 1 .. Len(v) : i > j + 1 => v[i] # "."
      PROVE  IsDot(v, d)
  <2>1. d = j
    BY <1>3, <1>5 DEF P!OrElse, P!Some
  <2> QED
    BY <1>1, <1>5, <2>1 DEF IsDot
<1> QED
  BY <1>2, <1>4, <1>5 DEF IsLast, d

\* A stem and an extension make up the name of a file.
IsName(v, x, e) ==
  /\ x \in Paths /\ e \in Paths /\ x \o e = v
  /\ Len(x) \in 0 .. Len(v) /\ Len(e) = Len(v) - Len(x)
  /\ x = SubSeq(v, 1, Len(x))
  /\ e # <<>> => e[1] = "." /\ ~P!Contains(Tail(e), ".")

\* FileStem and Extension fall apart where the extension begins.
LEMMA NameIs ==
  ASSUME NEW p \in Paths
  PROVE  IsName(P!FileName(p), P!FileStem(p), P!Extension(p))
<1> DEFINE v == P!FileName(p)
           d == P!Dot(v)
           x == P!FileStem(p)
           e == P!Extension(p)
<1>1. v \in Paths
  BY BelowIs
<1>2. x = P!Cut(v, 0, d) /\ e = P!Cut(v, d, Len(v))
  BY DEF P!FileStem, P!Extension
<1> HIDE DEF v, x, e
<1>3. IsDot(v, d)
  BY <1>1, DotIs
<1> HIDE DEF d
<1>4. d \in 0 .. Len(v) /\ Len(v) \in Nat /\ 0 \in 0 .. Len(v) /\ Len(v) \in 0 .. Len(v)
  BY <1>1, <1>3 DEF IsDot, Paths
<1>5. x = SubSeq(v, 1, d) /\ e = SubSeq(v, d + 1, Len(v))
  <2>1. v \in Seq(P!Char)
    BY <1>1 DEF Paths
  <2>2. x = SubSeq(v, 0 + 1, d) /\ e = SubSeq(v, d + 1, Len(v))
    BY <1>2, <1>4, <2>1, CutIs
  <2> QED
    BY <2>2
<1>6. SplitsAt(v, d, x, e)
  BY <1>1, <1>4, <1>5, SplitIs
<1>7. x \in Paths /\ e \in Paths /\ x \o e = v /\ Len(x) = d /\ Len(e) = Len(v) - d
  BY <1>6 DEF SplitsAt
<1>8. ASSUME e # <<>> PROVE e[1] = "." /\ ~P!Contains(Tail(e), ".")
  <2>1. Len(e) \in Nat /\ Len(e) # 0
    BY <1>7, <1>8 DEF Paths
  <2>2. 1 \in 1 .. Len(v) - d /\ d # Len(v)
    BY <1>4, <1>7, <2>1
  <2>3. e[1] = "."
    BY <1>3, <1>6, <2>2 DEF SplitsAt, IsDot
  <2>4. ASSUME NEW i \in 1 .. Len(Tail(e)), Tail(e)[i] = "." PROVE FALSE
    <3>1. Len(Tail(e)) = Len(e) - 1 /\ Tail(e)[i] = e[i + 1]
      <4> DEFINE T == P!Char
                 n == Len(e)
      <4>1. e \in Seq(T)
        BY <1>7 DEF Paths
      <4> HIDE DEF T
      <4>2. n \in Nat /\ n # 0 /\ Len(Tail(e)) = n - 1
        BY <2>1, <4>1
      <4> HIDE DEF n
      <4>3. i \in 1 .. n - 1
        BY <4>2
      <4>4. Tail(e)[i] = e[i + 1]
        BY <1>8, <4>1, <4>2, <4>3 DEF n
      <4> QED
        BY <4>2, <4>4 DEF n
    <3>2. i + 1 \in 1 .. Len(v) - d /\ d + (i + 1) \in 1 .. Len(v) /\ d + (i + 1) > d + 1
      BY <1>4, <1>7, <3>1
    <3>3. e[i + 1] = v[d + (i + 1)]
      BY <1>6, <3>2 DEF SplitsAt
    <3> QED
      BY <1>3, <2>4, <3>1, <3>2, <3>3 DEF IsDot
  <2> QED
    BY <2>3, <2>4 DEF P!Contains
<1> QED
  BY <1>4, <1>5, <1>7, <1>8 DEF IsName, v, x, e

\* What the parts of a path must be
Fits(p) ==
  /\ P!Above(p) \o P!FileName(p) = p /\ ~P!Contains(P!FileName(p), "/")
  /\ P!FileStem(p) \o P!Extension(p) = P!FileName(p)
  /\ P!Extension(p) # <<>> => P!Extension(p)[1] = "." /\ ~P!Contains(Tail(P!Extension(p)), ".")
  /\ (\A i, j \in DOMAIN p : p[i] = "/" /\ p[j] = "/" => i = j) => P!Parent(p) = P!Above(p)

\* ... and they are, of every path.
LEMMA PathFits == ASSUME NEW p \in Paths PROVE Fits(p)
<1>1. P!Above(p) \o P!FileName(p) = p /\ ~P!Contains(P!FileName(p), "/")
  BY BelowIs DEF P!Contains
<1>2. /\ P!FileStem(p) \o P!Extension(p) = P!FileName(p)
      /\ P!Extension(p) # <<>> => P!Extension(p)[1] = "." /\ ~P!Contains(Tail(P!Extension(p)), ".")
  BY NameIs DEF IsName
<1>3. ASSUME \A i, j \in DOMAIN p : p[i] = "/" /\ p[j] = "/" => i = j
      PROVE  P!Parent(p) = P!Above(p)
  <2> DEFINE r == P!Find(p, P!CharPat("/"))
  <2>1. p \in Seq(P!Char) /\ Len(p) \in Nat /\ DOMAIN p = 1 .. Len(p) /\ 0 \in 0 .. Len(p)
    BY DEF Paths
  <2>2. PICK k : IsAbove(p, k) /\ P!Above(p) = SubSeq(p, 1, k)
    BY FileNameIs
  <2>3. k \in 0 .. Len(p)
    BY <2>2 DEF IsAbove
  <2>4. p # <<>> => P!OrElse(r, 0) = k
    <3>1. CASE r = P!None /\ \A i \in 1 .. Len(p) : p[i] # "/"
      <4>1. P!OrElse(r, 0) = 0
        BY <3>1 DEF P!OrElse, P!None
      <4>2. k = 0
        BY <2>1, <2>2, <2>3, <3>1 DEF IsAbove
      <4> QED
        BY <4>1, <4>2
    <3>2. ASSUME NEW j \in 1 .. Len(p), r = P!Some(j), p[j] = "/" PROVE P!OrElse(r, 0) = k
      <4>1. P!OrElse(r, 0) = j
        BY <3>2 DEF P!OrElse, P!Some
      <4>2. ~(j > k)
        BY <2>2, <3>2 DEF IsAbove
      <4>3. k \in 1 .. Len(p) /\ p[k] = "/"
        BY <2>1, <2>2, <2>3, <4>2 DEF IsAbove
      <4> QED
        BY <1>3, <2>1, <3>2, <4>1, <4>3
    <3> QED
      BY <2>1, <3>1, <3>2, FindIs
  <2> HIDE DEF r
  <2>5. CASE p = <<>>
    <3>1. k = 0
      BY <2>3, <2>5
    <3> QED
      BY <2>2, <2>5, <3>1 DEF P!Parent
  <2>6. CASE p # <<>>
    <3>1. P!Parent(p) = P!Cut(p, 0, k)
      BY <2>4, <2>6 DEF P!Parent, r
    <3>2. P!Cut(p, 0, k) = SubSeq(p, 0 + 1, k)
      BY <2>1, <2>3, CutIs
    <3> QED
      BY <2>2, <3>1, <3>2
  <2> QED
    BY <2>5, <2>6
<1> QED
  BY <1>1, <1>2, <1>3 DEF Fits

\* Three sequences that are joined
JoinsAll(a, b, c, T) ==
  (a \o b) \o c = a \o (b \o c) /\ a \o b \in Seq(T) /\ b \o c \in Seq(T) /\ Len(a \o b) = Len(a) + Len(b)

\* It does not matter which two are joined first.
LEMMA JoinAssoc ==
  ASSUME NEW T, NEW a \in Seq(T), NEW b \in Seq(T), NEW c \in Seq(T)
  PROVE  JoinsAll(a, b, c, T)
BY DEF JoinsAll

\* What a slash at an end of a text is told by
LEMMA SlashAt ==
  ASSUME NEW p \in Paths
  PROVE  /\ P!StartsWith(p, P!CharPat("/")) <=> p # <<>> /\ p[1] = "/"
         /\ P!EndsWith(p, P!CharPat("/")) <=> p # <<>> /\ p[Len(p)] = "/"
<1> DEFINE n == Len(p)
           c == P!CharPat("/")
<1>1. n \in Nat /\ (p = <<>> <=> n = 0)
  BY DEF Paths
<1>2. P!Finger(c, p) = n
  BY DEF P!Finger, P!CharPat
<1>3. \A i : P!Holds(c, p, i) <=> p[i + 1] = "/"
  BY DEF P!Holds, P!CharPat
<1>4. P!StartsWith(p, c) <=> n > 0 /\ p[0 + 1] = "/"
  BY <1>2, <1>3 DEF P!StartsWith
<1>5. P!EndsWith(p, c) <=> n > 0 /\ p[(n - 1) + 1] = "/"
  BY <1>2, <1>3 DEF P!EndsWith
<1> HIDE DEF n, c
<1>6. (n > 0 <=> p # <<>>) /\ (n - 1) + 1 = n /\ 0 + 1 = 1
  BY <1>1
<1> QED
  BY <1>4, <1>5, <1>6 DEF n, c

\* A push adds the names that come.
LEMMA PushIs ==
  ASSUME path \in Paths, NEW s \in PathParts, P!Push(s)
  PROVE  path' \in Paths /\ P!NamesOf(path') = P!NamesOf(path) \o P!NamesOf(s)
<1> DEFINE more == path # <<>> /\ ~P!EndsWith(path, P!CharPat("/"))
           base == IF more THEN Append(path, "/") ELSE path
           brings == P!StartsWith(s, P!CharPat("/"))
           name == IF brings THEN P!Cut(s, 1, Len(s)) ELSE s
<1>1. s \in Paths
  BY CharsAre
<1>2. path' = base \o name
  BY DEF P!Push, P!PushStr
<1>3. base \in Paths /\ (base = <<>> \/ base[Len(base)] = "/") /\ P!NamesOf(base) = P!NamesOf(path)
  <2>1. CASE more
    <3>1. base = Append(path, "/")
      BY <2>1
    <3>2. Append(path, "/")[Len(Append(path, "/"))] = "/"
      <4> DEFINE T == P!Char
      <4>1. path \in Seq(T) /\ "/" \in T
        BY CharsAre DEF Paths
      <4> HIDE DEF T
      <4> QED
        BY <4>1
    <3> HIDE DEF base
    <3> QED
      BY <3>1, <3>2, NamesOfSlash
  <2>2. CASE ~more
    <3>1. base = path /\ (path = <<>> \/ path[Len(path)] = "/")
      BY <2>2, SlashAt
    <3> HIDE DEF base
    <3> QED
      BY <3>1
  <2> QED
    BY <2>1, <2>2
<1>4. name \in Paths /\ P!NamesOf(name) = P!NamesOf(s)
  <2>1. CASE brings
    <3> DEFINE y == SubSeq(s, 2, Len(s))
    <3>1. s # <<>> /\ s[1] = "/" /\ Len(s) \in Nat /\ Len(s) # 0
      BY <1>1, <2>1, SlashAt DEF Paths
    <3>2. 1 \in 0 .. Len(s) /\ Len(s) \in 0 .. Len(s) /\ 1 + 1 = 2
      BY <3>1
    <3>3. P!Cut(s, 1, Len(s)) = y
      <4>1. P!Cut(s, 1, Len(s)) = SubSeq(s, 1 + 1, Len(s))
        BY <1>1, <3>2, CutIs DEF Paths
      <4> QED
        BY <3>2, <4>1
    <3>4. SplitsAt(s, 1, SubSeq(s, 1, 1), SubSeq(s, 1 + 1, Len(s)))
      BY <1>1, <3>2, SplitIs
    <3> HIDE DEF y
    <3>5. y \in Paths /\ s = SubSeq(s, 1, 1) \o y
      BY <3>2, <3>4 DEF SplitsAt, y
    <3>6. SubSeq(s, 1, 1) = <<"/">>
      <4>1. SubSeq(s, 1, 1) = [i \in 1 .. 1 |-> s[i]]
        BY <1>1, <3>1 DEF Paths
      <4>2. <<"/">> = [i \in 1 .. 1 |-> "/"]
        OBVIOUS
      <4>3. \A i \in 1 .. 1 : s[i] = "/"
        BY <3>1
      <4> QED
        BY <4>1, <4>2, <4>3
    <3>7. P!NamesOf(s) = P!NamesOf(y)
      BY <3>5, <3>6, NamesBehindSlash
    <3> QED
      BY <2>1, <3>3, <3>5, <3>7
  <2>2. CASE ~brings
    BY <1>1, <2>2
  <2> QED
    BY <2>1, <2>2
<1> HIDE DEF base, name
<1> QED
  BY <1>2, <1>3, <1>4, NamesJoin

\* A pop takes the last name away.
LEMMA PopIs ==
  ASSUME path \in Paths, P!Pop
  PROVE  path' \in Paths /\ P!NamesOf(path') = P!Below(path)
<1>1. PICK k : /\ IsAbove(path, k) /\ P!Above(path) = SubSeq(path, 1, k)
               /\ P!OrElse(P!Rfind(path, P!CharPat("/")), 0) = IF k = 0 THEN 0 ELSE k - 1
  BY FileNameIs
<1> DEFINE j == IF k = 0 THEN 0 ELSE k - 1
<1>2. k \in 0 .. Len(path) /\ Len(path) \in Nat /\ j \in 0 .. Len(path) /\ 0 \in 0 .. Len(path)
  BY <1>1 DEF IsAbove, Paths
<1>3. path' = SubSeq(path, 1, j)
  <2>1. path' = P!Cut(path, 0, j)
    BY <1>1 DEF P!Pop, P!Truncate
  <2> HIDE DEF j
  <2>2. P!Cut(path, 0, j) = SubSeq(path, 0 + 1, j)
    BY <1>2, CutIs DEF Paths
  <2> QED
    BY <2>1, <2>2
<1>4. path' \in Paths
  <2> HIDE DEF j
  <2>1. SplitsAt(path, j, SubSeq(path, 1, j), SubSeq(path, j + 1, Len(path)))
    BY <1>2, SplitIs
  <2> QED
    BY <1>3, <2>1 DEF SplitsAt
<1>5. P!NamesOf(path') = P!NamesOf(P!Above(path))
  <2>1. CASE k = 0
    BY <1>1, <1>3, <2>1
  <2>2. CASE k # 0
    <3>1. path[k] = "/" /\ j = k - 1 /\ k \in 1 .. Len(path)
      BY <1>1, <1>2, <2>2 DEF IsAbove
    <3> HIDE DEF j
    <3>2. SubSeq(path, 1, k) = Append(SubSeq(path, 1, k - 1), path[k])
      <4> DEFINE T == P!Char
      <4>1. path \in Seq(T)
        BY DEF Paths
      <4> HIDE DEF T
      <4> DEFINE l == SubSeq(path, 1, k)
                 r == Append(SubSeq(path, 1, k - 1), path[k])
      <4>2. l = [i \in 1 .. k |-> path[i]]
        BY <1>2, <3>1, <4>1
      <4>3. SubSeq(path, 1, k - 1) \in Seq(T) /\ Len(SubSeq(path, 1, k - 1)) = k - 1
        BY <1>2, <3>1, <4>1
      <4>4. \A i \in 1 .. k - 1 : SubSeq(path, 1, k - 1)[i] = path[i]
        BY <1>2, <3>1, <4>1
      <4>5. path[k] \in T
        BY <3>1, <4>1
      <4>6. r \in Seq(T) /\ Len(r) = k
        BY <1>2, <3>1, <4>3, <4>5
      <4>7. \A i \in 1 .. k : r[i] = path[i]
        BY <1>2, <3>1, <4>3, <4>4
      <4> HIDE DEF r, l
      <4>8. r = [i \in 1 .. k |-> r[i]]
        BY <4>6
      <4> QED
        BY <4>2, <4>7, <4>8 DEF l, r
    <3> QED
      BY <1>1, <1>3, <1>4, <3>1, <3>2, NamesOfSlash
  <2> QED
    BY <2>1, <2>2
<1> QED
  BY <1>4, <1>5, BelowIs

\* What stands before the file name, and what is put there
LEMMA SetFileNameIs ==
  ASSUME path \in Paths, NEW s \in PathNames, P!SetFileName(s)
  PROVE  path' \in Paths /\ P!NamesOf(path') = P!Below(path) \o P!NamesOf(s)
<1>1. s \in Paths
  BY CharsAre
<1>2. PICK k : /\ IsAbove(path, k) /\ P!Above(path) = SubSeq(path, 1, k)
               /\ Len(path) - Len(P!FileName(path)) = k
  BY FileNameIs
<1>3. k \in 0 .. Len(path) /\ Len(path) \in Nat /\ 0 \in 0 .. Len(path)
  BY <1>2 DEF IsAbove, Paths
<1>4. path' = P!Cut(path, 0, k) \o s
  BY <1>2 DEF P!SetFileName, P!PushStr, P!Truncate
<1>5. P!Cut(path, 0, k) = SubSeq(path, 1, k)
  <2>1. P!Cut(path, 0, k) = SubSeq(path, 0 + 1, k)
    BY <1>3, CutIs DEF Paths
  <2> QED
    BY <2>1
<1>6. path' = P!Above(path) \o s
  BY <1>2, <1>4, <1>5
<1> DEFINE u == P!Above(path)
<1>7. u \in Paths /\ (u = <<>> \/ u[Len(u)] = "/") /\ P!Below(path) = P!NamesOf(u) /\ path' = u \o s
  BY <1>6, BelowIs
<1> HIDE DEF u
<1>8. u \o s \in Paths /\ P!NamesOf(u \o s) = P!NamesOf(u) \o P!NamesOf(s)
  BY <1>1, <1>7, NamesJoin
<1> QED
  BY <1>7, <1>8 DEF u

\* The stem stays, and what follows it is put behind it.
LEMMA SetExtensionIs ==
  ASSUME path \in Paths, NEW s \in PathExts, P!SetExtension(s)
  PROVE  /\ path' \in Paths
         /\ P!NamesOf(path') = P!Below(path) \o P!NamesOf(P!FileStem(path) \o s)
<1> DEFINE u == P!Above(path)
           v == P!FileName(path)
           x == P!FileStem(path)
           e == P!Extension(path)
           n == Len(path)
           m == Len(u) + Len(x)
<1>1. s \in Paths /\ path \in Paths
  BY CharsAre
<1>2. u \in Paths /\ v \in Paths /\ u \o v = path /\ (u = <<>> \/ u[Len(u)] = "/") /\ P!Below(path) = P!NamesOf(u)
  BY BelowIs
<1>3. x \in Paths /\ e \in Paths /\ x \o e = v /\ Len(x) \in 0 .. Len(v) /\ Len(e) = Len(v) - Len(x)
  BY NameIs DEF IsName
<1> HIDE DEF u, v, x, e
<1>4. Len(u) \in Nat /\ Len(v) \in Nat /\ Len(x) \in Nat /\ Len(e) \in Nat /\ n = Len(u) + Len(v)
  BY <1>2, <1>3 DEF Paths
<1>5. n - Len(e) = m /\ m \in 0 .. n /\ 0 \in 0 .. n
  BY <1>3, <1>4
<1>6. path' = SubSeq(path, 1, m) \o s
  <2>1. path' = P!Cut(path, 0, m) \o s
    BY <1>5 DEF P!SetExtension, P!PushStr, P!Truncate, e
  <2>2. P!Cut(path, 0, m) = SubSeq(path, 1, m)
    <3> HIDE DEF m
    <3>1. P!Cut(path, 0, m) = SubSeq(path, 0 + 1, m)
      BY <1>1, <1>5, CutIs DEF Paths
    <3> QED
      BY <3>1
  <2> QED
    BY <2>1, <2>2
<1>7. path = (u \o x) \o e /\ u \o x \in Paths /\ Len(u \o x) = m
  <2>1. JoinsAll(u, x, e, P!Char)
    BY <1>2, <1>3, JoinAssoc, Zenon DEF Paths
  <2> QED
    BY <1>2, <1>3, <2>1 DEF JoinsAll, Paths
<1>8. SubSeq(path, 1, m) = u \o x
  <2> DEFINE T == P!Char
             y == u \o x
  <2>1. y \in Seq(T) /\ e \in Seq(T)
    BY <1>3, <1>7 DEF Paths
  <2>2. path = y \o e /\ Len(y) = m
    BY <1>7
  <2> HIDE DEF T, y
  <2>3. SubSeq(y \o e, 1, Len(y)) = y
    BY <2>1
  <2> QED
    BY <2>2, <2>3 DEF y
<1>9. path' = u \o (x \o s) /\ x \o s \in Paths
  <2>1. x \o s \in Paths
    BY <1>1, <1>3 DEF Paths
  <2>2. (u \o x) \o s = u \o (x \o s)
    <3>1. JoinsAll(u, x, s, P!Char)
      BY <1>1, <1>2, <1>3, JoinAssoc, Zenon DEF Paths
    <3> QED
      BY <3>1 DEF JoinsAll
  <2> QED
    BY <1>6, <1>8, <2>1, <2>2
<1>10. P!NamesOf(path') = P!NamesOf(u) \o P!NamesOf(x \o s) /\ path' \in Paths
  BY <1>2, <1>9, NamesJoin
<1> QED
  BY <1>2, <1>10 DEF u, x

\* A path stays a text, and each operation does to its names what it should.
LEMMA PathKept ==
  ASSUME path \in Paths, P!Next
  PROVE  path' \in Paths
BY PushIs, PopIs, SetFileNameIs, SetExtensionIs DEF P!Next

\* A path is a stack of names, of which the last falls into its parts.
LEMMA PathSteps ==
  ASSUME path \in Paths, [P!Next]_path
  PROVE  /\ \A s \in PathParts : P!Push(s) => P!NamesOf(path') = P!NamesOf(path) \o P!NamesOf(s)
         /\ P!Pop => P!NamesOf(path') = P!Below(path)
         /\ \A s \in PathNames : P!SetFileName(s) => P!NamesOf(path') = P!Below(path) \o P!NamesOf(s)
         /\ \A s \in PathExts : P!SetExtension(s) =>
              P!NamesOf(path') = P!Below(path) \o P!NamesOf(P!FileStem(path) \o s)
         /\ P!PartsFit'
<1>1. path' \in Paths
  BY PathKept
<1>2. P!PartsFit'
  <2>1. Fits(path')
    BY <1>1, PathFits
  <2> QED
    BY <2>1 DEF P!PartsFit, Fits
<1> QED
  BY <1>2, PushIs, PopIs, SetFileNameIs, SetExtensionIs

(***************************************************************************)
(* Views                                                                   *)
(***************************************************************************)

\* f goes from a along G, for n steps.
Runs(f, a, G, n) == f[0] = a /\ \A i \in 1 .. n : f[i] = G[i][f[i - 1]]

\* There is such a run.
LEMMA RunExists ==
  ASSUME NEW n \in Nat, NEW T, NEW a \in T, NEW G \in [1 .. n -> [T -> T]]
  PROVE  \E f \in [0 .. n -> T] : Runs(f, a, G, n)
<1> DEFINE Q == {k \in 0 .. n : \E f \in [0 .. k -> T] : Runs(f, a, G, k)}
<1>1. 0 \in Q
  <2> DEFINE f == [i \in 0 .. 0 |-> a]
  <2>1. f \in [0 .. 0 -> T] /\ Runs(f, a, G, 0)
    BY DEF Runs
  <2> QED
    BY <2>1
<1>2. ASSUME NEW k \in 1 .. n, k - 1 \in Q PROVE k \in Q
  <2>1. PICK f \in [0 .. k - 1 -> T] : Runs(f, a, G, k - 1)
    BY <1>2
  <2> DEFINE new == G[k][f[k - 1]]
             h == [i \in 0 .. k |-> IF i < k THEN f[i] ELSE new]
  <2>2. new \in T
    <3>1. f[k - 1] \in T
      BY <2>1
    <3>2. G[k] \in [T -> T]
      OBVIOUS
    <3> QED
      BY <3>1, <3>2
  <2>3. h \in [0 .. k -> T] /\ h[k] = new /\ \A i \in 0 .. k - 1 : h[i] = f[i]
    <3> HIDE DEF new
    <3> QED
      BY <2>1, <2>2
  <2> HIDE DEF h
  <2>4. h[0] = a
    BY <2>1, <2>3 DEF Runs
  <2>5. ASSUME NEW i \in 1 .. k PROVE h[i] = G[i][h[i - 1]]
    <3>1. i - 1 \in 0 .. k - 1
      OBVIOUS
    <3>2. h[i - 1] = f[i - 1]
      BY <2>3, <3>1
    <3>3. CASE i < k
      <4>1. i \in 1 .. k - 1 /\ i \in 0 .. k - 1
        BY <3>3
      <4> QED
        BY <2>1, <2>3, <3>2, <4>1 DEF Runs
    <3>4. CASE i = k
      BY <2>3, <3>2, <3>4
    <3> QED
      BY <3>3, <3>4
  <2>6. Runs(h, a, G, k)
    BY <2>4, <2>5 DEF Runs
  <2>7. k \in 0 .. n
    OBVIOUS
  <2> QED
    BY <2>3, <2>6, <2>7
<1>3. 0 .. n \subseteq Q
  <2> HIDE DEF Q
  <2> QED
    BY <1>1, <1>2, Onward, Zenon
<1>4. n \in 0 .. n
  OBVIOUS
<1> QED
  BY <1>3, <1>4

Same(f, g, n) == \A i \in 0 .. n : f[i] = g[i]

\* Two runs that go the same way from the same place come to the same.
LEMMA RunsMeet ==
  ASSUME NEW n \in Nat, NEW f, NEW g, f[0] = g[0], \A i \in 1 .. n : f[i - 1] = g[i - 1] => f[i] = g[i]
  PROVE  Same(f, g, n)
<1> DEFINE Q == {i \in 0 .. n : f[i] = g[i]}
<1>1. 0 \in Q
  OBVIOUS
<1>2. \A i \in 1 .. n : i - 1 \in Q => i \in Q
  OBVIOUS
<1> HIDE DEF Q
<1>3. 0 .. n \subseteq Q
  BY <1>1, <1>2, Onward, Zenon
<1> QED
  BY <1>3 DEF Q, Same

\* g[k] is the sum of the first k products of i and s.
IsSum(g, i, s, n) ==
  /\ g \in [0 .. n -> Nat] /\ g[0] = 0
  /\ \A k \in 1 .. n : g[k] = g[k - 1] + i[k] * s[k]

\* Products of natural numbers are natural numbers.
LEMMA TimesNat == ASSUME NEW a \in Nat, NEW b \in Nat PROVE a * b \in Nat
OBVIOUS

\* There is such a sum.
LEMMA SumExists ==
  ASSUME NEW n \in Nat, NEW i, NEW s, \A k \in 1 .. n : i[k] \in Nat /\ s[k] \in Nat
  PROVE  \E g : IsSum(g, i, s, n)
<1> DEFINE t == [k \in 1 .. n |-> i[k] * s[k]]
           G == [k \in 1 .. n |-> [x \in Nat |-> x + t[k]]]
<1>1. \A k \in 1 .. n : t[k] = i[k] * s[k] /\ t[k] \in Nat
  BY TimesNat
<1> HIDE DEF t
<1>2. G \in [1 .. n -> [Nat -> Nat]] /\ 0 \in Nat
  BY <1>1
<1>3. \A k \in 1 .. n : \A x \in Nat : G[k][x] = x + t[k]
  OBVIOUS
<1> HIDE DEF G
<1>4. PICK g \in [0 .. n -> Nat] : Runs(g, 0, G, n)
  BY <1>2, RunExists
<1>5. ASSUME NEW k \in 1 .. n PROVE g[k] = g[k - 1] + i[k] * s[k]
  <2>1. k - 1 \in 0 .. n
    OBVIOUS
  <2>2. g[k - 1] \in Nat
    BY <1>4, <2>1
  <2>3. g[k] = g[k - 1] + t[k]
    BY <1>3, <1>4, <2>2 DEF Runs
  <2> QED
    BY <1>1, <2>3
<1> QED
  BY <1>4, <1>5 DEF IsSum, Runs

\* operator^ is that sum.
LEMMA AtIs ==
  ASSUME NEW i, NEW s, NEW g, NEW n \in Nat, n = Len(i), IsSum(g, i, s, n)
  PROVE  V!At(i, s) = g[n] /\ g[n] \in Nat
<1> DEFINE Ok(f) == f = [k \in 0 .. Len(i) |-> IF k = 0 THEN 0 ELSE f[k - 1] + i[k] * s[k]]
           h == CHOOSE f : Ok(f)
<1>1. V!At(i, s) = h[Len(i)]
  BY Zenon DEF V!At
<1>2. \A k \in 0 .. n : g[k] = IF k = 0 THEN 0 ELSE g[k - 1] + i[k] * s[k]
  <2> SUFFICES ASSUME NEW k \in 0 .. n PROVE g[k] = IF k = 0 THEN 0 ELSE g[k - 1] + i[k] * s[k]
    OBVIOUS
  <2>1. k # 0 => k \in 1 .. n
    OBVIOUS
  <2> QED
    BY <2>1 DEF IsSum
<1>3. Ok(g)
  <2>1. g = [k \in 0 .. n |-> g[k]]
    BY DEF IsSum
  <2> QED
    BY <1>2, <2>1, Zenon
<1>4. Ok(h)
  BY <1>3, Zenon
<1> HIDE DEF h
<1>5. \A k \in 0 .. n : h[k] = IF k = 0 THEN 0 ELSE h[k - 1] + i[k] * s[k]
  BY <1>4, Zenon
<1> HIDE DEF Is
<1>6. h[0] = g[0]
  BY <1>2, <1>5
<1>7. ASSUME NEW k \in 1 .. n, h[k - 1] = g[k - 1] PROVE h[k] = g[k]
  <2>1. k \in 0 .. n /\ k # 0
    OBVIOUS
  <2> QED
    BY <1>2, <1>5, <1>7, <2>1, Zenon
<1>8. Same(h, g, n)
  BY <1>6, <1>7, RunsMeet, Zenon
<1>9. n \in 0 .. n
  OBVIOUS
<1> QED
  BY <1>1, <1>8, <1>9 DEF IsSum, Same

\* The indexes, dimensions or steps of n axes
Axes(n) == [1 .. n -> Nat]

\* They are as long as there are axes.
LEMMA AxesLen ==
  ASSUME NEW n \in Nat, NEW x \in Axes(n)
  PROVE  x \in Seq(Nat) /\ Len(x) = n /\ DOMAIN x = 1 .. n /\ \A k \in 1 .. n : x[k] \in Nat
BY DEF Axes

\* An address: that of the axes but the last, and that of the last one.
LEMMA AtGrows ==
  ASSUME NEW n \in Nat, n # 0, NEW i \in Axes(n), NEW s, \A k \in 1 .. n : s[k] \in Nat,
         NEW j \in Axes(n - 1), NEW t, \A k \in 1 .. n - 1 : j[k] = i[k] /\ t[k] = s[k]
  PROVE  V!At(i, s) = V!At(j, t) + i[n] * s[n] /\ V!At(j, t) \in Nat
<1> DEFINE m == n - 1
<1>1. m \in Nat /\ n = m + 1 /\ \A k \in 1 .. m : k \in 1 .. n
  OBVIOUS
<1>2. Len(i) = n /\ \A k \in 1 .. n : i[k] \in Nat
  BY AxesLen
<1>3. Len(j) = m /\ \A k \in 1 .. m : j[k] \in Nat /\ t[k] \in Nat
  BY <1>1, AxesLen
<1>4. PICK g : IsSum(g, i, s, n)
  BY <1>2, SumExists
<1> DEFINE h == [k \in 0 .. m |-> g[k]]
<1>5. h \in [0 .. m -> Nat] /\ \A k \in 0 .. m : h[k] = g[k]
  BY <1>4 DEF IsSum
<1>6. ASSUME NEW k \in 1 .. m PROVE h[k] = h[k - 1] + j[k] * t[k]
  <2>1. k \in 1 .. n /\ k \in 0 .. m /\ k - 1 \in 0 .. m
    BY <1>1
  <2>2. g[k] = g[k - 1] + i[k] * s[k]
    BY <1>4, <2>1 DEF IsSum
  <2>3. j[k] = i[k] /\ t[k] = s[k]
    OBVIOUS
  <2> HIDE DEF h
  <2> QED
    BY <1>5, <2>1, <2>2, <2>3
<1>7. h[0] = 0
  BY <1>1, <1>4, <1>5 DEF IsSum
<1> HIDE DEF h
<1>8. IsSum(h, j, t, m)
  BY <1>5, <1>6, <1>7 DEF IsSum
<1>9. V!At(j, t) = h[m] /\ h[m] \in Nat
  BY <1>1, <1>3, <1>8, AtIs
<1>10. V!At(i, s) = g[n]
  BY <1>2, <1>4, AtIs
<1>11. g[n] = g[n - 1] + i[n] * s[n]
  <2>1. n \in 1 .. n
    OBVIOUS
  <2> QED
    BY <1>4, <2>1 DEF IsSum
<1>12. h[m] = g[n - 1]
  BY <1>1, <1>5
<1> QED
  BY <1>9, <1>10, <1>11, <1>12

\* Without axes there is one address.
LEMMA AtNone == ASSUME NEW i \in Axes(0), NEW s PROVE V!At(i, s) = 0
<1>1. Len(i) = 0
  BY AxesLen
<1>2. PICK g : IsSum(g, i, s, 0)
  BY SumExists
<1> QED
  BY <1>1, <1>2, AtIs DEF IsSum

\* h[k] is the product of the first k of s.
IsProduct(h, s, n) ==
  /\ h \in [0 .. n -> Nat] /\ h[0] = 1
  /\ \A k \in 1 .. n : h[k] = h[k - 1] * s[k]

\* There is such a product.
LEMMA ProductExists ==
  ASSUME NEW n \in Nat, NEW s \in Axes(n)
  PROVE  \E h : IsProduct(h, s, n)
<1> DEFINE G == [k \in 1 .. n |-> [x \in Nat |-> x * s[k]]]
<1>1. \A k \in 1 .. n : s[k] \in Nat
  BY AxesLen
<1>2. \A k \in 1 .. n : \A x \in Nat : x * s[k] \in Nat
  BY <1>1, TimesNat
<1>3. G \in [1 .. n -> [Nat -> Nat]] /\ 1 \in Nat
  BY <1>2
<1>4. \A k \in 1 .. n : \A x \in Nat : G[k][x] = x * s[k]
  OBVIOUS
<1> HIDE DEF G
<1>5. PICK h \in [0 .. n -> Nat] : Runs(h, 1, G, n)
  BY <1>3, RunExists
<1>6. ASSUME NEW k \in 1 .. n PROVE h[k] = h[k - 1] * s[k]
  <2>1. k - 1 \in 0 .. n
    OBVIOUS
  <2>2. h[k - 1] \in Nat
    BY <1>5, <2>1
  <2> QED
    BY <1>4, <1>5, <2>2 DEF Runs
<1> QED
  BY <1>5, <1>6 DEF IsProduct, Runs

\* fold_mul is that product.
LEMMA ProductIs ==
  ASSUME NEW n \in Nat, NEW s, NEW h, IsProduct(h, s, n), NEW m \in 0 .. n
  PROVE  V!Product(s, m) = h[m]
<1> DEFINE Ok(f) == f = [k \in 0 .. m |-> IF k = 0 THEN 1 ELSE f[k - 1] * s[k]]
           e == CHOOSE f : Ok(f)
           g == [k \in 0 .. m |-> h[k]]
<1>0. m \in Nat /\ \A k \in 0 .. m : k \in 0 .. n
  OBVIOUS
<1>1. V!Product(s, m) = e[m]
  BY Zenon DEF V!Product
<1>2. \A k \in 0 .. m : g[k] = h[k]
  OBVIOUS
<1>3. g[0] = 1 /\ \A k \in 1 .. m : g[k] = g[k - 1] * s[k]
  <2>1. g[0] = 1
    BY <1>0, <1>2 DEF IsProduct
  <2>2. ASSUME NEW k \in 1 .. m PROVE g[k] = g[k - 1] * s[k]
    <3>1. k \in 1 .. n /\ k \in 0 .. m /\ k - 1 \in 0 .. m
      BY <1>0
    <3> HIDE DEF g
    <3> QED
      BY <1>2, <3>1 DEF IsProduct
  <2> QED
    BY <2>1, <2>2
<1>4. \A k \in 0 .. m : g[k] = IF k = 0 THEN 1 ELSE g[k - 1] * s[k]
  <2> SUFFICES ASSUME NEW k \in 0 .. m PROVE g[k] = IF k = 0 THEN 1 ELSE g[k - 1] * s[k]
    OBVIOUS
  <2>1. k # 0 => k \in 1 .. m
    BY <1>0
  <2> HIDE DEF g
  <2> QED
    BY <1>3, <2>1
<1>5. Ok(g)
  <2>1. g = [k \in 0 .. m |-> g[k]]
    OBVIOUS
  <2> HIDE DEF g
  <2> QED
    BY <1>4, <2>1, Zenon
<1> HIDE DEF g
<1>6. Ok(e)
  BY <1>5, Zenon
<1> HIDE DEF e
<1>7. \A k \in 0 .. m : e[k] = IF k = 0 THEN 1 ELSE e[k - 1] * s[k]
  BY <1>6, Zenon
<1> HIDE DEF Is
<1>8. e[0] = g[0]
  BY <1>0, <1>3, <1>7
<1>9. ASSUME NEW k \in 1 .. m, e[k - 1] = g[k - 1] PROVE e[k] = g[k]
  <2>1. k \in 0 .. m /\ k # 0
    BY <1>0
  <2> QED
    BY <1>4, <1>7, <1>9, <2>1, Zenon
<1>10. Same(e, g, m)
  BY <1>0, <1>8, <1>9, RunsMeet, Zenon
<1>11. m \in 0 .. m
  BY <1>0
<1> QED
  BY <1>1, <1>2, <1>10, <1>11 DEF Same

\* Step::from_dims
LEMMA FromDimsIs ==
  ASSUME NEW n \in Nat, NEW s \in Axes(n), NEW h, IsProduct(h, s, n)
  PROVE  V!FromDims(s) \in Axes(n) /\ \A k \in 1 .. n : V!FromDims(s)[k] = h[k - 1]
<1>1. DOMAIN s = 1 .. n
  BY AxesLen
<1>2. ASSUME NEW k \in 1 .. n PROVE V!Product(s, k - 1) = h[k - 1] /\ h[k - 1] \in Nat
  <2>1. k - 1 \in 0 .. n
    OBVIOUS
  <2>2. h[k - 1] \in Nat
    BY <2>1 DEF IsProduct
  <2> DEFINE m == k - 1
  <2>3. m \in 0 .. n
    BY <2>1
  <2> HIDE DEF m
  <2>4. V!Product(s, m) = h[m]
    BY <2>3, ProductIs
  <2> QED
    BY <2>2, <2>4 DEF m
<1>3. V!FromDims(s) = [k \in 1 .. n |-> V!Product(s, k - 1)]
  BY <1>1 DEF V!FromDims
<1> QED
  BY <1>2, <1>3 DEF Axes

\* The address of the axes from the (n - i)-th on, counted in what one index of
\* that axis is worth: from the last axis to the first.
IsHome(r, c, s, n) ==
  /\ r \in [0 .. n - 1 -> Nat] /\ r[0] = c[n]
  /\ \A i \in 1 .. n - 1 : r[i] = c[n - i] + s[n - i] * r[i - 1]

\* There are such addresses.
LEMMA HomeExists ==
  ASSUME NEW n \in Nat \ {0}, NEW c \in Axes(n), NEW s \in Axes(n)
  PROVE  \E r : IsHome(r, c, s, n)
<1> DEFINE m == n - 1
           G == [i \in 1 .. m |-> [x \in Nat |-> c[n - i] + s[n - i] * x]]
<1>1. m \in Nat /\ n \in 1 .. n /\ \A i \in 1 .. m : n - i \in 1 .. n
  OBVIOUS
<1>2. \A k \in 1 .. n : c[k] \in Nat /\ s[k] \in Nat
  BY AxesLen
<1>3. \A i \in 1 .. m : \A x \in Nat : c[n - i] + s[n - i] * x \in Nat
  <2> SUFFICES ASSUME NEW i \in 1 .. m, NEW x \in Nat PROVE c[n - i] + s[n - i] * x \in Nat
    OBVIOUS
  <2>1. c[n - i] \in Nat /\ s[n - i] \in Nat
    BY <1>1, <1>2
  <2>2. s[n - i] * x \in Nat
    BY <2>1, TimesNat
  <2> QED
    BY <2>1, <2>2
<1>4. G \in [1 .. m -> [Nat -> Nat]]
  BY <1>3
<1>5. \A i \in 1 .. m : \A x \in Nat : G[i][x] = c[n - i] + s[n - i] * x
  OBVIOUS
<1> HIDE DEF G
<1>6. c[n] \in Nat
  BY <1>1, <1>2
<1> HIDE DEF m
<1>7. PICK r \in [0 .. m -> Nat] : Runs(r, c[n], G, m)
  BY <1>1, <1>4, <1>6, RunExists
<1>8. ASSUME NEW i \in 1 .. m PROVE r[i] = c[n - i] + s[n - i] * r[i - 1]
  <2>1. i - 1 \in 0 .. m
    BY <1>1
  <2>2. r[i - 1] \in Nat
    BY <1>7, <2>1
  <2> QED
    BY <1>5, <1>7, <2>2 DEF Runs
<1> QED
  BY <1>7, <1>8 DEF IsHome, Runs, m

\* Home is that address.
LEMMA HomeIs ==
  ASSUME NEW n \in Nat \ {0}, dims \in Axes(n), NEW c \in Axes(n), NEW r, IsHome(r, c, dims, n)
  PROVE  V!Home(c) = r[n - 1]
<1> DEFINE Ok(f) == f = [k \in 1 .. Len(dims) |-> IF k = Len(dims) THEN c[k] ELSE c[k] + dims[k] * f[k + 1]]
           e == CHOOSE f : Ok(f)
           g == [k \in 1 .. n |-> r[n - k]]
           m == n - 1
<1>0. m \in Nat /\ Len(dims) = n /\ n = m + 1
  BY AxesLen
<1>1. V!Home(c) = e[1]
  BY Zenon DEF V!Home
<1>2. \A k \in 1 .. n : g[k] = r[n - k]
  OBVIOUS
<1>3. g = [k \in 1 .. n |-> g[k]]
  OBVIOUS
<1> HIDE DEF g
<1>4. \A k \in 1 .. n : g[k] = IF k = n THEN c[k] ELSE c[k] + dims[k] * g[k + 1]
  <2> SUFFICES ASSUME NEW k \in 1 .. n PROVE g[k] = IF k = n THEN c[k] ELSE c[k] + dims[k] * g[k + 1]
    OBVIOUS
  <2>1. CASE k = n
    <3>1. n - k = 0
      BY <2>1
    <3> QED
      BY <1>2, <2>1, <3>1 DEF IsHome
  <2>2. CASE k # n
    <3> DEFINE i == n - k
    <3>1. i \in 1 .. n - 1 /\ n - i = k /\ k + 1 \in 1 .. n /\ n - (k + 1) = i - 1
      BY <2>2
    <3> HIDE DEF i
    <3>2. r[i] = c[n - i] + dims[n - i] * r[i - 1]
      BY <3>1 DEF IsHome
    <3>3. g[k] = r[i] /\ g[k + 1] = r[i - 1]
      BY <1>2, <3>1 DEF i
    <3> QED
      BY <2>2, <3>1, <3>2, <3>3
  <2> QED
    BY <2>1, <2>2
<1>5. Ok(g)
  BY <1>0, <1>3, <1>4, Zenon
<1>6. Ok(e)
  BY <1>5, Zenon
<1> HIDE DEF e
<1>7. \A k \in 1 .. n : e[k] = IF k = n THEN c[k] ELSE c[k] + dims[k] * e[k + 1]
  BY <1>0, <1>6, Zenon
<1> HIDE DEF Is
<1> DEFINE x == [i \in 0 .. m |-> e[n - i]]
           y == [i \in 0 .. m |-> g[n - i]]
<1>8. x[0] = y[0]
  <2>1. n \in 1 .. n /\ n - 0 = n /\ 0 \in 0 .. m
    BY <1>0
  <2>2. x[0] = e[n] /\ y[0] = g[n]
    BY <2>1
  <2> HIDE DEF x, y
  <2> QED
    BY <1>4, <1>7, <2>1, <2>2
<1>9. ASSUME NEW i \in 1 .. m, x[i - 1] = y[i - 1] PROVE x[i] = y[i]
  <2> DEFINE k == n - i
  <2>1. k \in 1 .. n /\ k # n /\ n - (i - 1) = k + 1 /\ i \in 0 .. m /\ i - 1 \in 0 .. m
    BY <1>0
  <2>2. x[i] = e[k] /\ y[i] = g[k] /\ x[i - 1] = e[k + 1] /\ y[i - 1] = g[k + 1]
    BY <2>1
  <2> HIDE DEF k, x, y
  <2>3. e[k] = c[k] + dims[k] * e[k + 1] /\ g[k] = c[k] + dims[k] * g[k + 1]
    BY <1>4, <1>7, <2>1
  <2>4. e[k + 1] = g[k + 1]
    BY <1>9, <2>2
  <2> QED
    BY <2>2, <2>3, <2>4
<1>10. m \in 0 .. m /\ n - m = 1
  BY <1>0
<1>11. x[m] = e[1] /\ y[m] = g[1]
  BY <1>10
<1> HIDE DEF x, y
<1>12. Same(x, y, m)
  <2> HIDE DEF m
  <2> QED
    BY <1>0, <1>8, <1>9, RunsMeet, Zenon
<1>13. e[1] = g[1]
  BY <1>10, <1>11, <1>12 DEF Same
<1>14. g[1] = r[n - 1]
  <2>1. 1 \in 1 .. n
    OBVIOUS
  <2> QED
    BY <1>2, <2>1
<1> QED
  BY <1>1, <1>13, <1>14

\* What is worth a is worth as much in parts.
LEMMA Distributes ==
  ASSUME NEW a \in Nat, NEW b \in Nat, NEW d \in Nat, NEW x \in Nat
  PROVE  a * (b + d * x) = b * a + (a * d) * x
OBVIOUS

\* The cell of an array is where its indexes and the steps of the array say.
LEMMA HomeIsAt ==
  ASSUME NEW n \in Nat \ {0}, dims \in Axes(n), NEW c \in Axes(n)
  PROVE  V!Home(c) = V!At(c, V!FromDims(dims))
<1> DEFINE s == V!FromDims(dims)
           m == n - 1
<1>0. n \in Nat /\ m \in Nat /\ n = m + 1 /\ Len(c) = n
  BY AxesLen
<1>1. PICK h : IsProduct(h, dims, n)
  BY <1>0, ProductExists
<1>2. s \in Axes(n) /\ \A k \in 1 .. n : s[k] = h[k - 1]
  BY <1>0, <1>1, FromDimsIs
<1> HIDE DEF s
<1>3. \A k \in 1 .. n : c[k] \in Nat /\ s[k] \in Nat /\ dims[k] \in Nat
  BY <1>0, <1>2, AxesLen
<1>4. PICK g : IsSum(g, c, s, n)
  BY <1>0, <1>3, SumExists
<1>5. V!At(c, s) = g[n]
  BY <1>0, <1>4, AtIs
<1>6. PICK r : IsHome(r, c, dims, n)
  BY HomeExists
<1>7. V!Home(c) = r[m]
  BY <1>6, HomeIs
<1> DEFINE Q == {i \in 0 .. m : r[m] = g[i] + h[i] * r[m - i]}
<1>8. 0 \in Q
  <2>1. r[m] \in Nat /\ g[0] = 0 /\ h[0] = 1 /\ m - 0 = m /\ 0 \in 0 .. m
    <3>1. m \in 0 .. n - 1
      BY <1>0
    <3> QED
      BY <1>0, <1>1, <1>4, <1>6, <3>1 DEF IsHome, IsSum, IsProduct
  <2> QED
    BY <2>1
<1>9. ASSUME NEW i \in 1 .. m, i - 1 \in Q PROVE i \in Q
  <2> DEFINE j == m - i
             a == h[i - 1]
             b == c[i]
             d == dims[i]
             x == r[j]
             u == g[i - 1]
  <2>1. /\ j + 1 \in 1 .. n - 1 /\ n - (j + 1) = i /\ (j + 1) - 1 = j /\ j \in 0 .. n - 1
        /\ m - (i - 1) = j + 1 /\ i \in 1 .. n /\ i - 1 \in 0 .. n /\ i \in 0 .. m
    BY <1>0
  <2>2. r[j + 1] = b + d * x /\ x \in Nat
    <3>1. r[j + 1] = c[n - (j + 1)] + dims[n - (j + 1)] * r[(j + 1) - 1] /\ r[j] \in Nat
      BY <1>6, <2>1 DEF IsHome
    <3> QED
      BY <2>1, <3>1
  <2>3. g[i] = u + b * a /\ u \in Nat
    <3>1. g[i] = g[i - 1] + c[i] * s[i] /\ g[i - 1] \in Nat
      BY <1>4, <2>1 DEF IsSum
    <3> QED
      BY <1>2, <2>1, <3>1
  <2>4. h[i] = a * d /\ a \in Nat
    BY <1>1, <2>1 DEF IsProduct
  <2>5. b \in Nat /\ d \in Nat
    BY <1>3, <2>1
  <2>6. r[m] = u + a * r[j + 1]
    BY <1>9, <2>1
  <2> HIDE DEF a, b, d, x, u, Q
  <2>7. a * (b + d * x) = b * a + (a * d) * x
    BY <2>2, <2>4, <2>5, Distributes
  <2>8. r[m] = u + (b * a + (a * d) * x)
    BY <2>2, <2>6, <2>7
  <2>9. b * a \in Nat /\ (a * d) * x \in Nat
    BY <2>2, <2>4, <2>5, TimesNat
  <2>10. r[m] = g[i] + h[i] * x
    <3> DEFINE p == b * a
               q == (a * d) * x
    <3>1. p \in Nat /\ q \in Nat /\ r[m] = u + (p + q) /\ g[i] = u + p
      BY <2>3, <2>8, <2>9
    <3>2. h[i] * x = q
      BY <2>4
    <3> HIDE DEF p, q
    <3> QED
      BY <2>3, <3>1, <3>2
  <2> QED
    BY <2>1, <2>10 DEF Q, x
<1>10. 0 .. m \subseteq Q
  <2> HIDE DEF Q, m
  <2> QED
    BY <1>0, <1>8, <1>9, Onward, Zenon
<1>11. r[m] = g[m] + h[m] * r[0]
  <2>1. m \in Q /\ m - m = 0
    BY <1>0, <1>10
  <2> QED
    BY <2>1
<1>12. g[n] = g[m] + c[n] * h[m] /\ r[0] = c[n] /\ h[m] \in Nat /\ c[n] \in Nat
  <2>1. n \in 1 .. n /\ n - 1 = m /\ m \in 0 .. n
    BY <1>0
  <2>2. g[n] = g[n - 1] + c[n] * s[n]
    BY <1>4, <2>1 DEF IsSum
  <2>3. s[n] = h[n - 1]
    BY <1>2, <2>1
  <2> QED
    BY <1>1, <1>3, <1>6, <2>1, <2>2, <2>3 DEF IsProduct, IsHome
<1>13. h[m] * c[n] = c[n] * h[m]
  BY <1>12
<1> QED
  BY <1>5, <1>7, <1>11, <1>12, <1>13 DEF s

\* The indexes of the first n axes that are below dimensions
Below(d, n) == {i \in Axes(n) : \A k \in 1 .. n : i[k] < d[k]}

\* They are all there are of a view.
LEMMA BoxIs ==
  ASSUME NEW n \in Nat, NEW d \in [1 .. n -> 0 .. Longest]
  PROVE  V!Box(d) = Below(d, n)
<1>1. Longest \in Nat /\ DOMAIN d = 1 .. n
  BY LibraryAssumption DEF V!ArrayAssumption
<1>2. V!Box(d) = {i \in [1 .. n -> 0 .. Longest - 1] : \A k \in 1 .. n : i[k] < d[k]}
  BY <1>1 DEF V!Box
<1>3. ASSUME NEW i \in [1 .. n -> 0 .. Longest - 1] PROVE i \in Axes(n)
  BY <1>1 DEF Axes
<1>4. ASSUME NEW i \in Axes(n), \A k \in 1 .. n : i[k] < d[k] PROVE i \in [1 .. n -> 0 .. Longest - 1]
  <2>1. \A k \in 1 .. n : i[k] \in 0 .. Longest - 1
    BY <1>1, <1>4 DEF Axes
  <2> QED
    BY <2>1 DEF Axes
<1> QED
  BY <1>2, <1>3, <1>4 DEF Below

\* The addresses of these indexes
Ats(d, s, n) == {V!At(i, s) : i \in Below(d, n)}

\* Addresses A, as often as an axis of length c and this step repeats them
Spread(c, step, A) == {i * step + x : i \in 0 .. c - 1, x \in A}

\* They are in what holds each of them.
LEMMA SpreadIn ==
  ASSUME NEW c, NEW step, NEW A, NEW B, \A i \in 0 .. c - 1, x \in A : i * step + x \in B
  PROVE  \A z \in Spread(c, step, A) : z \in B
BY DEF Spread

\* Without axes there is one.
LEMMA AtsNone == ASSUME NEW d, NEW s PROVE Ats(d, s, 0) = {0}
<1> DEFINE i == [k \in 1 .. 0 |-> 0]
<1>1. i \in Axes(0) /\ \A k \in 1 .. 0 : i[k] < d[k]
  BY DEF Axes
<1> HIDE DEF i
<1>2. i \in Below(d, 0)
  BY <1>1 DEF Below
<1>3. \A j \in Below(d, 0) : V!At(j, s) = 0
  BY AtNone DEF Below
<1> QED
  BY <1>2, <1>3 DEF Ats

\* An axis more spreads them by its step.
LEMMA AtsSpread ==
  ASSUME NEW n \in Nat, n # 0, NEW d, NEW s, \A k \in 1 .. n : d[k] \in Nat /\ s[k] \in Nat
  PROVE  Ats(d, s, n) = Spread(d[n], s[n], Ats(d, s, n - 1))
<1> DEFINE m == n - 1
           W == Spread(d[n], s[n], Ats(d, s, n - 1))
<1>1. m \in Nat /\ n = m + 1 /\ n \in 1 .. n /\ \A k \in 1 .. m : k \in 1 .. n
  OBVIOUS
<1>2. ASSUME NEW i \in Below(d, n) PROVE V!At(i, s) \in W
  <2> DEFINE j == [k \in 1 .. m |-> i[k]]
  <2>1. i \in Axes(n) /\ (\A k \in 1 .. n : i[k] < d[k] /\ i[k] \in Nat)
    BY AxesLen DEF Below
  <2>2. j \in Axes(m) /\ \A k \in 1 .. m : j[k] = i[k]
    BY <1>1, <2>1 DEF Axes
  <2> HIDE DEF j
  <2>3. j \in Below(d, m)
    BY <1>1, <2>1, <2>2 DEF Below
  <2>4. V!At(i, s) = V!At(j, s) + i[n] * s[n] /\ V!At(j, s) \in Nat
    BY <1>1, <2>1, <2>2, AtGrows
  <2>5. i[n] \in 0 .. d[n] - 1
    BY <1>1, <2>1
  <2>6. V!At(j, s) \in Ats(d, s, n - 1)
    BY <2>3 DEF Ats
  <2> DEFINE y == V!At(j, s)
             x == i[n]
  <2>7. x * s[n] \in Nat
    BY <1>1, <2>1, TimesNat
  <2>8. V!At(i, s) = x * s[n] + y
    <3> DEFINE z == x * s[n]
    <3>1. z \in Nat /\ y \in Nat /\ V!At(i, s) = y + z
      BY <2>4, <2>7
    <3> HIDE DEF z, y
    <3> QED
      BY <3>1 DEF z
  <2> QED
    BY <2>5, <2>6, <2>8 DEF Spread
<1>3. ASSUME NEW x \in 0 .. d[n] - 1, NEW y \in Ats(d, s, n - 1) PROVE x * s[n] + y \in Ats(d, s, n)
  <2>1. PICK j \in Below(d, m) : y = V!At(j, s)
    BY DEF Ats
  <2> DEFINE i == [k \in 1 .. n |-> IF k = n THEN x ELSE j[k]]
  <2>2. j \in Axes(m) /\ \A k \in 1 .. m : j[k] < d[k] /\ j[k] \in Nat
    BY <1>1, AxesLen DEF Below
  <2>3. i[n] = x /\ \A k \in 1 .. m : i[k] = j[k]
    BY <1>1
  <2>4. i \in Axes(n)
    <3>1. \A k \in 1 .. n : k # n => k \in 1 .. m
      BY <1>1
    <3> QED
      BY <2>2, <3>1 DEF Axes
  <2> HIDE DEF i
  <2>5. i \in Below(d, n)
    <3>1. ASSUME NEW k \in 1 .. n PROVE i[k] < d[k]
      <4>1. CASE k = n
        BY <1>1, <2>3, <4>1
      <4>2. CASE k # n
        <5>1. k \in 1 .. m
          BY <1>1, <4>2
        <5> QED
          BY <2>2, <2>3, <5>1
      <4> QED
        BY <4>1, <4>2
    <3> QED
      BY <2>4, <3>1 DEF Below
  <2>6. V!At(i, s) = V!At(j, s) + i[n] * s[n] /\ V!At(j, s) \in Nat
    BY <1>1, <2>2, <2>3, <2>4, AtGrows
  <2>7. x * s[n] \in Nat
    BY <1>1, TimesNat
  <2>8. V!At(i, s) = x * s[n] + y
    <3> DEFINE z == x * s[n]
    <3>1. z \in Nat /\ y \in Nat /\ V!At(i, s) = y + z
      BY <2>1, <2>3, <2>6, <2>7
    <3> HIDE DEF z
    <3> QED
      BY <3>1 DEF z
  <2> QED
    BY <2>5, <2>8 DEF Ats
<1>4. \A z \in Ats(d, s, n) : z \in W
  <2> HIDE DEF W
  <2> QED
    BY <1>2 DEF Ats
<1>5. \A z \in W : z \in Ats(d, s, n)
  BY <1>3 DEF Spread
<1> QED
  BY <1>4, <1>5

\* An assignment writes to the addresses of a view, and to no other.
LEMMA AssignedIs ==
  ASSUME NEW n \in Nat \ {0}, NEW v, v.dims \in Axes(n), v.step \in Axes(n)
  PROVE  V!Assigned(v) = {v.data + x : x \in Ats(v.dims, v.step, n)}
<1> DEFINE d == v.dims
           s == v.step
           Ok(f) == f = [q \in 1 .. Len(v.dims) |->
                          Spread(v.dims[q], v.step[q], IF q = 1 THEN {0} ELSE f[q - 1])]
           e == CHOOSE f : Ok(f)
           g == [q \in 1 .. n |-> Ats(d, s, q)]
           m == n - 1
<1>0. Len(v.dims) = n /\ m \in Nat /\ n = m + 1 /\ \A k \in 1 .. n : d[k] \in Nat /\ s[k] \in Nat
  BY AxesLen
<1>1. V!Assigned(v) = {v.data + x : x \in e[Len(v.dims)]}
  BY SMT DEF V!Assigned, Spread
<1>2. \A q \in 1 .. n : g[q] = Ats(d, s, q)
  OBVIOUS
<1>3. g = [q \in 1 .. n |-> g[q]]
  OBVIOUS
<1> HIDE DEF g
<1>4. ASSUME NEW q \in 1 .. n
      PROVE  g[q] = Spread(v.dims[q], v.step[q], IF q = 1 THEN {0} ELSE g[q - 1])
  <2>1. q \in Nat /\ q # 0 /\ \A k \in 1 .. q : d[k] \in Nat /\ s[k] \in Nat
    BY <1>0
  <2>2. Ats(d, s, q) = Spread(d[q], s[q], Ats(d, s, q - 1))
    <3> HIDE DEF d, s
    <3> QED
      BY <2>1, AtsSpread, Zenon
  <2>3. Ats(d, s, q - 1) = IF q = 1 THEN {0} ELSE g[q - 1]
    <3>1. CASE q = 1
      <4>1. q - 1 = 0
        BY <3>1
      <4> HIDE DEF d, s
      <4> QED
        BY <3>1, <4>1, AtsNone
    <3>2. CASE q # 1
      <4>1. q - 1 \in 1 .. n
        BY <3>2
      <4> QED
        BY <1>2, <3>2, <4>1
    <3> QED
      BY <3>1, <3>2
  <2> QED
    BY <1>2, <2>2, <2>3
<1>5. Ok(g)
  BY <1>0, <1>3, <1>4, Zenon
<1>6. Ok(e)
  BY <1>5, Zenon
<1> HIDE DEF e
<1>7. \A q \in 1 .. n : e[q] = Spread(v.dims[q], v.step[q], IF q = 1 THEN {0} ELSE e[q - 1])
  BY <1>0, <1>6, Zenon
<1> HIDE DEF Is
<1> DEFINE y == [i \in 0 .. m |-> e[i + 1]]
           z == [i \in 0 .. m |-> g[i + 1]]
<1>8. y[0] = z[0]
  <2>1. 1 \in 1 .. n /\ 0 \in 0 .. m /\ 0 + 1 = 1
    BY <1>0
  <2>2. y[0] = e[1] /\ z[0] = g[1]
    BY <2>1
  <2> HIDE DEF y, z
  <2>3. e[1] = g[1]
    BY <1>4, <1>7, <2>1, Zenon
  <2> QED
    BY <2>2, <2>3
<1>9. ASSUME NEW i \in 1 .. m, y[i - 1] = z[i - 1] PROVE y[i] = z[i]
  <2> DEFINE q == i + 1
  <2>1. q \in 1 .. n /\ q # 1 /\ q - 1 = (i - 1) + 1 /\ i \in 0 .. m /\ i - 1 \in 0 .. m
    BY <1>0
  <2>2. y[i] = e[q] /\ z[i] = g[q] /\ y[i - 1] = e[q - 1] /\ z[i - 1] = g[q - 1]
    BY <2>1
  <2> HIDE DEF q, y, z
  <2>3. e[q - 1] = g[q - 1]
    BY <1>9, <2>2
  <2>4. e[q] = Spread(v.dims[q], v.step[q], e[q - 1]) /\ g[q] = Spread(v.dims[q], v.step[q], g[q - 1])
    BY <1>4, <1>7, <2>1, Zenon
  <2> QED
    BY <2>2, <2>3, <2>4
<1>10. m \in 0 .. m /\ m + 1 = n
  BY <1>0
<1>11. y[m] = e[n] /\ z[m] = g[n]
  BY <1>10
<1> HIDE DEF y, z
<1>12. Same(y, z, m)
  <2> HIDE DEF m
  <2> QED
    BY <1>0, <1>8, <1>9, RunsMeet, Zenon
<1>13. e[n] = Ats(d, s, n)
  <2>1. n \in 1 .. n
    OBVIOUS
  <2> QED
    BY <1>2, <1>10, <1>11, <1>12, <2>1 DEF Same
<1> QED
  BY <1>0, <1>1, <1>13

\* Blocks of w, d of them, lie side by side.
LEMMA BlocksFill ==
  ASSUME NEW w \in Nat, NEW d \in Nat
  PROVE  Spread(d, w, 0 .. w - 1) = 0 .. w * d - 1
<1> DEFINE A == Spread(d, w, 0 .. w - 1)
<1>0. w * d \in Nat
  BY TimesNat
<1>1. ASSUME NEW x \in 0 .. d - 1, NEW y \in 0 .. w - 1 PROVE x * w + y \in 0 .. w * d - 1
  <2>1. PICK k \in Nat : d = x + 1 + k
    <3>1. d - 1 - x \in Nat /\ d = x + 1 + (d - 1 - x)
      OBVIOUS
    <3> QED
      BY <3>1
  <2>2. w * d = x * w + w + w * k
    BY <2>1
  <2>3. x * w \in Nat /\ w * k \in Nat
    BY TimesNat
  <2> DEFINE p == x * w
             q == w * k
             r == w * d
  <2>4. p \in Nat /\ q \in Nat /\ r = p + w + q
    BY <2>2, <2>3
  <2> HIDE DEF p, q, r
  <2>5. p + y \in 0 .. r - 1
    BY <2>4
  <2> QED
    BY <2>5 DEF p, r
<1>2. ASSUME NEW z \in 0 .. w * d - 1 PROVE z \in A
  <2>1. w # 0
    BY <1>0
  <2> DEFINE x == z \div w
             y == z % w
  <2>2. x \in Int /\ y \in 0 .. w - 1 /\ z = x * w + y /\ z \in Nat
    BY <2>1
  <2>3. x \in 0 .. d - 1
    <3> HIDE DEF x, y
    <3>1. x >= 0
      <4> SUFFICES ASSUME x < 0 PROVE FALSE
        BY <2>2
      <4>1. PICK k \in Nat : x = -1 - k
        <5>1. -1 - x \in Nat /\ x = -1 - (-1 - x)
          BY <2>2
        <5> QED
          BY <5>1
      <4>2. x * w = -w - k * w /\ k * w \in Nat
        BY <4>1, TimesNat
      <4> DEFINE p == k * w
                 q == x * w
      <4>3. p \in Nat /\ q = -w - p /\ z = q + y
        BY <2>2, <4>2
      <4> HIDE DEF p, q
      <4> QED
        BY <2>2, <4>3
    <3>2. x < d
      <4> SUFFICES ASSUME x >= d PROVE FALSE
        BY <2>2
      <4>1. PICK k \in Nat : x = d + k
        <5>1. x - d \in Nat /\ x = d + (x - d)
          BY <2>2
        <5> QED
          BY <5>1
      <4>2. x * w = w * d + k * w /\ k * w \in Nat
        BY <4>1, TimesNat
      <4> DEFINE p == k * w
                 q == x * w
                 r == w * d
      <4>3. p \in Nat /\ q = r + p /\ z = q + y /\ z <= r - 1 /\ r \in Nat
        BY <1>0, <2>2, <4>2
      <4> HIDE DEF p, q, r
      <4> QED
        BY <2>2, <4>3
    <3> QED
      BY <2>2, <3>1, <3>2
  <2> HIDE DEF x, y
  <2> QED
    BY <2>2, <2>3 DEF Spread
<1>3. \A z \in A : z \in 0 .. w * d - 1
  <2> DEFINE to == 0 .. w * d - 1
  <2>1. \A x \in 0 .. d - 1, y \in 0 .. w - 1 : x * w + y \in to
    BY <1>1
  <2> HIDE DEF to
  <2>2. \A z \in A : z \in to
    BY <2>1, SpreadIn, Zenon
  <2> QED
    BY <2>2 DEF to
<1> HIDE DEF A
<1>4. A = 0 .. w * d - 1
  BY <1>2, <1>3, Zenon
<1> QED
  BY <1>4 DEF A

\* The elements of an array lie side by side.
LEMMA ArrayIsDense ==
  ASSUME NEW n \in Nat, NEW d \in Axes(n), NEW h, IsProduct(h, d, n), NEW s, s = V!FromDims(d)
  PROVE  Ats(d, s, n) = 0 .. h[n] - 1
<1> DEFINE Q == {q \in 0 .. n : Ats(d, s, q) = 0 .. h[q] - 1}
<1>1. s \in Axes(n) /\ \A k \in 1 .. n : s[k] = h[k - 1]
  BY FromDimsIs
<1>2. \A k \in 1 .. n : d[k] \in Nat /\ s[k] \in Nat
  BY <1>1, AxesLen
<1>3. 0 \in Q
  <2>1. h[0] = 1 /\ 0 .. 1 - 1 = {0} /\ 0 \in 0 .. n
    BY DEF IsProduct
  <2>2. Ats(d, s, 0) = {0}
    BY AtsNone, Zenon
  <2>3. Ats(d, s, 0) = 0 .. h[0] - 1
    BY <2>1, <2>2
  <2> QED
    BY <2>1, <2>3
<1>4. ASSUME NEW q \in 1 .. n, q - 1 \in Q PROVE q \in Q
  <2>1. q \in Nat /\ q # 0 /\ q \in 0 .. n /\ q - 1 \in 0 .. n /\ \A k \in 1 .. q : d[k] \in Nat /\ s[k] \in Nat
    BY <1>2
  <2>2. Ats(d, s, q) = Spread(d[q], s[q], Ats(d, s, q - 1))
    BY <2>1, AtsSpread, Zenon
  <2> DEFINE w == h[q - 1]
             c == d[q]
  <2>3. w \in Nat /\ c \in Nat /\ s[q] = w /\ h[q] = w * c
    BY <1>1, <1>2, <2>1 DEF IsProduct
  <2>4. Ats(d, s, q - 1) = 0 .. w - 1
    BY <1>4
  <2> HIDE DEF w, Q
  <2>5. Ats(d, s, q) = Spread(c, w, 0 .. w - 1)
    BY <2>2, <2>3, <2>4
  <2> HIDE DEF c
  <2>6. Ats(d, s, q) = 0 .. w * c - 1
    BY <2>3, <2>5, BlocksFill
  <2> QED
    BY <2>1, <2>3, <2>6 DEF Q
<1>5. 0 .. n \subseteq Q
  <2> HIDE DEF Q
  <2> QED
    BY <1>3, <1>4, Onward, Zenon
<1>6. n \in 0 .. n
  OBVIOUS
<1> QED
  BY <1>5, <1>6

\* c[k] is how many of the first k numbers are in B.
IsCount(c, B, n) ==
  /\ c \in [0 .. n -> Nat] /\ c[0] = 0 /\ B \subseteq 1 .. n
  /\ \A k \in 1 .. n : c[k] = IF k \in B THEN c[k - 1] + 1 ELSE c[k - 1]

\* It gives each of B a number of its own,
Tells(c, B, n) ==
  /\ \A k \in B : c[k] \in 1 .. c[n] /\ k \in 1 .. n
  /\ \A j \in B, k \in B : c[j] = c[k] => j = k

\* and leaves out no number.
Reaches(c, B, n) == \A q \in 1 .. c[n] : \E k \in B : c[k] = q

\* The number of those that come first is such a count.
LEMMA CountIs ==
  ASSUME NEW n \in Nat, NEW B, B \subseteq 1 .. n, NEW c, c = [k \in 0 .. n |-> Cardinality({j \in B : j <= k})]
  PROVE  IsCount(c, B, n) /\ c[n] = Cardinality(B)
<1> DEFINE U(k) == {j \in B : j <= k}
<1>1. \A k \in 0 .. n : c[k] = Cardinality(U(k))
  OBVIOUS
<1>2. ASSUME NEW k \in 0 .. n PROVE IsFiniteSet(U(k)) /\ Cardinality(U(k)) \in Nat
  <2>1. IsFiniteSet(1 .. n)
    BY FS_Interval
  <2>2. U(k) \subseteq 1 .. n
    OBVIOUS
  <2> HIDE DEF U
  <2>3. IsFiniteSet(U(k))
    BY <2>1, <2>2, FS_Subset, Zenon
  <2> QED
    BY <2>3, FS_CardinalityType, Zenon
<1>0. \A j \in B : j \in Int /\ 1 <= j /\ j <= n
  OBVIOUS
<1>3. U(0) = {} /\ U(n) = B
  <2>1. \A j \in B : ~(j <= 0)
    BY <1>0
  <2> QED
    BY <1>0, <2>1
<1>4. ASSUME NEW k \in 1 .. n
      PROVE  /\ k \in B => U(k) = U(k - 1) \cup {k} /\ k \notin U(k - 1)
             /\ k \notin B => U(k) = U(k - 1)
  <2>1. \A j \in B : j <= k <=> (j <= k - 1 \/ j = k)
    BY <1>0
  <2>2. ~(k <= k - 1)
    OBVIOUS
  <2> QED
    BY <2>1, <2>2
<1> HIDE DEF U
<1>5. c[0] = 0
  <2>1. 0 \in 0 .. n
    OBVIOUS
  <2>2. Cardinality({}) = 0
    BY FS_EmptySet
  <2> QED
    BY <1>1, <1>3, <2>1, <2>2
<1>6. ASSUME NEW k \in 1 .. n PROVE c[k] = IF k \in B THEN c[k - 1] + 1 ELSE c[k - 1]
  <2> DEFINE p == k - 1
  <2>1. k \in 0 .. n /\ p \in 0 .. n
    OBVIOUS
  <2>2. c[k] = Cardinality(U(k)) /\ c[p] = Cardinality(U(p)) /\ IsFiniteSet(U(p))
    BY <1>1, <1>2, <2>1
  <2>3. CASE k \in B
    <3>1. U(k) = U(p) \cup {k} /\ k \notin U(p)
      BY <1>4, <2>3
    <3> HIDE DEF p
    <3>2. Cardinality(U(p) \cup {k}) = Cardinality(U(p)) + 1
      BY <2>2, <3>1, FS_AddElement
    <3> QED
      BY <2>2, <2>3, <3>1, <3>2 DEF p
  <2>4. CASE k \notin B
    BY <1>4, <2>2, <2>4
  <2> QED
    BY <2>3, <2>4
<1>7. c \in [0 .. n -> Nat]
  BY <1>1, <1>2
<1>8. c[n] = Cardinality(B)
  <2>1. n \in 0 .. n
    OBVIOUS
  <2> QED
    BY <1>1, <1>3, <2>1
<1> QED
  BY <1>5, <1>6, <1>7, <1>8 DEF IsCount

\* A count never falls,
LEMMA CountRises ==
  ASSUME NEW n \in Nat, NEW B, NEW c, IsCount(c, B, n)
  PROVE  \A k \in 0 .. n : \A j \in 0 .. k : c[j] <= c[k]
<1> DEFINE Q == {k \in 0 .. n : \A j \in 0 .. k : c[j] <= c[k]}
<1>1. \A k \in 0 .. n : c[k] \in Nat
  BY DEF IsCount
<1>2. 0 \in Q
  <2>1. 0 \in 0 .. n /\ \A j \in 0 .. 0 : j = 0
    OBVIOUS
  <2>2. c[0] <= c[0]
    BY <1>1, <2>1
  <2> QED
    BY <2>1, <2>2
<1>3. ASSUME NEW k \in 1 .. n, k - 1 \in Q PROVE k \in Q
  <2>1. k \in 0 .. n /\ k - 1 \in 0 .. n
    OBVIOUS
  <2>2. c[k - 1] <= c[k]
    BY <1>1, <2>1 DEF IsCount
  <2>3. ASSUME NEW j \in 0 .. k PROVE c[j] <= c[k]
    <3>1. CASE j = k
      BY <1>1, <2>1, <3>1
    <3>2. CASE j # k
      <4>1. j \in 0 .. k - 1 /\ j \in 0 .. n
        BY <3>2
      <4>2. c[j] <= c[k - 1]
        BY <1>3, <4>1
      <4> QED
        BY <1>1, <2>1, <2>2, <4>1, <4>2
    <3> QED
      BY <3>1, <3>2
  <2> QED
    BY <2>1, <2>3
<1>4. 0 .. n \subseteq Q
  <2> HIDE DEF Q
  <2> QED
    BY <1>2, <1>3, Onward, Zenon
<1> QED
  BY <1>4

\* so that it tells what it counts,
LEMMA CountTells ==
  ASSUME NEW n \in Nat, NEW B, NEW c, IsCount(c, B, n)
  PROVE  Tells(c, B, n)
<1>1. \A k \in 0 .. n : c[k] \in Nat
  BY DEF IsCount
<1>2. \A k \in 0 .. n : \A j \in 0 .. k : c[j] <= c[k]
  BY CountRises
<1>3. ASSUME NEW k \in B
      PROVE k \in 1 .. n /\ k \in 0 .. n /\ k - 1 \in 0 .. n /\ c[k] = c[k - 1] + 1 /\ c[k - 1] \in Nat
  BY <1>1 DEF IsCount
<1>4. ASSUME NEW j \in B, NEW k \in B, j < k PROVE c[j] < c[k]
  <2>1. j \in 0 .. k - 1
    BY <1>3, <1>4
  <2>2. c[j] <= c[k - 1] /\ c[j] \in Nat
    BY <1>1, <1>2, <1>3, <2>1
  <2> QED
    BY <1>3, <2>2
<1>5. ASSUME NEW k \in B PROVE c[k] \in 1 .. c[n] /\ k \in 1 .. n
  <2>1. k \in 0 .. n /\ n \in 0 .. n
    BY <1>3
  <2>2. c[k] <= c[n] /\ c[n] \in Nat
    BY <1>1, <1>2, <2>1
  <2> QED
    BY <1>3, <2>2
<1>6. ASSUME NEW j \in B, NEW k \in B, c[j] = c[k] PROVE j = k
  <2>1. ~(j < k) /\ ~(k < j)
    <3>1. c[j] \in Nat /\ c[k] \in Nat
      BY <1>1, <1>3
    <3> QED
      BY <1>4, <1>6, <3>1
  <2> QED
    BY <1>3, <2>1
<1> QED
  BY <1>5, <1>6 DEF Tells

\* and it rises by one at a time.
LEMMA CountReaches ==
  ASSUME NEW n \in Nat, NEW B, NEW c, IsCount(c, B, n)
  PROVE  Reaches(c, B, n)
<1> DEFINE Q == {k \in 0 .. n : \A q \in 1 .. c[k] : \E j \in B : c[j] = q}
<1>1. \A k \in 0 .. n : c[k] \in Nat
  BY DEF IsCount
<1>2. 0 \in Q
  BY DEF IsCount
<1>3. ASSUME NEW k \in 1 .. n, k - 1 \in Q PROVE k \in Q
  <2>1. k \in 0 .. n /\ k - 1 \in 0 .. n
    OBVIOUS
  <2>2. ASSUME NEW q \in 1 .. c[k] PROVE \E j \in B : c[j] = q
    <3>1. CASE k \in B
      <4>1. c[k] = c[k - 1] + 1 /\ c[k - 1] \in Nat
        BY <1>1, <2>1, <3>1 DEF IsCount
      <4>2. q = c[k] \/ q \in 1 .. c[k - 1]
        BY <4>1
      <4> QED
        BY <1>3, <3>1, <4>2
    <3>2. CASE k \notin B
      <4>1. c[k] = c[k - 1]
        BY <3>2 DEF IsCount
      <4> QED
        BY <1>3, <4>1
    <3> QED
      BY <3>1, <3>2
  <2> QED
    BY <2>1, <2>2
<1>4. 0 .. n \subseteq Q
  <2> HIDE DEF Q
  <2> QED
    BY <1>2, <1>3, Onward, Zenon
<1>5. n \in 0 .. n
  OBVIOUS
<1> QED
  BY <1>4, <1>5 DEF Reaches

\* r has the entries of s that are in B, in their order.
Keeps(r, s, B, c, n) ==
  r = [q \in 1 .. c[n] |-> r[q]] /\ \A k \in B : r[c[k]] = s[k]

\* The axes that a slice keeps
Spanned(spans, n) == {k \in 1 .. n : Len(spans[k]) = 2}

\* Cardinality there is Cardinality here.
LEMMA ViewCardinality == \A x : V!Cardinality(x) = Cardinality(x)
BY DEF V!Cardinality, Cardinality

\* Kept is such a sequence.
LEMMA KeptIs ==
  ASSUME NEW n \in Nat, NEW spans, NEW s, DOMAIN s = 1 .. n, NEW B, B = Spanned(spans, n),
         NEW c, c = [k \in 0 .. n |-> Cardinality({j \in B : j <= k})]
  PROVE  Keeps(V!Kept(s, spans), s, B, c, n)
<1> DEFINE at(q) == CHOOSE k \in DOMAIN s : Len(spans[k]) = 2 /\ V!Cardinality({j \in 1 .. k : Len(spans[j]) = 2}) = q
           r == V!Kept(s, spans)
<1>1. IsCount(c, B, n) /\ c[n] = Cardinality(B)
  BY CountIs DEF Spanned
<1>2. {k \in DOMAIN s : Len(spans[k]) = 2} = B
  BY DEF Spanned
<1>3. r = [q \in 1 .. c[n] |-> s[at(q)]]
  <2>1. r = [q \in 1 .. V!Cardinality({k \in DOMAIN s : Len(spans[k]) = 2}) |-> s[at(q)]]
    BY Zenon DEF V!Kept
  <2> HIDE DEF at
  <2> QED
    BY <1>1, <1>2, <2>1, ViewCardinality
<1>4. ASSUME NEW k \in 1 .. n PROVE V!Cardinality({j \in 1 .. k : Len(spans[j]) = 2}) = c[k]
  <2>1. {j \in 1 .. k : Len(spans[j]) = 2} = {j \in B : j <= k} /\ k \in 0 .. n
    BY DEF Spanned
  <2> QED
    BY <2>1, ViewCardinality
<1>5. ASSUME NEW k \in B PROVE r[c[k]] = s[k]
  <2>1. k \in 1 .. n /\ Len(spans[k]) = 2
    BY DEF Spanned
  <2> DEFINE Ok(j) == Len(spans[j]) = 2 /\ V!Cardinality({i \in 1 .. j : Len(spans[i]) = 2}) = c[k]
  <2>2. Ok(k)
    BY <1>4, <2>1
  <2>3. at(c[k]) \in DOMAIN s /\ Ok(at(c[k]))
    <3> HIDE DEF Is
    <3>1. (CHOOSE j \in DOMAIN s : Ok(j)) \in DOMAIN s /\ Ok(CHOOSE j \in DOMAIN s : Ok(j))
      BY <2>1, <2>2, Zenon
    <3> QED
      BY <3>1, Zenon DEF Is
  <2> DEFINE j == at(c[k])
  <2> HIDE DEF at
  <2>4. j \in B /\ c[j] = c[k]
    BY <1>2, <1>4, <2>3, Zenon
  <2> HIDE DEF j
  <2>5. j = k /\ c[k] \in 1 .. c[n]
    <3>1. Tells(c, B, n)
      BY <1>1, CountTells, Zenon
    <3> QED
      BY <2>4, <3>1, Zenon DEF Tells
  <2> QED
    BY <1>3, <2>5 DEF j
<1>6. r = [q \in 1 .. c[n] |-> r[q]]
  <2> HIDE DEF at
  <2> QED
    BY <1>3
<1> HIDE DEF r
<1>7. Keeps(r, s, B, c, n)
  BY <1>5, <1>6 DEF Keeps
<1> QED
  BY <1>7 DEF r

\* What a view of an array of dimensions ds is, beside its n axes: sh tells the
\* cells that its indexes mean, and its addresses are theirs.
Shown(ds, v, sh, n) ==
  /\ v.data \in Nat /\ v.dims \in [1 .. n -> 0 .. Longest] /\ v.step \in Axes(n)
  /\ sh \in [Below(v.dims, n) -> Below(ds, Len(ds))]
  /\ \A i \in Below(v.dims, n) : v.data + V!At(i, v.step) = V!At(sh[i], V!FromDims(ds))

\* An address is a number.
LEMMA AtNat == ASSUME NEW n \in Nat, NEW i \in Axes(n), NEW s \in Axes(n) PROVE V!At(i, s) \in Nat
<1>1. Len(i) = n /\ \A k \in 1 .. n : i[k] \in Nat /\ s[k] \in Nat
  BY AxesLen
<1>2. PICK g : IsSum(g, i, s, n)
  BY <1>1, SumExists
<1> QED
  BY <1>1, <1>2, AtIs

\* An array shows itself.
LEMMA ArrayShows ==
  ASSUME NEW ds \in ArrayDims, NEW v, v = [data |-> 0, dims |-> ds, step |-> V!FromDims(ds)],
         NEW sh, sh = [i \in V!Box(ds) |-> i]
  PROVE  Len(ds) \in Nat \ {0} /\ Shown(ds, v, sh, Len(ds))
<1> DEFINE n == Len(ds)
<1>1. n \in Nat \ {0} /\ ds \in [1 .. n -> 0 .. Longest] /\ Longest \in Nat
  BY LibraryAssumption DEF V!ArrayAssumption
<1> HIDE DEF n
<1>2. ds \in Axes(n)
  BY <1>1 DEF Axes
<1>3. V!Box(ds) = Below(ds, n)
  BY <1>1, BoxIs
<1>4. PICK h : IsProduct(h, ds, n)
  BY <1>1, <1>2, ProductExists
<1>5. V!FromDims(ds) \in Axes(n)
  BY <1>1, <1>2, <1>4, FromDimsIs
<1>6. \A i \in Below(ds, n) : V!At(i, V!FromDims(ds)) \in Nat
  BY <1>1, <1>5, AtNat DEF Below
<1>7. v.data = 0 /\ v.dims = ds /\ v.step = V!FromDims(ds)
  OBVIOUS
<1>8. sh \in [Below(ds, n) -> Below(ds, n)] /\ \A i \in Below(ds, n) : sh[i] = i
  BY <1>3
<1> QED
  BY <1>1, <1>5, <1>6, <1>7, <1>8 DEF Shown, n

\* r has the first m elements of s.
IsPart(r, s, m, T) == r \in [1 .. m -> T] /\ \A k \in 1 .. m : r[k] = s[k]

\* A sequence without its last element
LEMMA Shorter ==
  ASSUME NEW m \in Nat, NEW T, NEW s \in [1 .. m + 1 -> T]
  PROVE  IsPart(SubSeq(s, 1, m), s, m, T)
<1> DEFINE r == SubSeq(s, 1, m)
<1>1. \A k \in 1 .. m : s[k] \in T
  OBVIOUS
<1>2. r \in Seq(T) /\ Len(r) = m /\ \A k \in 1 .. m : r[k] = s[1 + k - 1] /\ 1 + k - 1 = k
  BY <1>1
<1> HIDE DEF r
<1>3. IsPart(r, s, m, T)
  BY <1>2 DEF IsPart
<1> QED
  BY <1>3 DEF r

\* j is i and x, and its address is that of i and that of x.
IsLonger(j, i, x, s, t, n) ==
  /\ j \in Axes(n) /\ j[n] = x /\ \A k \in 1 .. n - 1 : j[k] = i[k]
  /\ V!At(j, s) = V!At(i, t) + x * s[n] /\ V!At(i, t) \in Nat

\* Append makes such an index.
LEMMA Longer ==
  ASSUME NEW n \in Nat, n # 0, NEW i \in Axes(n - 1), NEW x \in Nat,
         NEW s, \A k \in 1 .. n : s[k] \in Nat, NEW t, \A k \in 1 .. n - 1 : t[k] = s[k]
  PROVE  IsLonger(Append(i, x), i, x, s, t, n)
<1> DEFINE j == Append(i, x)
           m == n - 1
<1>1. m \in Nat /\ n = m + 1
  OBVIOUS
<1>2. i \in Seq(Nat) /\ Len(i) = m
  BY <1>1, AxesLen
<1>3. j \in Seq(Nat) /\ Len(j) = n /\ j[n] = x /\ \A k \in 1 .. m : j[k] = i[k]
  BY <1>1, <1>2
<1> HIDE DEF j
<1>4. j \in Axes(n)
  BY <1>3 DEF Axes
<1>5. \A k \in 1 .. n - 1 : i[k] = j[k] /\ t[k] = s[k]
  BY <1>3
<1>6. V!At(j, s) = V!At(i, t) + j[n] * s[n] /\ V!At(i, t) \in Nat
  BY <1>4, <1>5, AtGrows
<1>7. IsLonger(j, i, x, s, t, n)
  BY <1>3, <1>4, <1>6 DEF IsLonger
<1> QED
  BY <1>7 DEF j

\* The last axis goes.
LEMMA IndexShows ==
  ASSUME NEW ds, NEW v, NEW sh, NEW n \in Nat, n > 1, Shown(ds, v, sh, n), NEW x \in Nat, x < v.dims[n],
         NEW w, w = [data |-> v.data + x * v.step[n], dims |-> SubSeq(v.dims, 1, n - 1),
                     step |-> SubSeq(v.step, 1, n - 1)],
         NEW sh2, sh2 = [i \in V!Box(w.dims) |-> sh[Append(i, x)]]
  PROVE  Shown(ds, w, sh2, n - 1)
<1> DEFINE m == n - 1
           d == w.dims
           t == w.step
<1>1. m \in Nat /\ n = m + 1 /\ n \in 1 .. n /\ n \in Nat /\ n # 0 /\ \A k \in 1 .. m : k \in 1 .. n
  OBVIOUS
<1>2. v.data \in Nat /\ v.dims \in [1 .. n -> 0 .. Longest] /\ v.step \in Axes(n)
  BY DEF Shown
<1>3. w.data = v.data + x * v.step[n] /\ w.dims = SubSeq(v.dims, 1, m) /\ w.step = SubSeq(v.step, 1, m)
  OBVIOUS
<1>4. ASSUME NEW T, NEW s \in [1 .. n -> T] PROVE IsPart(SubSeq(s, 1, m), s, m, T)
  <2> HIDE DEF m
  <2>1. s \in [1 .. m + 1 -> T]
    BY <1>1
  <2> QED
    BY <1>1, <2>1, Shorter, Zenon
<1>5. d \in [1 .. m -> 0 .. Longest] /\ \A k \in 1 .. m : d[k] = v.dims[k]
  BY <1>2, <1>3, <1>4 DEF IsPart
<1>6. t \in Axes(m) /\ \A k \in 1 .. m : t[k] = v.step[k]
  BY <1>2, <1>3, <1>4 DEF Axes, IsPart
<1>7. V!Box(d) = Below(d, m)
  BY <1>1, <1>5, BoxIs
<1>8. \A k \in 1 .. n : v.step[k] \in Nat
  BY <1>1, <1>2, AxesLen
<1>9. x * v.step[n] \in Nat
  BY <1>1, <1>8, TimesNat
<1> HIDE DEF d, t, m
<1>10. ASSUME NEW i \in Below(d, m)
       PROVE  /\ Append(i, x) \in Below(v.dims, n)
              /\ w.data + V!At(i, t) = v.data + V!At(Append(i, x), v.step)
  <2> DEFINE j == Append(i, x)
  <2>1. i \in Axes(m) /\ \A k \in 1 .. m : i[k] < d[k]
    BY DEF Below
  <2>2. IsLonger(j, i, x, v.step, t, n)
    <3>1. i \in Axes(n - 1) /\ \A k \in 1 .. n - 1 : t[k] = v.step[k]
      BY <1>6, <2>1 DEF m
    <3> QED
      BY <1>1, <1>8, <3>1, Longer, Zenon
  <2> HIDE DEF j
  <2>3. j[n] = x /\ \A k \in 1 .. m : j[k] = i[k]
    BY <2>2 DEF IsLonger, m
  <2>4. j \in Axes(n)
    BY <2>2 DEF IsLonger
  <2>5. j \in Below(v.dims, n)
    <3>1. ASSUME NEW k \in 1 .. n PROVE j[k] < v.dims[k]
      <4>1. CASE k = n
        BY <2>3, <4>1
      <4>2. CASE k # n
        <5>1. k \in 1 .. m
          BY <1>1, <4>2
        <5> QED
          BY <1>5, <2>1, <2>3, <5>1
      <4> QED
        BY <4>1, <4>2
    <3> QED
      BY <2>4, <3>1 DEF Below
  <2>6. V!At(j, v.step) = V!At(i, t) + x * v.step[n] /\ V!At(i, t) \in Nat
    BY <2>2 DEF IsLonger
  <2> DEFINE a == V!At(i, t)
             b == V!At(j, v.step)
             p == x * v.step[n]
  <2>7. a \in Nat /\ p \in Nat /\ b = a + p /\ w.data = v.data + p
    BY <1>3, <1>9, <2>3, <2>6
  <2> HIDE DEF a, b, p
  <2>8. w.data + a = v.data + b
    BY <1>2, <2>7
  <2> QED
    BY <2>5, <2>8 DEF a, b, j
<1>11. w.data \in Nat
  BY <1>2, <1>3, <1>9
<1>12. sh2 = [i \in Below(d, m) |-> sh[Append(i, x)]]
  BY <1>7 DEF d
<1>13. sh2 \in [Below(d, m) -> Below(ds, Len(ds))]
  BY <1>10, <1>12 DEF Shown
<1>14. ASSUME NEW i \in Below(d, m) PROVE w.data + V!At(i, t) = V!At(sh2[i], V!FromDims(ds))
  <2>1. sh2[i] = sh[Append(i, x)]
    BY <1>12
  <2>2. v.data + V!At(Append(i, x), v.step) = V!At(sh[Append(i, x)], V!FromDims(ds))
    BY <1>10 DEF Shown
  <2> QED
    BY <1>10, <2>1, <2>2
<1>15. Shown(ds, w, sh2, m)
  BY <1>5, <1>6, <1>11, <1>13, <1>14 DEF Shown, d, t
<1> QED
  BY <1>15 DEF m

\* w starts at lo, and goes on along the axes of B by what i says.
IsWhole(w, lo, i, B, c, n) ==
  w \in Axes(n) /\ \A k \in 1 .. n : w[k] = lo[k] + (IF k \in B THEN i[c[k]] ELSE 0)

\* A product with a sum
LEMMA TimesSum ==
  ASSUME NEW a \in Nat, NEW b \in Nat, NEW s \in Nat
  PROVE  (a + b) * s = a * s + b * s
OBVIOUS

\* Its address is that of the start, and that of i along the steps that are kept.
LEMMA WholeAt ==
  ASSUME NEW n \in Nat, NEW B, NEW c, IsCount(c, B, n), NEW lo \in Axes(n), NEW s \in Axes(n),
         NEW i \in Axes(c[n]), NEW t \in Axes(c[n]), Keeps(t, s, B, c, n), NEW w, IsWhole(w, lo, i, B, c, n)
  PROVE  V!At(w, s) = V!At(lo, s) + V!At(i, t)
<1> DEFINE m == c[n]
<1>1. m \in Nat /\ n \in 0 .. n
  BY DEF IsCount
<1> HIDE DEF m
<1>2. i \in Axes(m) /\ t \in Axes(m)
  BY DEF m
<1>3. Len(i) = m /\ \A q \in 1 .. m : i[q] \in Nat /\ t[q] \in Nat
  BY <1>1, <1>2, AxesLen
<1>4. Len(lo) = n /\ \A k \in 1 .. n : lo[k] \in Nat /\ s[k] \in Nat
  BY AxesLen
<1>5. w \in Axes(n)
  BY DEF IsWhole
<1>6. Len(w) = n /\ \A k \in 1 .. n : w[k] \in Nat
  BY <1>5, AxesLen
<1>7. PICK gi : IsSum(gi, i, t, m)
  BY <1>1, <1>3, SumExists
<1>8. PICK g0 : IsSum(g0, lo, s, n)
  BY <1>4, SumExists
<1>9. PICK gw : IsSum(gw, w, s, n)
  BY <1>4, <1>6, SumExists
<1>10. V!At(w, s) = gw[n] /\ V!At(lo, s) = g0[n] /\ V!At(i, t) = gi[m]
  <2>1. V!At(w, s) = gw[n]
    BY <1>6, <1>9, AtIs
  <2>2. V!At(lo, s) = g0[n]
    BY <1>4, <1>8, AtIs
  <2>3. V!At(i, t) = gi[m]
    BY <1>1, <1>3, <1>7, AtIs
  <2> QED
    BY <2>1, <2>2, <2>3
<1>11. Tells(c, B, n)
  BY CountTells, Zenon
<1>12. \A k \in 0 .. n : c[k] \in 0 .. m
  <2>1. \A k \in 0 .. n : \A j \in 0 .. k : c[j] <= c[k]
    BY CountRises, Zenon
  <2>2. \A k \in 0 .. n : c[k] \in Nat /\ k \in 0 .. n
    BY DEF IsCount
  <2>3. \A k \in 0 .. n : c[k] <= m
    BY <1>1, <2>1 DEF m
  <2> QED
    BY <1>1, <2>2, <2>3
<1> DEFINE Q == {k \in 0 .. n : gw[k] = g0[k] + gi[c[k]]}
<1>13. 0 \in Q
  BY <1>7, <1>8, <1>9 DEF IsSum, IsCount
<1>14. ASSUME NEW k \in 1 .. n, k - 1 \in Q PROVE k \in Q
  <2> DEFINE p == k - 1
             a == lo[k]
             b == s[k]
  <2>1. k \in 0 .. n /\ p \in 0 .. n /\ p = k - 1
    OBVIOUS
  <2>2. gw[p] = g0[p] + gi[c[p]] /\ gw[p] \in Nat /\ g0[p] \in Nat /\ gi[c[p]] \in Nat
    BY <1>7, <1>8, <1>9, <1>12, <1>14, <2>1 DEF IsSum
  <2>3. gw[k] = gw[p] + w[k] * b /\ g0[k] = g0[p] + a * b
    BY <1>8, <1>9 DEF IsSum
  <2>4. a \in Nat /\ b \in Nat
    BY <1>4
  <2>5. CASE k \in B
    <3> DEFINE q == c[k]
               e == i[q]
    <3>1. q \in 1 .. m /\ q - 1 = c[p]
      <4>1. q \in 1 .. m
        BY <1>11, <2>5 DEF Tells, m
      <4>2. q = c[p] + 1 /\ c[p] \in Nat
        BY <2>1, <2>5 DEF IsCount
      <4> QED
        BY <4>1, <4>2
    <3>2. e \in Nat /\ w[k] = a + e /\ t[q] = b
      BY <1>3, <2>5, <3>1 DEF IsWhole, Keeps
    <3>3. gi[q] = gi[c[p]] + e * b
      <4>1. gi[q] = gi[q - 1] + i[q] * t[q]
        BY <1>7, <3>1 DEF IsSum
      <4> QED
        BY <3>1, <3>2, <4>1
    <3>4. w[k] * b = a * b + e * b /\ a * b \in Nat /\ e * b \in Nat
      <4> HIDE DEF a, b, e
      <4>1. (a + e) * b = a * b + e * b
        BY <2>4, <3>2, TimesSum
      <4>2. a * b \in Nat /\ e * b \in Nat
        BY <2>4, <3>2, TimesNat
      <4> QED
        BY <3>2, <4>1, <4>2
    <3> DEFINE x == a * b
               y == e * b
    <3>5. x \in Nat /\ y \in Nat /\ gw[k] = gw[p] + (x + y) /\ g0[k] = g0[p] + x /\ gi[c[k]] = gi[c[p]] + y
      BY <2>3, <3>3, <3>4
    <3> HIDE DEF x, y
    <3>6. gw[k] = g0[k] + gi[c[k]]
      BY <2>2, <3>5
    <3> QED
      BY <2>1, <3>6
  <2>6. CASE k \notin B
    <3>1. c[k] = c[p]
      BY <2>1, <2>6 DEF IsCount
    <3>2. w[k] = a
      BY <2>4, <2>6 DEF IsWhole
    <3>3. a * b \in Nat
      BY <2>4, TimesNat
    <3> DEFINE x == a * b
    <3>4. x \in Nat /\ gw[k] = gw[p] + x /\ g0[k] = g0[p] + x
      BY <2>3, <3>2, <3>3
    <3> HIDE DEF x
    <3>5. gw[k] = g0[k] + gi[c[k]]
      BY <2>2, <3>1, <3>4
    <3> QED
      BY <2>1, <3>5
  <2> QED
    BY <2>5, <2>6
<1>15. 0 .. n \subseteq Q
  <2> HIDE DEF Q
  <2> QED
    BY <1>13, <1>14, Onward, Zenon
<1>16. gw[n] = g0[n] + gi[m]
  BY <1>1, <1>15 DEF m
<1> QED
  BY <1>10, <1>16

\* A span from a to b of an axis of length d: how many of its indexes are in it,
\* and that one of these is an index of the axis.
Cuts(a, b, d) ==
  LET lo == V!Least(a, d)
      hi == V!Least(b, d)
      length == IF hi > lo THEN hi - lo ELSE 0
  IN /\ lo \in Nat /\ length \in 0 .. d
     /\ Cardinality({x \in 0 .. d - 1 : a <= x /\ x < b}) = length
     /\ a < d => lo = a
     /\ \A x \in Nat : x < length => lo = a /\ a + x < d

\* A span cuts an axis.
LEMMA LengthCut == ASSUME NEW a \in Nat, NEW b \in Nat, NEW d \in Nat PROVE Cuts(a, b, d)
<1> DEFINE lo == V!Least(a, d)
           hi == V!Least(b, d)
           length == IF hi > lo THEN hi - lo ELSE 0
           A == {x \in 0 .. d - 1 : a <= x /\ x < b}
<1>1. /\ lo \in Nat /\ hi \in Nat /\ lo <= a /\ lo <= d /\ hi <= b /\ hi <= d
      /\ (lo = a \/ lo = d) /\ (hi = b \/ hi = d) /\ (a < d => lo = a)
  BY DEF V!Least
<1> HIDE DEF lo, hi
<1>2. A = a .. hi - 1
  <2>1. \A x \in Nat : x \in A <=> x \in a .. hi - 1
    BY <1>1
  <2>2. \A x \in A : x \in Nat
    OBVIOUS
  <2>3. \A x \in a .. hi - 1 : x \in Nat
    BY <1>1
  <2> HIDE DEF A
  <2> QED
    BY <2>1, <2>2, <2>3
<1>3. Cardinality(a .. hi - 1) = IF a > hi - 1 THEN 0 ELSE (hi - 1) - a + 1
  <2> DEFINE z == hi - 1
  <2>1. z \in Int
    BY <1>1
  <2> HIDE DEF z
  <2>2. Cardinality(a .. z) = IF a > z THEN 0 ELSE z - a + 1
    BY <2>1, FS_Interval
  <2> QED
    BY <2>2 DEF z
<1>4. Cardinality(A) = length
  <2>1. Cardinality(A) = IF a > hi - 1 THEN 0 ELSE (hi - 1) - a + 1
    BY <1>2, <1>3
  <2> HIDE DEF A
  <2> QED
    BY <1>1, <2>1
<1>5. length \in 0 .. d /\ \A x \in Nat : x < length => lo = a /\ a + x < d
  BY <1>1
<1> QED
  BY <1>1, <1>4, <1>5 DEF Cuts, lo, hi

\* A span has one end or two, and they are numbers.
LEMMA SpanIs ==
  ASSUME NEW x \in V!Span
  PROVE  Len(x) \in {1, 2} /\ x[1] \in Nat /\ x[Len(x)] \in Nat
<1>1. Ends \subseteq Nat
  BY LibraryAssumption DEF V!ArrayAssumption
<1>2. CASE x \in {<<a>> : a \in Ends}
  <2>1. PICK a \in Ends : x = <<a>>
    BY <1>2
  <2> QED
    BY <1>1, <2>1
<1>3. CASE x \in {<<a, b>> : a, b \in Ends}
  <2>1. PICK a \in Ends, b \in Ends : x = <<a, b>>
    BY <1>3
  <2> QED
    BY <1>1, <2>1
<1> QED
  BY <1>2, <1>3 DEF V!Span

\* How many indexes of each axis are in its span
Lengths(v, spans) ==
  [k \in DOMAIN spans |->
    V!Cardinality({x \in 0 .. v.dims[k] - 1 : spans[k][1] <= x /\ x < spans[k][Len(spans[k])]})]

\* The index of a view that an index of its slice is
Whole(spans, i) ==
  [k \in DOMAIN spans |->
    IF k \in {j \in DOMAIN spans : Len(spans[j]) = 2}
      THEN spans[k][1] + i[V!Cardinality({j \in {j \in DOMAIN spans : Len(spans[j]) = 2} : j <= k})]
      ELSE spans[k][1]]

\* Where the spans start
Starts(v, spans) == V!Clamped([k \in DOMAIN spans |-> spans[k][1]], v.dims)

\* and how long they are
Sizes(v, spans) ==
  V!Minus(V!Clamped([k \in DOMAIN spans |-> spans[k][Len(spans[k])]], v.dims), Starts(v, spans))

\* What slice makes of a view
LEMMA SlicedIs ==
  ASSUME NEW v, NEW spans
  PROVE  V!Sliced(v, spans)
           = [data |-> v.data + V!At(Starts(v, spans), v.step), dims |-> V!Kept(Sizes(v, spans), spans),
              step |-> V!Kept(v.step, spans)]
BY Zenon DEF V!Sliced, Starts, Sizes

\* An axis of it
IsCut(v, spans, k) ==
  LET lo == Starts(v, spans)[k]
      length == Sizes(v, spans)[k]
  IN /\ lo \in Nat /\ length \in 0 .. v.dims[k] /\ Lengths(v, spans)[k] = length
     /\ spans[k][1] < v.dims[k] => lo = spans[k][1]
     /\ \A x \in Nat : x < length => lo = spans[k][1] /\ spans[k][1] + x < v.dims[k]

\* Each axis is cut so.
LEMMA AxisCut ==
  ASSUME NEW n \in Nat, NEW v, v.dims \in [1 .. n -> 0 .. Longest], NEW spans, DOMAIN spans = 1 .. n,
         NEW k \in 1 .. n, spans[k] \in V!Span
  PROVE  IsCut(v, spans, k)
<1> DEFINE a == spans[k][1]
           b == spans[k][Len(spans[k])]
           d == v.dims[k]
<1>1. a \in Nat /\ b \in Nat
  BY SpanIs
<1>2. d \in Nat
  BY LibraryAssumption DEF V!ArrayAssumption
<1> HIDE DEF a, b, d
<1>3. Cuts(a, b, d)
  BY <1>1, <1>2, LengthCut
<1>4. Starts(v, spans)[k] = V!Least(a, d)
  BY DEF Starts, V!Clamped, a, d
<1>5. Sizes(v, spans)[k] = IF V!Least(b, d) > V!Least(a, d) THEN V!Least(b, d) - V!Least(a, d) ELSE 0
  BY <1>4 DEF Sizes, V!Minus, V!Clamped, b, d
<1>6. Lengths(v, spans)[k] = Cardinality({x \in 0 .. d - 1 : a <= x /\ x < b})
  BY ViewCardinality DEF Lengths, a, b, d
<1>7. /\ Starts(v, spans)[k] \in Nat /\ Sizes(v, spans)[k] \in 0 .. d /\ Lengths(v, spans)[k] = Sizes(v, spans)[k]
      /\ a < d => Starts(v, spans)[k] = a
      /\ \A x \in Nat : x < Sizes(v, spans)[k] => Starts(v, spans)[k] = a /\ a + x < d
  BY <1>3, <1>4, <1>5, <1>6, Zenon DEF Cuts
<1> QED
  BY <1>7, Zenon DEF IsCut, a, d

\* What keeps the entries of a sequence of a set is one.
LEMMA KeptTyped ==
  ASSUME NEW n \in Nat, NEW B, NEW c, IsCount(c, B, n), NEW T, NEW s, \A k \in B : s[k] \in T,
         NEW r, Keeps(r, s, B, c, n)
  PROVE  r \in [1 .. c[n] -> T]
<1>1. \A q \in 1 .. c[n] : \E k \in B : c[k] = q
  <2>1. Reaches(c, B, n)
    BY CountReaches, Zenon
  <2> QED
    BY <2>1 DEF Reaches
<1>2. \A q \in 1 .. c[n] : r[q] \in T
  BY <1>1 DEF Keeps
<1> QED
  BY <1>2 DEF Keeps

\* A slice shows what its spans leave.
LEMMA SlicedShows ==
  ASSUME NEW ds, NEW v, NEW sh, NEW n \in Nat, Shown(ds, v, sh, n), NEW spans, DOMAIN spans = 1 .. n,
         \A k \in 1 .. n : spans[k] \in V!Span,
         \E k \in 1 .. n : Len(spans[k]) = 2,
         \A k \in 1 .. n : Len(spans[k]) = 1 => spans[k][1] < v.dims[k],
         NEW w, w = V!Sliced(v, spans),
         NEW sh2, sh2 = [i \in V!Box(V!Kept(Lengths(v, spans), spans)) |-> sh[Whole(spans, i)]]
  PROVE  \E m \in Nat \ {0} : Shown(ds, w, sh2, m)
<1> DEFINE B == Spanned(spans, n)
           c == [k \in 0 .. n |-> Cardinality({j \in B : j <= k})]
           m == c[n]
           lo == Starts(v, spans)
           size == Sizes(v, spans)
           d == V!Kept(size, spans)
           t == V!Kept(v.step, spans)
<1>1. v.data \in Nat /\ v.dims \in [1 .. n -> 0 .. Longest] /\ v.step \in Axes(n)
  BY DEF Shown
<1>2. B \subseteq 1 .. n
  BY DEF Spanned
<1>3. IsCount(c, B, n) /\ c[n] = Cardinality(B)
  <2> HIDE DEF B
  <2> QED
    BY <1>2, CountIs
<1>4. \A k \in 1 .. n : IsCut(v, spans, k)
  BY <1>1, AxisCut, Zenon
<1>5. DOMAIN lo = 1 .. n /\ DOMAIN size = 1 .. n /\ DOMAIN Lengths(v, spans) = 1 .. n /\ DOMAIN v.step = 1 .. n
  BY <1>1 DEF Starts, Sizes, V!Clamped, V!Minus, Lengths, Axes
<1>6. Lengths(v, spans) = size
  <2>1. \A k \in 1 .. n : Lengths(v, spans)[k] = size[k]
    BY <1>4, Zenon DEF IsCut
  <2>2. /\ Lengths(v, spans) = [k \in 1 .. n |-> Lengths(v, spans)[k]]
        /\ size = [k \in 1 .. n |-> size[k]]
    BY <1>5 DEF Lengths, Sizes, V!Minus
  <2> QED
    BY <2>1, <2>2
<1>7. lo \in Axes(n)
  <2>1. \A k \in 1 .. n : lo[k] \in Nat
    BY <1>4, Zenon DEF IsCut
  <2>2. lo = [k \in 1 .. n |-> lo[k]]
    BY <1>5 DEF Starts, V!Clamped
  <2> QED
    BY <2>1, <2>2 DEF Axes
<1>8. Keeps(d, size, B, c, n) /\ Keeps(t, v.step, B, c, n)
  <2> HIDE DEF lo, size
  <2> QED
    BY <1>5, KeptIs
<1>9. Tells(c, B, n)
  <2> HIDE DEF B, c
  <2> QED
    BY <1>3, CountTells, Zenon
<1>10. m \in Nat \ {0}
  <2>1. PICK k \in 1 .. n : k \in B
    BY DEF Spanned
  <2> HIDE DEF B, c
  <2>2. c[k] \in 1 .. c[n] /\ c[n] \in Nat
    BY <1>3, <1>9, <2>1 DEF Tells, IsCount
  <2> QED
    BY <2>2
<1> HIDE DEF c, lo, size, d, t
<1>11. d \in [1 .. m -> 0 .. Longest]
  <2>1. \A k \in B : size[k] \in 0 .. Longest
    <3> SUFFICES ASSUME NEW k \in B PROVE size[k] \in 0 .. Longest
      OBVIOUS
    <3>1. k \in 1 .. n /\ v.dims[k] \in 0 .. Longest /\ Longest \in Nat
      BY <1>1, <1>2, LibraryAssumption DEF V!ArrayAssumption
    <3>2. size[k] \in 0 .. v.dims[k]
      BY <1>4, <3>1, Zenon DEF IsCut, size
    <3> QED
      BY <3>1, <3>2
  <2> HIDE DEF B
  <2> QED
    BY <1>3, <1>8, <2>1, KeptTyped
<1>12. t \in Axes(m)
  <2>1. \A k \in B : v.step[k] \in Nat
    BY <1>1, <1>2, AxesLen
  <2>2. t \in [1 .. m -> Nat]
    <3> HIDE DEF B
    <3> QED
      BY <1>3, <1>8, <2>1, KeptTyped
  <2> QED
    BY <2>2 DEF Axes
<1>13. w = [data |-> v.data + V!At(lo, v.step), dims |-> d, step |-> t]
  BY SlicedIs DEF lo, size, d, t
<1>14. V!At(lo, v.step) \in Nat
  BY <1>1, <1>7, AtNat
<1>15. w.data = v.data + V!At(lo, v.step) /\ w.data \in Nat /\ w.dims = d /\ w.step = t
  BY <1>1, <1>13, <1>14
<1>16. V!Box(V!Kept(Lengths(v, spans), spans)) = Below(d, m)
  <2>1. V!Kept(Lengths(v, spans), spans) = d
    BY <1>6 DEF d
  <2> QED
    BY <1>10, <1>11, <2>1, BoxIs
<1>17. ASSUME NEW i \in Below(d, m)
       PROVE  /\ Whole(spans, i) \in Below(v.dims, n)
              /\ w.data + V!At(i, t) = v.data + V!At(Whole(spans, i), v.step)
  <2> DEFINE u == Whole(spans, i)
  <2>1. i \in Axes(m) /\ (\A q \in 1 .. m : i[q] < d[q] /\ i[q] \in Nat)
    BY <1>10, AxesLen DEF Below
  <2>2. {j \in DOMAIN spans : Len(spans[j]) = 2} = B
    BY DEF Spanned
  <2>3. u = [k \in 1 .. n |-> IF k \in B THEN spans[k][1] + i[Cardinality({j \in B : j <= k})] ELSE spans[k][1]]
    BY <2>2, ViewCardinality DEF Whole
  <2>4. ASSUME NEW k \in 1 .. n PROVE u[k] = IF k \in B THEN spans[k][1] + i[c[k]] ELSE spans[k][1]
    <3>1. k \in 0 .. n
      OBVIOUS
    <3>2. c[k] = Cardinality({j \in B : j <= k})
      BY <3>1 DEF c
    <3> QED
      BY <2>3, <3>2
  <2>5. DOMAIN u = 1 .. n /\ u = [k \in 1 .. n |-> u[k]]
    BY <2>3
  <2> HIDE DEF u
  <2>6. ASSUME NEW k \in 1 .. n
        PROVE u[k] \in Nat /\ u[k] < v.dims[k] /\ u[k] = lo[k] + (IF k \in B THEN i[c[k]] ELSE 0)
    <3>1. spans[k][1] \in Nat /\ Len(spans[k]) \in {1, 2}
      BY SpanIs
    <3>2. /\ spans[k][1] < v.dims[k] => lo[k] = spans[k][1]
          /\ \A x \in Nat : x < size[k] => lo[k] = spans[k][1] /\ spans[k][1] + x < v.dims[k]
      BY <1>4, Zenon DEF IsCut, lo, size
    <3>3. CASE k \in B
      <4>1. c[k] \in 1 .. m /\ d[c[k]] = size[k]
        BY <1>8, <1>9, <3>3 DEF Keeps, Tells
      <4>2. i[c[k]] \in Nat /\ i[c[k]] < size[k]
        BY <2>1, <4>1
      <4>3. lo[k] = spans[k][1] /\ spans[k][1] + i[c[k]] < v.dims[k]
        BY <3>2, <4>2
      <4>4. u[k] = spans[k][1] + i[c[k]]
        BY <2>4, <3>3
      <4> QED
        BY <3>1, <3>3, <4>2, <4>3, <4>4
    <3>4. CASE k \notin B
      <4>1. Len(spans[k]) = 1
        BY <3>1, <3>4 DEF Spanned
      <4>2. spans[k][1] < v.dims[k]
        BY <4>1
      <4>3. u[k] = spans[k][1] /\ lo[k] = spans[k][1]
        BY <2>4, <3>2, <3>4, <4>2
      <4> QED
        BY <3>1, <3>4, <4>2, <4>3
    <3> QED
      BY <3>3, <3>4
  <2>7. u \in Axes(n)
    BY <2>5, <2>6 DEF Axes
  <2>8. u \in Below(v.dims, n)
    BY <2>6, <2>7 DEF Below
  <2>9. IsWhole(u, lo, i, B, c, n)
    <3> HIDE DEF B
    <3> QED
      BY <2>6, <2>7 DEF IsWhole
  <2>10. V!At(u, v.step) = V!At(lo, v.step) + V!At(i, t)
    <3> HIDE DEF B
    <3> QED
      BY <1>1, <1>3, <1>7, <1>8, <1>12, <2>1, <2>9, WholeAt
  <2>11. V!At(i, t) \in Nat
    BY <1>10, <1>12, <2>1, AtNat
  <2>12. w.data + V!At(i, t) = v.data + V!At(u, v.step)
    <3> DEFINE x == V!At(lo, v.step)
               y == V!At(i, t)
               z == V!At(u, v.step)
    <3>1. x \in Nat /\ y \in Nat /\ z = x + y /\ w.data = v.data + x
      BY <1>14, <1>15, <2>10, <2>11
    <3> HIDE DEF x, y, z
    <3>2. w.data + y = v.data + z
      BY <1>1, <3>1
    <3> QED
      BY <3>2 DEF y, z
  <2> QED
    BY <2>8, <2>12 DEF u
<1>18. sh2 = [i \in Below(d, m) |-> sh[Whole(spans, i)]]
  BY <1>16
<1>19. sh2 \in [Below(d, m) -> Below(ds, Len(ds))]
  BY <1>17, <1>18 DEF Shown
<1>20. ASSUME NEW i \in Below(d, m) PROVE w.data + V!At(i, t) = V!At(sh2[i], V!FromDims(ds))
  <2>1. sh2[i] = sh[Whole(spans, i)]
    BY <1>18
  <2>2. v.data + V!At(Whole(spans, i), v.step) = V!At(sh[Whole(spans, i)], V!FromDims(ds))
    BY <1>17 DEF Shown
  <2> QED
    BY <1>17, <2>1, <2>2
<1>21. Shown(ds, w, sh2, m)
  BY <1>11, <1>12, <1>15, <1>19, <1>20 DEF Shown
<1> QED
  BY <1>10, <1>21

\* A view of the array, of some rank, shows cells of it.
ViewInv == dims \in ArrayDims /\ \E n \in Nat \ {0} : Shown(dims, view, shows, n)

\* with_dims
LEMMA ViewStarts == ASSUME V!Init PROVE ViewInv
<1>1. /\ dims \in ArrayDims /\ view = [data |-> 0, dims |-> dims, step |-> V!FromDims(dims)]
      /\ shows = [i \in V!Box(dims) |-> i]
  BY DEF V!Init
<1> QED
  BY <1>1, ArrayShows DEF ViewInv

\* An index of the last axis, or a span of each axis
LEMMA ViewNext == ASSUME ViewInv, V!Next PROVE ViewInv'
<1>1. PICK n \in Nat \ {0} : Shown(dims, view, shows, n)
  BY DEF ViewInv
<1>2. view.dims \in [1 .. n -> 0 .. Longest] /\ Len(view.dims) = n /\ DOMAIN view.dims = 1 .. n
  BY <1>1 DEF Shown
<1>3. ASSUME NEW x \in Ends, V!Index(x) PROVE ViewInv'
  <2>1. x \in Nat
    BY LibraryAssumption DEF V!ArrayAssumption
  <2>2. /\ n > 1 /\ x < view.dims[n] /\ dims' = dims
        /\ view' = [data |-> view.data + x * view.step[n], dims |-> SubSeq(view.dims, 1, n - 1),
                    step |-> SubSeq(view.step, 1, n - 1)]
        /\ shows' = [i \in V!Box(view'.dims) |-> shows[Append(i, x)]]
    BY <1>2, <1>3 DEF V!Index
  <2>3. Shown(dims, view', shows', n - 1)
    BY <1>1, <2>1, <2>2, IndexShows
  <2>4. n - 1 \in Nat \ {0}
    BY <2>2
  <2> QED
    BY <2>2, <2>3, <2>4 DEF ViewInv
<1>4. ASSUME NEW spans \in [DOMAIN view.dims -> V!Span], V!SliceBy(spans) PROVE ViewInv'
  <2>1. DOMAIN spans = 1 .. n /\ \A k \in 1 .. n : spans[k] \in V!Span
    BY <1>2
  <2>2. /\ \E k \in 1 .. n : Len(spans[k]) = 2
        /\ \A k \in 1 .. n : Len(spans[k]) = 1 => spans[k][1] < view.dims[k]
        /\ view' = V!Sliced(view, spans) /\ dims' = dims
    BY <1>4, <2>1 DEF V!SliceBy
  <2>3. shows' = [i \in V!Box(V!Kept(Lengths(view, spans), spans)) |-> shows[Whole(spans, i)]]
    BY <1>4, Zenon DEF V!SliceBy, Lengths, Whole
  <2>4. \E m \in Nat \ {0} : Shown(dims, view', shows', m)
    BY <1>1, <2>1, <2>2, <2>3, SlicedShows
  <2> QED
    BY <2>2, <2>4 DEF ViewInv
<1> QED
  BY <1>3, <1>4 DEF V!Next, V!Slice

\* What is known of a view is not about anything else.
LEMMA ViewStays == ASSUME ViewInv, UNCHANGED arrayVars PROVE ViewInv'
BY DEF arrayVars, ViewInv

\* It is what a view should show.
LEMMA ViewShown == ASSUME ViewInv PROVE V!ViewsShow
<1>1. PICK n \in Nat \ {0} : Shown(dims, view, shows, n)
  BY DEF ViewInv
<1> DEFINE N == Len(dims)
           d == view.dims
           t == view.step
           C == Below(d, n)
           home == {V!Home(shows[i]) : i \in DOMAIN shows}
<1>2. N \in Nat \ {0} /\ dims \in [1 .. N -> 0 .. Longest] /\ Longest \in Nat
  BY LibraryAssumption DEF ViewInv, V!ArrayAssumption
<1> HIDE DEF N
<1>3. dims \in Axes(N) /\ DOMAIN dims = 1 .. N
  BY <1>2 DEF Axes
<1>4. view.data \in Nat /\ d \in [1 .. n -> 0 .. Longest] /\ t \in Axes(n)
  BY <1>1 DEF Shown
<1>5. d \in Axes(n) /\ Len(d) = n
  BY <1>2, <1>4 DEF Axes
<1>6. DOMAIN shows = C /\ V!Box(d) = C
  BY <1>1, <1>4, BoxIs DEF Shown
<1>7. ASSUME NEW i \in C
      PROVE  /\ view.data + V!At(i, t) = V!Home(shows[i])
             /\ \A k \in 1 .. N : shows[i][k] < dims[k]
  <2>1. shows[i] \in Below(dims, N) /\ view.data + V!At(i, t) = V!At(shows[i], V!FromDims(dims))
    BY <1>1 DEF Shown, N
  <2>2. shows[i] \in Axes(N)
    BY <2>1 DEF Below
  <2> DEFINE x == shows[i]
  <2> HIDE DEF x
  <2>3. V!Home(x) = V!At(x, V!FromDims(dims))
    BY <1>2, <1>3, <2>2, HomeIsAt DEF x
  <2> QED
    BY <2>1, <2>3 DEF Below, x
<1>8. V!Assigned(view) = {view.data + x : x \in Ats(d, t, n)}
  BY <1>4, <1>5, AssignedIs
<1> HIDE DEF d, t, C
<1>9. home = {view.data + x : x \in Ats(d, t, n)}
  <2>1. ASSUME NEW z \in home PROVE z \in {view.data + x : x \in Ats(d, t, n)}
    <3>1. PICK i \in C : z = V!Home(shows[i])
      BY <1>6
    <3>2. V!At(i, t) \in Ats(d, t, n)
      BY DEF Ats, C
    <3> QED
      BY <1>7, <3>1, <3>2
  <2>2. ASSUME NEW x \in Ats(d, t, n) PROVE view.data + x \in home
    <3>1. PICK i \in C : x = V!At(i, t)
      BY DEF Ats, C
    <3> QED
      BY <1>6, <1>7, <3>1
  <2> HIDE DEF home
  <2> QED
    BY <2>1, <2>2
<1>10. ASSUME V!IsArray(view)
       PROVE  home = view.data .. view.data + V!Product(d, Len(d)) - 1
  <2>1. t = V!FromDims(d)
    BY <1>10 DEF V!IsArray, d, t
  <2>2. PICK h : IsProduct(h, d, n)
    BY <1>5, ProductExists
  <2>3. Ats(d, t, n) = 0 .. h[n] - 1
    BY <1>5, <2>1, <2>2, ArrayIsDense
  <2>4. V!Product(d, n) = h[n] /\ h[n] \in Nat
    <3>1. n \in 0 .. n
      OBVIOUS
    <3>2. V!Product(d, n) = h[n]
      BY <2>2, <3>1, ProductIs
    <3> QED
      BY <2>2, <3>1, <3>2 DEF IsProduct
  <2> DEFINE a == view.data
             b == h[n]
  <2>5. a \in Nat /\ b \in Nat
    BY <1>4, <2>4
  <2> HIDE DEF a, b
  <2>6. {a + x : x \in 0 .. b - 1} = a .. a + b - 1
    <3>1. \A z \in a .. a + b - 1 : z - a \in 0 .. b - 1 /\ z = a + (z - a)
      BY <2>5
    <3>2. \A x \in 0 .. b - 1 : a + x \in a .. a + b - 1
      BY <2>5
    <3> QED
      BY <3>1, <3>2
  <2> HIDE DEF home
  <2> QED
    BY <1>5, <1>9, <2>3, <2>4, <2>6 DEF a, b
<1> HIDE DEF home
<1>11. DOMAIN shows = V!Box(d)
  BY <1>6
<1>12. \A i \in DOMAIN shows :
         view.data + V!At(i, t) = V!Home(shows[i]) /\ \A k \in DOMAIN dims : shows[i][k] < dims[k]
  BY <1>3, <1>6, <1>7
<1>13. V!Assigned(view) = home
  BY <1>8, <1>9
<1> QED
  BY <1>10, <1>11, <1>12, <1>13, Zenon DEF V!ViewsShow, home, d, t

-----------------------------------------------------------------------------
\* What the steps preserve of all objects
LibraryInv == OptionInv /\ FilesInv /\ path \in Paths /\ ViewInv

\* A step of one kind of object leaves the others alone.
LEMMA LibraryPreserved == LibrarySpec => []LibraryInv
<1>1. LibraryInit => LibraryInv
  <2>1. P!Init => path \in Paths
    BY DEF P!Init, Paths
  <2> QED
    BY <2>1, InitOption, InitFiles, ViewStarts DEF LibraryInit, LibraryInv
<1>2. LibraryInv /\ [LibraryNext]_<<fileVars, optionVars, path, arrayVars>> => LibraryInv'
  <2> SUFFICES ASSUME LibraryInv, [LibraryNext]_<<fileVars, optionVars, path, arrayVars>>
               PROVE LibraryInv'
    OBVIOUS
  <2>1. CASE D!Next /\ UNCHANGED <<optionVars, path, arrayVars>>
    BY <2>1, NextFiles, OptionStays, ViewStays DEF LibraryInv
  <2>2. CASE O!Next /\ UNCHANGED <<fileVars, path, arrayVars>>
    BY <2>2, NextOption, FilesStay, ViewStays DEF LibraryInv
  <2>3. CASE P!Next /\ UNCHANGED <<fileVars, optionVars, arrayVars>>
    BY <2>3, PathKept, OptionStays, FilesStay, ViewStays DEF LibraryInv
  <2>4. CASE V!Next /\ UNCHANGED <<fileVars, optionVars, path>>
    BY <2>4, ViewNext, OptionStays, FilesStay DEF LibraryInv
  <2>5. CASE UNCHANGED <<fileVars, optionVars, path, arrayVars>>
    BY <2>5, OptionStays, FilesStay, ViewStays DEF LibraryInv
  <2> QED
    BY <2>1, <2>2, <2>3, <2>4, <2>5 DEF LibraryNext
<1> QED
  BY <1>1, <1>2, PTL DEF LibrarySpec

\* Descriptors and the values in Options and Results have the owners they
\* should, whatever a program opens, moves, chains and drops: none is closed or
\* destroyed twice, and none is forgotten (~File, fs/imp/unix.cc:21; core/option.h, core/result.h).
THEOREM LibraryOwnedOnce == LibrarySpec => []OwnedOnce
<1>1. LibraryInv => OwnedOnce
  BY DescriptorsAreOwned, OptionOwned DEF LibraryInv, OwnedOnce
<1> QED
  BY <1>1, LibraryPreserved, PTL

\* A view of a view of an array, however it was indexed and sliced, has each
\* element at the address of the cell it means, inside the array; an assignment
\* writes to those addresses and to no other; and is_array is true of a view
\* only if its elements lie side by side (math/ndslice.h, ndarray.h).
THEOREM LibraryViewsShow == LibrarySpec => []ViewsShow
<1>1. LibraryInv => ViewsShow
  BY ViewShown DEF LibraryInv, ViewsShow
<1> QED
  BY <1>1, LibraryPreserved, PTL

\* Whatever is pushed, popped and set, a path is the stack of its names, and
\* falls into its parts (fs/path.h, path.cc); opening a file gives the mode that
\* was asked for, and loses content only to truncate, appending keeps all that
\* was there (OpenOptions::open, fs/imp/unix.cc:83); and read_exact and
\* read_to_end give what stands in the file, however few bytes each read gave
\* (io/mod-inl.h).
THEOREM LibraryFilesAndNames == LibrarySpec => FilesAndNames
<1> DEFINE Kept ==
      /\ \A h \in Handle, o \in D!Options : fid[h] = D!NoFile /\ fid'[h] # D!NoFile /\ D!Open(h, o) =>
           LET mode == table'[fid'[h]].mode IN
           /\ (o.read => mode.read) /\ (o.write \/ o.append => mode.write)
           /\ mode.write => o.write \/ mode.append
           /\ file # D!Absent => /\ ~o.create_new
                                 /\ file' = file \/ o.truncate
      /\ \A h \in Handle : file' # file /\ D!Usable(h) /\ table[fid[h]].mode.append /\ (\E b \in Bytes : D!Write(h, b)) =>
           SubSeq(file', 1, Len(file)) = file
           Stacked ==
      /\ \A s \in PathParts : P!Push(s) => P!NamesOf(path') = P!NamesOf(path) \o P!NamesOf(s)
      /\ P!Pop => P!NamesOf(path') = P!Below(path)
      /\ \A s \in PathNames : P!SetFileName(s) => P!NamesOf(path') = P!Below(path) \o P!NamesOf(s)
      /\ \A s \in PathExts : P!SetExtension(s) =>
           P!NamesOf(path') = P!Below(path) \o P!NamesOf(P!FileStem(path) \o s)
      /\ P!PartsFit'
<1>1. LibraryInv => Kept
  BY OpenShows, AppendShows DEF LibraryInv
<1>2. LibraryInv /\ [LibraryNext]_<<fileVars, optionVars, path, arrayVars>> => [Kept]_<<file, table, fid, call>>
  BY <1>1
<1>3. LibraryInv /\ [LibraryNext]_<<fileVars, optionVars, path, arrayVars>> => [Stacked]_path
  <2>1. ASSUME LibraryInv, [LibraryNext]_<<fileVars, optionVars, path, arrayVars>> PROVE [P!Next]_path
    BY <2>1 DEF LibraryNext
  <2> QED
    BY <2>1, PathSteps DEF LibraryInv
<1>4. LibraryInv => D!ReadsWhole
  BY ReadsAreWhole DEF LibraryInv
<1> HIDE DEF Kept, Stacked
<1>5. LibrarySpec => [][Kept]_<<file, table, fid, call>>
  BY <1>2, LibraryPreserved, PTL DEF LibrarySpec
<1>6. LibrarySpec => [][Stacked]_path
  BY <1>3, LibraryPreserved, PTL DEF LibrarySpec
<1>7. LibrarySpec => []D!ReadsWhole
  BY <1>4, LibraryPreserved, PTL
<1>8. LibrarySpec => D!ContentKept
  BY <1>5 DEF Kept, D!ContentKept, D!fileVars
<1>9. LibrarySpec => P!NamesStacked
  BY <1>6 DEF Stacked, P!NamesStacked
<1> QED
  BY <1>7, <1>8, <1>9, PTL DEF FilesAndNames

(***************************************************************************)
(* Texts that are searched                                                 *)
(***************************************************************************)

\* What there is to a pattern that Search is asked
LEMMA SearchIs ==
  ASSUME NEW x \in Searches
  PROVE  /\ x.text \in Seq(STRING)
         /\ x.pattern.kind = "char" \/ (x.pattern.kind = "str" /\ x.pattern.text \in Seq(STRING))
BY QueriesAssumption DEF SearchesAssumption, Text

\* A text is found where it stands.
LEMMA TextMatches ==
  ASSUME NEW T, NEW s \in Seq(T), NEW p, p.kind = "str", p.text \in Seq(T)
  PROVE  Hits(p, s) = Matches(s, p) /\ Finger(p, s) \in Nat \ {0}
<1> DEFINE n == Len(s)
           m == Len(p.text)
           t == p.text
<1>1. n \in Nat /\ m \in Nat
  OBVIOUS
<1>2. Finger(p, s) = (IF n > m THEN n - m + 1 ELSE 1) /\ Size(p) = m
  BY DEF Finger, Size
<1>3. \A i \in Int : Holds(p, s, i) <=> Cut(s, i, i + m) = t
  BY DEF Holds
<1>4. Matches(s, p) = {i \in 0 .. n - m : SubSeq(s, i + 1, i + m) = t}
  BY <1>2 DEF Matches
<1>5. \A i \in Nat : i + m <= n => Cut(s, i, i + m) = SubSeq(s, i + 1, i + m)
  <2> SUFFICES ASSUME NEW i \in Nat, i + m <= n PROVE Cut(s, i, i + m) = SubSeq(s, i + 1, i + m)
    OBVIOUS
  <2> DEFINE e == i + m
  <2>0. e \in Nat /\ i <= n /\ e <= n
    BY <1>1
  <2> HIDE DEF e, n
  <2>1. (IF i < n THEN i ELSE n) = i /\ (IF e < n THEN e ELSE n) = e
    BY <1>1, <2>0
  <2>2. Cut(s, i, e) = SubSeq(s, (IF i < n THEN i ELSE n) + 1, IF e < n THEN e ELSE n)
    BY DEF Cut, n
  <2> QED
    BY <2>1, <2>2 DEF e
<1>6. CASE n >= m
  <2> HIDE DEF n, m, t
  <2>1. Finger(p, s) - 1 = n - m /\ Finger(p, s) \in Nat \ {0}
    BY <1>1, <1>2, <1>6
  <2>2. \A i \in 0 .. n - m : Holds(p, s, i) <=> SubSeq(s, i + 1, i + m) = t
    <3> SUFFICES ASSUME NEW i \in 0 .. n - m PROVE Holds(p, s, i) <=> SubSeq(s, i + 1, i + m) = t
      OBVIOUS
    <3>1. i \in Nat /\ i \in Int /\ i + m <= n
      BY <1>1
    <3>2. Holds(p, s, i) <=> Cut(s, i, i + m) = t
      BY <1>3, <3>1
    <3> QED
      BY <1>5, <3>1, <3>2
  <2>3. Hits(p, s) = {i \in 0 .. n - m : Holds(p, s, i)}
    BY <2>1 DEF Hits
  <2> QED
    BY <1>4, <2>1, <2>2, <2>3
<1>7. CASE n < m
  <2>1. Finger(p, s) = 1 /\ 0 .. n - m = {} /\ 0 .. 1 - 1 = {0}
    BY <1>1, <1>2, <1>7
  <2>2. ~Holds(p, s, 0)
    <3>1. Cut(s, 0, 0 + m) = SubSeq(s, 1, n)
      <4> HIDE DEF n, m
      <4>1. (IF 0 < n THEN 0 ELSE n) = 0 /\ (IF 0 + m < n THEN 0 + m ELSE n) = n
        BY <1>1, <1>7
      <4>2. Cut(s, 0, 0 + m) = SubSeq(s, (IF 0 < n THEN 0 ELSE n) + 1, IF 0 + m < n THEN 0 + m ELSE n)
        BY DEF Cut, n
      <4> QED
        BY <4>1, <4>2
    <3>2. Len(SubSeq(s, 1, n)) = n
      OBVIOUS
    <3> QED
      BY <1>1, <1>3, <1>7, <3>1, <3>2
  <2>3. Hits(p, s) = {i \in 0 .. 1 - 1 : Holds(p, s, i)}
    BY <2>1 DEF Hits
  <2> QED
    BY <1>4, <2>1, <2>2, <2>3
<1> QED
  BY <1>1, <1>6, <1>7

\* A character is found where it stands.
LEMMA CharMatches ==
  ASSUME NEW T, NEW s \in Seq(T), NEW p, p.kind = "char"
  PROVE  Hits(p, s) = Matches(s, p) /\ Finger(p, s) = Len(s) /\ Len(s) \in Nat
<1>1. Finger(p, s) = Len(s) /\ Size(p) = 1 /\ Len(s) \in Nat
  BY DEF Finger, Size
<1>2. \A i : Holds(p, s, i) <=> s[i + 1] \in p.set
  BY DEF Holds
<1> QED
  BY <1>1, <1>2 DEF Hits, Matches

\* The least and the greatest of what is found
LEMMA MinMaxOf ==
  ASSUME NEW n \in Nat, NEW A \in SUBSET (0 .. n), A # {}
  PROVE  Min(A) \in A /\ Max(A) \in A /\ (\A k \in A : Min(A) <= k) /\ (\A k \in A : Max(A) >= k)
<1>1. A \in SUBSET Nat
  OBVIOUS
<1>2. \E i \in A : \A k \in A : i <= k
  BY <1>1, LeastNumber
<1>3. \E i \in A : \A k \in A : i >= k
  BY GreatestOf
<1>4. Min(A) \in A /\ \A k \in A : Min(A) <= k
  BY <1>2 DEF Min
<1>5. Max(A) \in A /\ \A k \in A : Max(A) >= k
  BY <1>3 DEF Max
<1> QED
  BY <1>4, <1>5

\* What the calls answer is read off the text.
FoundRight(s, p, a) ==
  LET at == Matches(s, p)
  IN /\ a.rfind = IF at = {} THEN None ELSE Some(Max(at))
     /\ a.find = IF at = {} THEN None ELSE Some(Min(at) + 1)
     /\ a.starts <=> 0 \in at
     /\ a.ends <=> Len(s) - Size(p) \in at

\* A search finds what stands in the text, and answers where.
LEMMA SearchedRight ==
  ASSUME NEW x \in Searches
  PROVE  FoundRight(x.text, x.pattern, Searched(x))
<1> DEFINE s == x.text
           p == x.pattern
           at == Matches(s, p)
           n == Len(s)
           m == Size(p)
           e == Finger(p, s)
<1>1. Hits(p, s) = at /\ e \in Nat
  BY SearchIs, TextMatches, CharMatches
<1>2. n \in Nat /\ m \in Nat
  BY SearchIs DEF Size
<1>3. Searched(x).find = (IF at = {} THEN None ELSE Some(Min(at) + 1))
  BY <1>1 DEF Searched, Find
<1>4. Searched(x).rfind = (IF at = {} THEN None ELSE Some(Max(at)))
  BY <1>1 DEF Searched, Rfind
<1>5. Searched(x).starts <=> 0 \in at
  <2>1. StartsWith(s, p) <=> e > 0 /\ Holds(p, s, 0)
    BY DEF StartsWith
  <2>2. 0 \in Hits(p, s) <=> 0 \in 0 .. e - 1 /\ Holds(p, s, 0)
    BY DEF Hits
  <2>3. Searched(x).starts <=> StartsWith(s, p)
    BY DEF Searched
  <2> HIDE DEF e, at, s, p
  <2> QED
    BY <1>1, <2>1, <2>2, <2>3
<1>6. Searched(x).ends <=> e - 1 \in at
  <2>1. EndsWith(s, p) <=> e > 0 /\ Holds(p, s, e - 1)
    BY DEF EndsWith
  <2>2. e - 1 \in Hits(p, s) <=> e - 1 \in 0 .. e - 1 /\ Holds(p, s, e - 1)
    BY DEF Hits
  <2>3. Searched(x).ends <=> EndsWith(s, p)
    BY DEF Searched
  <2> HIDE DEF e, at, s, p
  <2> QED
    BY <1>1, <2>1, <2>2, <2>3
<1>7. e - 1 \in at <=> n - m \in at
  <2>1. at \subseteq 0 .. n - m
    BY DEF Matches
  <2>2. at \subseteq 0 .. e - 1
    BY <1>1 DEF Hits
  <2>3. CASE p.kind = "str"
    <3>1. m = Len(p.text)
      BY <2>3 DEF Size
    <3>2. e = IF n > m THEN n - m + 1 ELSE 1
      BY <2>3, <3>1 DEF Finger
    <3> HIDE DEF e, at, n, m
    <3>3. CASE n >= m
      BY <1>2, <3>2, <3>3
    <3>4. CASE n < m
      <4>1. 0 .. n - m = {}
        BY <1>2, <3>4
      <4> QED
        BY <2>1, <4>1
    <3> QED
      BY <1>2, <3>3, <3>4
  <2>4. CASE p.kind = "char"
    BY <2>4, SearchIs DEF Finger, Size
  <2> QED
    BY <2>3, <2>4, SearchIs
<1> QED
  BY <1>3, <1>4, <1>5, <1>6, <1>7 DEF FoundRight

(***************************************************************************)
(* Times                                                                   *)
(***************************************************************************)

\* Division, and what it leaves
LEMMA Divided ==
  ASSUME NEW n \in Nat, n > 0, NEW x \in Int
  PROVE  x \div n \in Int /\ x % n \in 0 .. n - 1 /\ x = n * (x \div n) + (x % n)
OBVIOUS

\* What is a multiple of n is no less than n, if it is more than 0.
LEMMA Multiple ==
  ASSUME NEW n \in Nat, NEW k \in Int, k >= 1
  PROVE  n * k >= n
<1>1. n * k = n * (k - 1) + n
  OBVIOUS
<1>2. k - 1 \in Nat
  OBVIOUS
<1>3. n * (k - 1) \in Nat
  <2> DEFINE j == k - 1
  <2>1. \A b \in Nat : n * b \in Nat
    OBVIOUS
  <2>2. j \in Nat
    BY <1>2
  <2> HIDE DEF j
  <2>3. n * j \in Nat
    BY <2>1, <2>2
  <2> QED
    BY <2>3 DEF j
<1> QED
  BY <1>1, <1>3

\* There is one quotient and one rest.
LEMMA OneRest ==
  ASSUME NEW n \in Nat, n > 0, NEW q \in Int, NEW r \in 0 .. n - 1
  PROVE  (n * q + r) % n = r
<1> DEFINE x == n * q + r
           p == x \div n
           s == x % n
           k == n * p
           l == n * q
<1>0. \A b \in Int : n * b \in Int
  OBVIOUS
<1>1. x \in Int /\ l \in Int
  BY <1>0
<1>2. p \in Int /\ s \in 0 .. n - 1 /\ x = k + s
  <2> HIDE DEF x
  <2> QED
    BY <1>1, Divided
<1>3. k \in Int /\ x = l + r
  BY <1>0, <1>2
<1>4. n * (p - q) = k - l /\ n * (q - p) = l - k
  <2> HIDE DEF p
  <2> QED
    BY <1>2
<1> HIDE DEF k, l, s, p
<1>5. k - l < n /\ l - k < n
  BY <1>1, <1>2, <1>3
<1>6. CASE p - q >= 1
  <2> DEFINE j == p - q
  <2>1. j \in Int /\ j >= 1
    BY <1>2, <1>6
  <2> HIDE DEF j
  <2>2. n * j >= n
    BY <2>1, Multiple
  <2> QED
    BY <1>1, <1>3, <1>4, <1>5, <2>2 DEF j
<1>7. CASE q - p >= 1
  <2> DEFINE j == q - p
  <2>1. j \in Int /\ j >= 1
    BY <1>2, <1>7
  <2> HIDE DEF j
  <2>2. n * j >= n
    BY <2>1, Multiple
  <2> QED
    BY <1>1, <1>3, <1>4, <1>5, <2>2 DEF j
<1>8. CASE p = q
  BY <1>1, <1>2, <1>3, <1>8 DEF k, l, s
<1> QED
  BY <1>2, <1>6, <1>7, <1>8

\* A multiple more does not change the rest.
LEMMA SameRest ==
  ASSUME NEW n \in Nat, n > 0, NEW a \in Int, NEW k \in Int
  PROVE  (a + n * k) % n = a % n
<1> DEFINE q == a \div n
           r == a % n
           j == q + k
<1>1. q \in Int /\ r \in 0 .. n - 1 /\ a = n * q + r
  BY Divided
<1> HIDE DEF q, r
<1>2. a + n * k = n * j + r /\ j \in Int
  BY <1>1
<1> HIDE DEF j
<1>3. (n * j + r) % n = r
  BY <1>1, <1>2, OneRest
<1> QED
  BY <1>2, <1>3 DEF r

\* Rests are added and subtracted like what they are the rests of.
RestsAdd(n, a, b) ==
  /\ ((a % n) + b) % n = (a + b) % n
  /\ ((a % n) - b) % n = (a - b) % n
  /\ (b - (a % n)) % n = (b - a) % n

\* That holds of every number that is more than 0.
LEMMA Rests == ASSUME NEW n \in Nat, n > 0, NEW a \in Int, NEW b \in Int PROVE RestsAdd(n, a, b)
<1> DEFINE q == a \div n
           r == a % n
<1>1. q \in Int /\ r \in 0 .. n - 1 /\ a = n * q + r
  BY Divided
<1>2. -q \in Int /\ n * (-q) = -(n * q)
  <2> HIDE DEF q
  <2> QED
    BY <1>1
<1> DEFINE m == -q
           k == n * q
<1>3. m \in Int /\ n * m = -k /\ k \in Int
  <2>1. \A i \in Int : n * i \in Int
    OBVIOUS
  <2> QED
    BY <1>1, <1>2, <2>1
<1> DEFINE c == a + b
           d == a - b
           e == b - a
<1>4. c \in Int /\ d \in Int /\ e \in Int
  OBVIOUS
<1>5. r = a - k
  <2> HIDE DEF q, r
  <2> QED
    BY <1>1
<1> HIDE DEF m, q, r
<1>6. (c + n * m) % n = c % n /\ (d + n * m) % n = d % n /\ (e + n * q) % n = e % n
  <2> HIDE DEF c, d, e
  <2> QED
    BY <1>1, <1>3, <1>4, SameRest
<1>7. c + n * m = r + b /\ d + n * m = r - b /\ e + n * q = b - r
  <2> HIDE DEF k
  <2>1. n * q = k
    BY DEF k
  <2> QED
    BY <1>3, <1>5, <2>1
<1>8. (r + b) % n = (a + b) % n /\ (r - b) % n = (a - b) % n /\ (b - r) % n = (b - a) % n
  BY <1>6, <1>7 DEF c, d, e
<1> QED
  BY <1>8 DEF RestsAdd, r

\* The rest of a number that is small enough is that number.
LEMMA RestOfSmall == ASSUME NEW n \in Nat, n > 0, NEW r \in 0 .. n - 1 PROVE r % n = r
<1>1. (n * 0 + r) % n = r
  BY OneRest
<1>2. n * 0 + r = r
  OBVIOUS
<1> QED
  BY <1>1, <1>2

\* The units
LEMMA UnitsAre ==
  /\ NanosPerSec \in Nat /\ NanosPerSec > 0
  /\ NanosPerMilli \in Nat /\ NanosPerMilli > 0
  /\ U64 \in Nat /\ U64 > 0 /\ U32Max \in Nat
<1>1. {NanosPerMilli, MillisPerSec, U64, U32Max} \subseteq Nat \ {0}
  BY QueriesAssumption DEF TimeAssumption
<1>2. \A a, b \in Nat : a > 0 /\ b > 0 => a * b \in Nat /\ a * b > 0
  OBVIOUS
<1> QED
  BY <1>1, <1>2 DEF NanosPerSec

\* The total of a time is what it was made of, and it is a number of a u64.
LEMMA TotalOfNanos ==
  ASSUME NEW n \in 0 .. U64 - 1
  PROVE  TotalNanos(FromNanos(n)) = n
<1> DEFINE a == n \div NanosPerSec
           b == n % NanosPerSec
           p == NanosPerSec
<1>1. n \in Int /\ p \in Nat /\ p > 0 /\ U64 \in Nat /\ U64 > 0
  BY UnitsAre
<1>2. a \in Int /\ n = p * a + b /\ b \in Int
  <2> HIDE DEF p
  <2>1. n \div p \in Int /\ n % p \in 0 .. p - 1 /\ n = p * (n \div p) + (n % p)
    BY <1>1, Divided
  <2> QED
    BY <2>1 DEF p
<1>3. p * a = a * p
  <2> HIDE DEF a, p
  <2> QED
    BY <1>1, <1>2
<1>4. TotalNanos(FromNanos(n)) = (a * p + b) % U64
  BY DEF TotalNanos, FromNanos
<1>5. n % U64 = n
  BY <1>1, RestOfSmall
<1> HIDE DEF a, b, p
<1> QED
  BY <1>2, <1>3, <1>4, <1>5

\* The nanoseconds of a duration are a number of a u64.
LEMMA TotalIs ==
  ASSUME NEW d, d.secs \in Nat, d.nanos \in Nat
  PROVE  TotalNanos(d) \in 0 .. U64 - 1
<1> DEFINE x == d.secs * NanosPerSec + d.nanos
<1>1. x \in Int
  <2>1. \A a, b \in Nat : a * b \in Nat
    OBVIOUS
  <2> QED
    BY <2>1, UnitsAre
<1> HIDE DEF x
<1>2. x % U64 \in 0 .. U64 - 1
  BY <1>1, UnitsAre, Divided
<1> QED
  BY <1>2 DEF TotalNanos, x

\* A duration is rounded to the next millisecond.
LEMMA MillisAre ==
  ASSUME NEW d, d.secs \in Nat, d.nanos \in Nat
  PROVE  LET apart == AsMillis(d) * NanosPerMilli - TotalNanos(d) IN
         /\ TotalNanos(d) < NanosPerMilli * U32Max /\ TotalNanos(d) + NanosPerMilli \div 2 < U64 =>
              2 * apart <= NanosPerMilli /\ 2 * apart > -NanosPerMilli
         /\ AsMillis(d) <= U32Max
<1> DEFINE t == TotalNanos(d)
           m == NanosPerMilli
           h == NanosPerMilli \div 2
           s == t + h
           x == s % U64
           n == x \div m
<1>1. t \in 0 .. U64 - 1 /\ m \in Nat /\ m > 0 /\ U64 \in Nat /\ U64 > 0 /\ U32Max \in Nat
  BY TotalIs, UnitsAre
<1>2. AsMillis(d) = IF n < U32Max THEN n ELSE U32Max
  BY DEF AsMillis
<1> HIDE DEF t, m
<1>3. h \in Nat /\ 2 * h <= m /\ m <= 2 * h + 1
  BY <1>1 DEF m
<1> HIDE DEF h
<1>4. s \in Int
  BY <1>1, <1>3
<1> HIDE DEF s
<1>5. x \in 0 .. U64 - 1
  BY <1>1, <1>4, Divided
<1>6. s < U64 => x = s
  <2>1. s < U64 => s \in 0 .. U64 - 1
    BY <1>1, <1>3, <1>4 DEF s
  <2> QED
    BY <1>1, <2>1, RestOfSmall
<1> HIDE DEF x
<1> DEFINE r == x % m
           k == m * n
<1>7. n \in Int /\ r \in 0 .. m - 1 /\ x = k + r
  BY <1>1, <1>5, Divided
<1>8. k = n * m
  <2> HIDE DEF n
  <2> QED
    BY <1>1, <1>7
<1>9. AsMillis(d) <= U32Max
  <2> HIDE DEF n
  <2> QED
    BY <1>1, <1>2, <1>7
<1>10. ASSUME t < m * U32Max, s < U64
       PROVE  2 * (AsMillis(d) * m - t) <= m /\ 2 * (AsMillis(d) * m - t) > -m
  <2> HIDE DEF n, r, k
  <2>0. k \in Int
    <3>1. \A i \in Int : m * i \in Int
      BY <1>1
    <3> QED
      BY <1>7, <3>1 DEF k
  <2>1. k = t + h - r
    BY <1>1, <1>3, <1>4, <1>6, <1>7, <1>10, <2>0 DEF s
  <2>2. n <= U32Max
    <3> SUFFICES ASSUME n > U32Max PROVE FALSE
      BY <1>1, <1>7
    <3> DEFINE j == n - U32Max
               u == m * U32Max
    <3>1. j \in Int /\ j >= 1
      BY <1>1, <1>7
    <3>2. u \in Int /\ m * j = k - u
      BY <1>1, <1>7 DEF k
    <3> HIDE DEF j, u
    <3>3. m * j >= m
      BY <1>1, <3>1, Multiple
    <3>4. t < u
      BY <1>10 DEF u
    <3> QED
      BY <1>1, <1>3, <1>7, <2>0, <2>1, <3>2, <3>3, <3>4
  <2>3. AsMillis(d) = n
    BY <1>1, <1>2, <1>7, <2>2
  <2>4. AsMillis(d) * m - t = h - r
    BY <1>1, <1>3, <1>7, <1>8, <2>0, <2>1, <2>3
  <2> DEFINE z == AsMillis(d) * m - t
  <2> HIDE DEF z
  <2>5. z = h - r
    BY <2>4 DEF z
  <2>6. 2 * z <= m /\ 2 * z > -m
    BY <1>1, <1>3, <1>7, <2>5
  <2> QED
    BY <2>6 DEF z
<1> QED
  BY <1>9, <1>10 DEF t, m, h, s

\* What MoveTime answers is as far from where the time was as it was asked for.
MovedRight(x, a) ==
  LET t == FromNanos(x.at) d == x.by
      apart == a.millis * NanosPerMilli - TotalNanos(d)
  IN /\ TotalNanos(DurationSince(a.plus, t)) = TotalNanos(d)
     /\ TotalNanos(DurationSince(t, a.minus)) = TotalNanos(d)
     /\ Minus(a.plus, d) = t /\ Plus(a.minus, d) = t
     /\ a.system = a.plus
     /\ TotalNanos(d) < NanosPerMilli * U32Max /\ TotalNanos(d) + NanosPerMilli \div 2 < U64 =>
          2 * apart <= NanosPerMilli /\ 2 * apart > -NanosPerMilli
     /\ a.millis <= U32Max

\* Every time that is asked is moved right.
LEMMA MovedIs == ASSUME NEW x \in Moments PROVE MovedRight(x, Moved(x))
<1> DEFINE at == x.at
           by == x.by
           t == FromNanos(at)
           d == TotalNanos(by)
           p == (at + d) % U64
           q == (at - d) % U64
<1>1. at \in 0 .. U64 - 1 /\ by.secs \in Nat /\ by.nanos \in Nat
  BY QueriesAssumption DEF MomentsAssumption
<1>2. U64 \in Nat /\ U64 > 0 /\ d \in 0 .. U64 - 1 /\ TotalNanos(t) = at
  BY <1>1, UnitsAre, TotalIs, TotalOfNanos
<1>3. /\ Moved(x).plus = FromNanos(p) /\ Moved(x).minus = FromNanos(q)
      /\ Moved(x).system = FromNanos(p) /\ Moved(x).millis = AsMillis(by)
  BY <1>2 DEF Moved, Plus, Minus, SystemMinus
<1> HIDE DEF d, at
<1>4. p \in 0 .. U64 - 1 /\ q \in 0 .. U64 - 1
  <2>1. at + d \in Int /\ at - d \in Int
    BY <1>1, <1>2
  <2> QED
    BY <1>2, <2>1, Divided
<1>5. TotalNanos(FromNanos(p)) = p /\ TotalNanos(FromNanos(q)) = q
  BY <1>4, TotalOfNanos
<1>6. /\ (p - at) % U64 = d /\ (at - q) % U64 = d
      /\ (p - d) % U64 = at /\ (q + d) % U64 = at
  <2> DEFINE a == at + d
             b == at - d
  <2>1. a \in Int /\ b \in Int /\ at \in Int /\ d \in Int
    BY <1>1, <1>2
  <2>2. RestsAdd(U64, a, at) /\ RestsAdd(U64, a, d) /\ RestsAdd(U64, b, at) /\ RestsAdd(U64, b, d)
    <3> HIDE DEF a, b
    <3> QED
      BY <1>2, <2>1, Rests
  <2>3. a - at = d /\ at - b = d /\ a - d = at /\ b + d = at
    BY <2>1
  <2>4. d % U64 = d /\ at % U64 = at
    BY <1>1, <1>2, RestOfSmall
  <2> HIDE DEF a, b
  <2>5. /\ ((a % U64) - at) % U64 = d /\ (at - (b % U64)) % U64 = d
        /\ ((a % U64) - d) % U64 = at /\ ((b % U64) + d) % U64 = at
    BY <2>2, <2>3, <2>4, Zenon DEF RestsAdd
  <2> QED
    BY <2>5 DEF a, b
<1> HIDE DEF p, q, t
<1>7. /\ DurationSince(FromNanos(p), t) = FromNanos(d)
      /\ DurationSince(t, FromNanos(q)) = FromNanos(d)
      /\ Minus(FromNanos(p), by) = FromNanos(at)
      /\ Plus(FromNanos(q), by) = FromNanos(at)
  BY <1>2, <1>5, <1>6 DEF DurationSince, Minus, Plus, d
<1>8. TotalNanos(FromNanos(d)) = d
  BY <1>2, TotalOfNanos
<1>9. LET apart == AsMillis(by) * NanosPerMilli - TotalNanos(by) IN
      /\ TotalNanos(by) < NanosPerMilli * U32Max /\ TotalNanos(by) + NanosPerMilli \div 2 < U64 =>
           2 * apart <= NanosPerMilli /\ 2 * apart > -NanosPerMilli
      /\ AsMillis(by) <= U32Max
  BY <1>1, MillisAre
<1> QED
  BY <1>3, <1>7, <1>8, <1>9, Zenon DEF MovedRight, t, d, at, by

(***************************************************************************)
(* Tests that are chosen and named                                         *)
(***************************************************************************)

\* c is a and then b.
IsJoined(a, b, c, T) ==
  /\ c \in Seq(T) /\ Len(c) = Len(a) + Len(b)
  /\ SubSeq(c, 1, Len(a)) = a /\ SubSeq(c, Len(a) + 1, Len(c)) = b
  /\ \A i \in 1 .. Len(a) : c[i] = a[i]
  /\ \A i \in 1 .. Len(b) : c[Len(a) + i] = b[i]

\* That holds of every two sequences.
LEMMA Joined == ASSUME NEW T, NEW a \in Seq(T), NEW b \in Seq(T) PROVE IsJoined(a, b, a \o b, T)
<1> DEFINE c == a \o b
           m == Len(a)
           n == Len(b)
<1>1. /\ c \in Seq(T) /\ Len(c) = m + n /\ m \in Nat /\ n \in Nat
      /\ \A i \in 1 .. m + n : c[i] = IF i <= m THEN a[i] ELSE b[i - m]
  OBVIOUS
<1>2. a = [i \in 1 .. m |-> a[i]] /\ b = [i \in 1 .. n |-> b[i]]
  OBVIOUS
<1> HIDE DEF c, m, n
<1>3. \A i \in 1 .. m : c[i] = a[i]
  BY <1>1
<1>4. \A i \in 1 .. n : c[m + i] = b[i]
  BY <1>1
<1>5. SubSeq(c, 1, m) = a
  <2>1. SubSeq(c, 1, m) = [i \in 1 .. m |-> c[i]]
    BY <1>1
  <2> QED
    BY <1>2, <1>3, <2>1
<1>6. SubSeq(c, m + 1, Len(c)) = b
  <2>1. SubSeq(c, m + 1, m + n) = [i \in 1 .. n |-> c[m + i]]
    BY <1>1
  <2> QED
    BY <1>1, <1>2, <1>4, <2>1
<1> QED
  BY <1>1, <1>3, <1>4, <1>5, <1>6 DEF IsJoined, c, m, n

\* What is behind the first item
LEMMA TailIs ==
  ASSUME NEW T, NEW s \in Seq(T), s # <<>>
  PROVE  Tail(s) \in Seq(T) /\ Len(s) = Len(Tail(s)) + 1
OBVIOUS

\* A text starts with what is a prefix of it.
LEMMA StartsIs ==
  ASSUME NEW T, NEW s \in Seq(T), NEW t \in Seq(T)
  PROVE  StartsWith(s, StrPat(t)) <=> IsPrefix(t, s)
<1> DEFINE p == StrPat(t)
           n == Len(s)
           m == Len(t)
<1>1. p.kind = "str" /\ p.text = t /\ n \in Nat /\ m \in Nat /\ Size(p) = m
  BY DEF StrPat, Size
<1> HIDE DEF p
<1>2. Hits(p, s) = Matches(s, p) /\ Finger(p, s) \in Nat \ {0}
  BY <1>1, TextMatches
<1>3. StartsWith(s, p) <=> 0 \in Hits(p, s)
  BY <1>2 DEF StartsWith, Hits
<1>4. 0 \in Matches(s, p) <=> 0 \in 0 .. n - m /\ SubSeq(s, 0 + 1, 0 + m) = t
  BY <1>1 DEF Matches
<1>5. SubSeq(t, 1, m) = t
  OBVIOUS
<1> HIDE DEF n, m
<1>6. (0 \in 0 .. n - m <=> m <= n) /\ 0 + 1 = 1 /\ 0 + m = m
  BY <1>1
<1>7. IsPrefix(t, s) <=> m <= n /\ SubSeq(t, 1, m) = SubSeq(s, 1, m)
  BY DEF IsPrefix, n, m
<1> QED
  BY <1>2, <1>3, <1>4, <1>5, <1>6, <1>7 DEF p

\* The patterns that fit a module
Fitting(pats, mod) == {k \in DOMAIN pats : Head(pats[k]) \in {"+", "-"} /\ IsPrefix(Tail(pats[k]), mod)}

\* What is known after the i-th pattern, if r was known before it
Verdicts == [len : Nat, res : BOOLEAN]
NoChoice == [len |-> 0, res |-> TRUE]
ChoiceOn(pats, mod, i, r) ==
  IF Len(Tail(pats[i])) >= r.len /\ i \in Fitting(pats, mod)
  THEN [len |-> Len(Tail(pats[i])), res |-> Head(pats[i]) = "+"] ELSE r

IsChoice(g, pats, mod) ==
  /\ g \in [0 .. Len(pats) -> Verdicts] /\ g[0] = NoChoice
  /\ \A i \in 1 .. Len(pats) : g[i] = ChoiceOn(pats, mod, i, g[i - 1])

\* What stands in a list of texts is a text.
LEMMA EachIsText ==
  ASSUME NEW pats \in Seq(Text), NEW i \in 1 .. Len(pats)
  PROVE  pats[i] \in Seq(STRING)
<1>1. ASSUME NEW T, NEW s \in Seq(T), NEW a \in 1 .. Len(s) PROVE s[a] \in T
  OBVIOUS
<1>2. pats[i] \in Text
  BY <1>1, Zenon
<1> QED
  BY <1>2, Zenon DEF Text

\* Patterns are gone through, as far as there are any.
LEMMA ChoiceExists ==
  ASSUME NEW pats \in Seq(Text), NEW mod \in Text, \A i \in DOMAIN pats : pats[i] # <<>>
  PROVE  \E g : IsChoice(g, pats, mod)
<1> DEFINE n == Len(pats)
           G == [i \in 1 .. n |-> [r \in Verdicts |-> ChoiceOn(pats, mod, i, r)]]
<1>1. n \in Nat /\ NoChoice \in Verdicts
  BY DEF NoChoice, Verdicts
<1>2. \A i \in 1 .. n : \A r \in Verdicts : ChoiceOn(pats, mod, i, r) \in Verdicts
  <2> SUFFICES ASSUME NEW i \in 1 .. n, NEW r \in Verdicts PROVE ChoiceOn(pats, mod, i, r) \in Verdicts
    OBVIOUS
  <2>1. pats[i] \in Seq(STRING) /\ pats[i] # <<>>
    BY EachIsText
  <2>2. Len(Tail(pats[i])) \in Nat
    BY <2>1
  <2> QED
    BY <2>2 DEF ChoiceOn, Verdicts
<1>3. G \in [1 .. n -> [Verdicts -> Verdicts]]
  BY <1>2
<1>4. \A i \in 1 .. n : \A r \in Verdicts : G[i][r] = ChoiceOn(pats, mod, i, r)
  OBVIOUS
<1> HIDE DEF G, n
<1>5. PICK g \in [0 .. n -> Verdicts] : Runs(g, NoChoice, G, n)
  BY <1>1, <1>3, RunExists
<1>6. ASSUME NEW i \in 1 .. n PROVE g[i] = ChoiceOn(pats, mod, i, g[i - 1])
  <2>1. i - 1 \in 0 .. n
    BY <1>1
  <2>2. g[i - 1] \in Verdicts
    BY <2>1
  <2> QED
    BY <1>4, <1>5, <2>2 DEF Runs
<1>7. g[0] = NoChoice
  BY <1>5 DEF Runs
<1> QED
  BY <1>6, <1>7 DEF IsChoice, n

\* That is what operator% does.
LEMMA ChosenIs ==
  ASSUME NEW pats \in Seq(Text), NEW mod \in Text, NEW g, IsChoice(g, pats, mod),
         \A i \in DOMAIN pats : pats[i] # <<>>
  PROVE  ChosenBy(pats, mod) = Some(g[Len(pats)].res)
<1> DEFINE n == Len(pats)
           On(f, i) == LET mask == Tail(pats[i]) IN
                       IF Len(mask) >= f[i - 1].len /\ Head(pats[i]) \in {"+", "-"} /\ StartsWith(mod, StrPat(mask))
                       THEN [len |-> Len(mask), res |-> Head(pats[i]) = "+"]
                       ELSE f[i - 1]
           Ok(f) == f = [i \in 0 .. Len(pats) |-> IF i = 0 THEN [len |-> 0, res |-> TRUE] ELSE On(f, i)]
           h == CHOOSE f : Ok(f)
<1>1. ChosenBy(pats, mod) = IF \E i \in DOMAIN pats : pats[i] = <<>> THEN Panic ELSE Some(h[Len(pats)].res)
  BY Zenon DEF ChosenBy
<1>2. n \in Nat /\ DOMAIN pats = 1 .. n
  OBVIOUS
<1>3. \A f : \A i \in 1 .. n : On(f, i) = ChoiceOn(pats, mod, i, f[i - 1])
  <2> SUFFICES ASSUME NEW f, NEW i \in 1 .. n PROVE On(f, i) = ChoiceOn(pats, mod, i, f[i - 1])
    OBVIOUS
  <2>0. mod \in Seq(STRING)
    BY Zenon DEF Text
  <2>1. pats[i] \in Seq(STRING) /\ pats[i] # <<>> /\ mod \in Seq(STRING)
    BY <1>2, <2>0, EachIsText
  <2>2. Tail(pats[i]) \in Seq(STRING)
    BY <2>1, TailIs
  <2>3. StartsWith(mod, StrPat(Tail(pats[i]))) <=> IsPrefix(Tail(pats[i]), mod)
    BY <2>1, <2>2, StartsIs
  <2> QED
    BY <1>2, <2>3 DEF ChoiceOn, Fitting
<1> HIDE DEF On
<1>4. \A i \in 0 .. n : g[i] = IF i = 0 THEN [len |-> 0, res |-> TRUE] ELSE On(g, i)
  <2> SUFFICES ASSUME NEW i \in 0 .. n PROVE g[i] = IF i = 0 THEN [len |-> 0, res |-> TRUE] ELSE On(g, i)
    OBVIOUS
  <2>1. i # 0 => i \in 1 .. n
    BY <1>2
  <2> QED
    BY <1>3, <2>1 DEF IsChoice, NoChoice
<1>5. Ok(g)
  <2>1. g = [i \in 0 .. n |-> g[i]]
    BY DEF IsChoice
  <2> QED
    BY <1>4, <2>1, Zenon
<1>6. Ok(h)
  BY <1>5, Zenon
<1> HIDE DEF h
<1>7. \A i \in 0 .. n : h[i] = IF i = 0 THEN [len |-> 0, res |-> TRUE] ELSE On(h, i)
  BY <1>6, Zenon
<1> HIDE DEF Ok
<1>8. h[0] = g[0]
  <2>1. 0 \in 0 .. n
    BY <1>2
  <2> QED
    BY <1>4, <1>7, <2>1, Zenon
<1>9. ASSUME NEW i \in 1 .. n, h[i - 1] = g[i - 1] PROVE h[i] = g[i]
  <2>1. i \in 0 .. n /\ i # 0
    BY <1>2
  <2> QED
    BY <1>3, <1>4, <1>7, <1>9, <2>1, Zenon
<1>10. Same(h, g, n)
  BY <1>2, <1>8, <1>9, RunsMeet, Zenon
<1>11. h[n] = g[n]
  <2>1. n \in 0 .. n
    BY <1>2
  <2> QED
    BY <1>10, <2>1 DEF Same
<1> QED
  BY <1>1, <1>11, Zenon

\* b is the last of the longest among the first i patterns that fit.
IsBest(pats, A, i, b) ==
  /\ b \in A /\ b <= i
  /\ \A j \in A : j <= i => Len(pats[j]) <= Len(pats[b]) /\ (Len(pats[j]) = Len(pats[b]) => j <= b)

\* What is known after i patterns is the sign of that one.
LEMMA ChoiceTells ==
  ASSUME NEW pats \in Seq(Text), NEW mod \in Text, NEW g, IsChoice(g, pats, mod),
         \A i \in DOMAIN pats : pats[i] # <<>>, NEW i \in 0 .. Len(pats)
  PROVE  \/ g[i] = NoChoice /\ \A j \in Fitting(pats, mod) : j > i
         \/ \E b \in Fitting(pats, mod) :
              /\ IsBest(pats, Fitting(pats, mod), i, b)
              /\ g[i] = [len |-> Len(pats[b]) - 1, res |-> Head(pats[b]) = "+"]
<1> DEFINE n == Len(pats)
           A == Fitting(pats, mod)
           l == [k \in 1 .. n |-> Len(pats[k])]
           None0(k) == g[k] = NoChoice /\ \A j \in A : j > k
           Best(k, b) == /\ b \in A /\ b <= k
                         /\ \A j \in A : j <= k => l[j] <= l[b] /\ (l[j] = l[b] => j <= b)
                         /\ g[k] = [len |-> l[b] - 1, res |-> Head(pats[b]) = "+"]
           Q == {k \in 0 .. n : None0(k) \/ \E b \in A : Best(k, b)}
<1>1. n \in Nat /\ A \subseteq 1 .. n /\ DOMAIN pats = 1 .. n
  BY DEF Fitting
<1>2. \A k \in 1 .. n : l[k] = Len(pats[k]) /\ l[k] \in Nat /\ l[k] >= 1 /\ Len(Tail(pats[k])) = l[k] - 1
  <2> SUFFICES ASSUME NEW k \in 1 .. n
               PROVE  l[k] = Len(pats[k]) /\ l[k] \in Nat /\ l[k] >= 1 /\ Len(Tail(pats[k])) = l[k] - 1
    OBVIOUS
  <2>1. pats[k] \in Seq(STRING) /\ pats[k] # <<>>
    BY <1>1, EachIsText
  <2> QED
    BY <2>1
<1>3. /\ g[0] = NoChoice
      /\ \A k \in 1 .. n : g[k] = IF l[k] - 1 >= g[k - 1].len /\ k \in A
                                  THEN [len |-> l[k] - 1, res |-> Head(pats[k]) = "+"] ELSE g[k - 1]
  BY <1>2 DEF IsChoice, ChoiceOn
<1>4. i \in 0 .. n
  OBVIOUS
<1> HIDE DEF n, A, l
<1>5. 0 \in Q
  BY <1>1, <1>3
<1>6. ASSUME NEW k \in 1 .. n, k - 1 \in Q PROVE k \in Q
  <2> DEFINE j0 == k - 1
  <2>1. j0 \in Nat /\ k \in Nat /\ k = j0 + 1 /\ k \in 0 .. n
    BY <1>1
  <2>2. \A j \in A : j \in Nat /\ l[j] \in Nat /\ l[j] >= 1 /\ (j <= k <=> j <= j0 \/ j = k)
    BY <1>1, <1>2, <2>1
  <2>3. g[k] = IF l[k] - 1 >= g[j0].len /\ k \in A
               THEN [len |-> l[k] - 1, res |-> Head(pats[k]) = "+"] ELSE g[j0]
    BY <1>3
  <2>4. None0(j0) \/ \E b \in A : Best(j0, b)
    BY <1>6
  <2> HIDE DEF j0
  <2>5. l[k] \in Nat /\ l[k] >= 1
    BY <1>2
  <2>6. CASE None0(j0) /\ k \in A
    <3>1. g[j0].len = 0
      BY <2>6 DEF NoChoice
    <3>2. g[k] = [len |-> l[k] - 1, res |-> Head(pats[k]) = "+"]
      BY <2>3, <2>5, <2>6, <3>1
    <3>3. \A j \in A : j <= k => j = k
      BY <2>1, <2>2, <2>6
    <3>4. Best(k, k)
      BY <2>1, <2>5, <2>6, <3>2, <3>3
    <3> QED
      BY <2>1, <2>6, <3>4
  <2>7. CASE None0(j0) /\ k \notin A
    <3>1. None0(k)
      BY <2>1, <2>2, <2>3, <2>7
    <3> QED
      BY <2>1, <3>1
  <2>8. ASSUME NEW b \in A, Best(j0, b) PROVE k \in Q
    <3>1. g[j0].len = l[b] - 1 /\ l[b] \in Nat /\ b \in Nat /\ b <= j0
      BY <2>2, <2>8
    <3>2. CASE k \in A /\ l[k] >= l[b]
      <4>1. g[k] = [len |-> l[k] - 1, res |-> Head(pats[k]) = "+"]
        BY <2>3, <2>5, <3>1, <3>2
      <4>2. \A j \in A : j <= k => l[j] <= l[k] /\ (l[j] = l[k] => j <= k)
        BY <2>2, <2>5, <2>8, <3>1, <3>2
      <4>3. Best(k, k)
        BY <2>1, <3>2, <4>1, <4>2
      <4> QED
        BY <2>1, <3>2, <4>3
    <3>3. CASE ~(k \in A /\ l[k] >= l[b])
      <4>1. g[k] = g[j0]
        BY <2>3, <2>5, <3>1, <3>3
      <4>2. \A j \in A : j <= k => l[j] <= l[b] /\ (l[j] = l[b] => j <= b)
        BY <2>2, <2>5, <2>8, <3>1, <3>3
      <4>3. Best(k, b)
        BY <2>1, <2>8, <3>1, <4>1, <4>2
      <4> QED
        BY <2>1, <4>3
    <3> QED
      BY <3>2, <3>3
  <2> QED
    BY <2>4, <2>6, <2>7, <2>8
<1> HIDE DEF Q
<1>7. 0 .. n \subseteq Q
  BY <1>1, <1>5, <1>6, Onward, Zenon
<1>8. None0(i) \/ \E b \in A : Best(i, b)
  BY <1>4, <1>7 DEF Q
<1>9. ASSUME NEW b \in A, Best(i, b)
      PROVE  IsBest(pats, A, i, b) /\ g[i] = [len |-> Len(pats[b]) - 1, res |-> Head(pats[b]) = "+"]
  BY <1>1, <1>2, <1>9 DEF IsBest
<1> QED
  BY <1>8, <1>9 DEF A

\* A module is chosen by the sign of the last of the longest patterns that fit
\* it, and by default.
LEMMA SignChooses ==
  ASSUME NEW pats \in Seq(Text), NEW mod \in Text, \A i \in DOMAIN pats : pats[i] # <<>>
  PROVE  LET fits == Fitting(pats, mod)
             best == {k \in fits : \A j \in fits : Len(pats[j]) <= Len(pats[k])}
         IN ChosenBy(pats, mod).it = ~(best # {} /\ Head(pats[Max(best)]) = "-")
<1> DEFINE n == Len(pats)
           A == Fitting(pats, mod)
           best == {k \in A : \A j \in A : Len(pats[j]) <= Len(pats[k])}
           minus == best # {} /\ Head(pats[Max(best)]) = "-"
<1>1. PICK g : IsChoice(g, pats, mod)
  BY ChoiceExists
<1>2. ChosenBy(pats, mod).it = g[n].res
  BY <1>1, ChosenIs DEF Some
<1>3. n \in Nat /\ A \subseteq 1 .. n /\ n \in 0 .. n /\ \A k \in A : Head(pats[k]) \in {"+", "-"}
  BY DEF Fitting
<1>4. \A k \in 1 .. n : Len(pats[k]) \in Nat
  <2> SUFFICES ASSUME NEW k \in 1 .. n PROVE Len(pats[k]) \in Nat
    OBVIOUS
  <2>1. pats[k] \in Seq(STRING)
    BY EachIsText
  <2> QED
    BY <2>1
<1>5. \/ g[n] = NoChoice /\ \A j \in A : j > n
      \/ \E b \in A : IsBest(pats, A, n, b) /\ g[n] = [len |-> Len(pats[b]) - 1, res |-> Head(pats[b]) = "+"]
  BY <1>1, <1>3, ChoiceTells
<1> HIDE DEF A, n
<1>6. ASSUME g[n] = NoChoice, \A j \in A : j > n
      PROVE  ChosenBy(pats, mod).it = ~minus
  <2>1. A = {}
    BY <1>3, <1>6
  <2>2. best = {}
    BY <2>1
  <2>3. g[n].res = TRUE
    BY <1>6 DEF NoChoice
  <2> HIDE DEF best
  <2> QED
    BY <1>2, <2>2, <2>3
<1>7. ASSUME NEW b \in A, IsBest(pats, A, n, b), g[n] = [len |-> Len(pats[b]) - 1, res |-> Head(pats[b]) = "+"]
      PROVE  ChosenBy(pats, mod).it = ~minus
  <2>1. \A j \in A : j <= n /\ j \in Nat
    BY <1>3
  <2>2. b \in best /\ \A j \in best : b >= j
    <3>1. \A j \in A : Len(pats[j]) <= Len(pats[b]) /\ (Len(pats[j]) = Len(pats[b]) => j <= b)
      BY <1>7, <2>1 DEF IsBest
    <3> QED
      BY <1>3, <1>4, <2>1, <3>1
  <2>3. Max(best) = b
    <3>0. best \subseteq A
      OBVIOUS
    <3> HIDE DEF best
    <3>1. best \subseteq 0 .. n
      BY <1>3, <3>0
    <3>2. Max(best) \in best /\ \A k \in best : Max(best) >= k
      BY <1>3, <2>2, <3>1, MinMaxOf
    <3> DEFINE m == Max(best)
    <3>3. m \in best /\ m >= b /\ b >= m
      BY <2>2, <3>2
    <3> HIDE DEF m
    <3>4. m \in 0 .. n /\ b \in 0 .. n
      BY <2>2, <3>1, <3>3
    <3>5. m = b
      BY <1>3, <3>3, <3>4
    <3> QED
      BY <3>5 DEF m
  <2>4. Head(pats[b]) = "+" \/ Head(pats[b]) = "-"
    BY <1>3
  <2> HIDE DEF best
  <2>5. g[n].res = (Head(pats[b]) = "+")
    BY <1>7
  <2>6. CASE Head(pats[b]) = "+"
    BY <1>2, <2>2, <2>3, <2>5, <2>6
  <2>7. CASE Head(pats[b]) = "-"
    BY <1>2, <2>2, <2>3, <2>5, <2>7
  <2> QED
    BY <2>4, <2>6, <2>7
<1> HIDE DEF minus
<1>8. ChosenBy(pats, mod).it = ~minus
  BY <1>5, <1>6, <1>7
<1> QED
  BY <1>8 DEF A, minus

\* The tests that run are those that are chosen.
RanRight(x, a) ==
  a # Panic =>
    \A i \in DOMAIN x.tests :
      LET test == x.tests[i] pats == x.pats
          fits == {k \in DOMAIN pats : Head(pats[k]) \in {"+", "-"} /\ IsPrefix(Tail(pats[k]), test.mod)}
          best == {k \in fits : \A j \in fits : Len(pats[j]) <= Len(pats[k])}
      IN a.it[i] = IF best # {} /\ Head(pats[Max(best)]) = "-" THEN "left out"
                   ELSE IF test.throws THEN "failed" ELSE "ok"

\* Every suite that is asked is run right.
LEMMA RunIs == ASSUME NEW x \in Suites PROVE RanRight(x, Run(x.tests, x.pats))
<1> DEFINE tests == x.tests
           pats == x.pats
<1>1. tests \in Seq([mod : Text, throws : BOOLEAN]) /\ pats \in Seq(Text)
  BY QueriesAssumption DEF SuitesAssumption
<1> SUFFICES ASSUME Run(tests, pats) # Panic, NEW i \in DOMAIN tests
             PROVE  LET fits == Fitting(pats, tests[i].mod)
                        best == {k \in fits : \A j \in fits : Len(pats[j]) <= Len(pats[k])}
                    IN Run(tests, pats).it[i] = IF best # {} /\ Head(pats[Max(best)]) = "-" THEN "left out"
                                                ELSE IF tests[i].throws THEN "failed" ELSE "ok"
  BY Zenon DEF RanRight, Fitting
<1>2. tests # <<>> /\ tests[i].mod \in Text
  <2> DEFINE R == [mod : Text, throws : BOOLEAN]
  <2>0. tests \in Seq(R) /\ i \in DOMAIN tests
    BY <1>1
  <2> HIDE DEF tests, R
  <2>1. tests[i] \in R /\ tests # <<>>
    BY <2>0
  <2> QED
    BY <2>1 DEF R
<1>3. \A k \in DOMAIN pats : pats[k] # <<>>
  <2>1. ChosenBy(pats, <<>>) # Panic
    BY <1>2 DEF Run
  <2> QED
    BY <2>1, Zenon DEF ChosenBy
<1>4. Run(tests, pats).it[i] = IF ~ChosenBy(pats, tests[i].mod).it THEN "left out"
                               ELSE IF tests[i].throws THEN "failed" ELSE "ok"
  BY <1>2 DEF Run, Some
<1> DEFINE fits == Fitting(pats, tests[i].mod)
           best == {k \in fits : \A j \in fits : Len(pats[j]) <= Len(pats[k])}
           minus == best # {} /\ Head(pats[Max(best)]) = "-"
<1>5. ChosenBy(pats, tests[i].mod).it = ~minus
  BY <1>1, <1>2, <1>3, SignChooses
<1> HIDE DEF minus
<1>6. Run(tests, pats).it[i] = IF minus THEN "left out" ELSE IF tests[i].throws THEN "failed" ELSE "ok"
  BY <1>4, <1>5
<1> QED
  BY <1>6 DEF minus

\* Where the last colon of a text is, or 0, if there is none
LEMMA LastColon ==
  ASSUME NEW T, NEW s \in Seq(T), NEW k \in 0 .. Len(s), k > 0 => s[k] = ":",
         \A i \in 1 .. Len(s) : i > k => s[i] # ":"
  PROVE  (IF Rfind(s, CharPat(":")) = None THEN 0 ELSE Rfind(s, CharPat(":")).it + 1) = k
<1> DEFINE p == CharPat(":")
           n == Len(s)
           A == Matches(s, p)
<1>0. k \in 0 .. n
  OBVIOUS
<1>1. p.kind = "char" /\ p.set = {":"} /\ Size(p) = 1
  BY DEF CharPat, Size
<1>2. Hits(p, s) = A /\ Finger(p, s) = n /\ n \in Nat
  BY <1>1, CharMatches
<1>3. Rfind(s, p) = IF A = {} THEN None ELSE Some(Max(A))
  BY <1>2 DEF Rfind
<1>4. A = {i \in 0 .. n - 1 : s[i + 1] = ":"}
  BY <1>1 DEF Matches
<1>5. A \subseteq 0 .. n
  BY <1>2, <1>4
<1>6. \A i \in A : i + 1 <= k
  <2> SUFFICES ASSUME NEW i \in A, ~(i + 1 <= k) PROVE FALSE
    OBVIOUS
  <2> DEFINE j == i + 1
  <2>1. j \in 1 .. n /\ j > k /\ s[j] = ":"
    BY <1>2, <1>4
  <2> HIDE DEF j
  <2> QED
    BY <2>1
<1>7. k > 0 => k - 1 \in A
  BY <1>2, <1>4
<1> HIDE DEF A, p, n
<1>8. CASE A = {}
  BY <1>3, <1>7, <1>8 DEF p
<1>9. CASE A # {}
  <2> DEFINE m == Max(A)
  <2>1. m \in A /\ \A i \in A : m >= i
    BY <1>2, <1>5, <1>9, MinMaxOf
  <2>5. Rfind(s, p) = Some(m)
    BY <1>3, <1>9
  <2> HIDE DEF m
  <2>6. Some(m) # None /\ Some(m).it = m
    BY DEF Some, None
  <2>2. m \in 0 .. n
    BY <1>5, <2>1
  <2>3. m + 1 <= k
    BY <1>6, <2>1
  <2>4. m >= k - 1
    BY <1>0, <1>2, <1>7, <2>1, <2>2, <2>3
  <2>7. m + 1 = k
    BY <1>0, <1>2, <2>2, <2>3, <2>4
  <2> QED
    BY <2>5, <2>6, <2>7 DEF p
<1> QED
  BY <1>8, <1>9

\* A range that ends within a text
LEMMA CutWithin ==
  ASSUME NEW T, NEW s \in Seq(T), NEW a \in 0 .. Len(s), NEW b \in 0 .. Len(s)
  PROVE  Cut(s, a, b) = SubSeq(s, a + 1, b)
<1> DEFINE n == Len(s)
<1>1. n \in Nat
  OBVIOUS
<1> HIDE DEF n
<1>2. (IF a < n THEN a ELSE n) = a /\ (IF b < n THEN b ELSE n) = b
  BY <1>1 DEF n
<1>3. Cut(s, a, b) = SubSeq(s, (IF a < n THEN a ELSE n) + 1, IF b < n THEN b ELSE n)
  BY DEF Cut, n
<1> QED
  BY <1>2, <1>3

\* The two parts of a text that is split where they meet
LEMMA CutJoined ==
  ASSUME NEW T, NEW a \in Seq(T), NEW b \in Seq(T)
  PROVE  Cut(a \o b, 0, Len(a)) = a /\ Cut(a \o b, Len(a), Len(a \o b)) = b
<1> DEFINE c == a \o b
<1>1. IsJoined(a, b, c, T)
  BY Joined
<1>2. Len(a) \in Nat /\ Len(b) \in Nat
  OBVIOUS
<1> HIDE DEF c
<1>3. c \in Seq(T) /\ 0 \in 0 .. Len(c) /\ Len(a) \in 0 .. Len(c) /\ Len(c) \in 0 .. Len(c)
  BY <1>1, <1>2 DEF IsJoined
<1>4. Cut(c, 0, Len(a)) = SubSeq(c, 0 + 1, Len(a)) /\ Cut(c, Len(a), Len(c)) = SubSeq(c, Len(a) + 1, Len(c))
  BY <1>3, CutWithin
<1>5. Cut(c, 0, Len(a)) = a /\ Cut(c, Len(a), Len(c)) = b
  <2>1. 0 + 1 = 1
    OBVIOUS
  <2> QED
    BY <1>1, <1>4, <2>1, Zenon DEF IsJoined
<1> QED
  BY <1>5 DEF c

\* A text begins with a character.
LEMMA PrefixOne ==
  ASSUME NEW T, NEW s \in Seq(T), s # <<>>, NEW c \in T
  PROVE  IsPrefix(<<c>>, s) <=> s[1] = c
<1> DEFINE a == SubSeq(<<c>>, 1, 1)
           b == SubSeq(s, 1, 1)
<1>1. Len(<<c>>) = 1 /\ Len(s) >= 1
  OBVIOUS
<1>2. a = <<c>> /\ b = <<s[1]>>
  <2>1. a = [i \in 1 .. 1 |-> <<c>>[i]] /\ b = [i \in 1 .. 1 |-> s[i]]
    BY <1>1
  <2>2. <<c>> = [i \in 1 .. 1 |-> c] /\ <<s[1]>> = [i \in 1 .. 1 |-> s[1]]
    OBVIOUS
  <2>3. \A i \in 1 .. 1 : i = 1 /\ <<c>>[i] = c
    OBVIOUS
  <2> HIDE DEF a, b
  <2> QED
    BY <2>1, <2>2, <2>3
<1>3. IsPrefix(<<c>>, s) <=> 1 <= Len(s) /\ a = b
  BY <1>1 DEF IsPrefix
<1>4. <<c>> = <<s[1]>> <=> s[1] = c
  OBVIOUS
<1> QED
  BY <1>1, <1>2, <1>3, <1>4

\* d is s behind b, and what is behind s cut off
IsInner(d, b, s, T) == d \in Seq(T) /\ d # <<>> /\ d[1] = b /\ Cut(d, 1, Len(d) - 1) = s

\* What is left of a text without its ends
LEMMA CutInner ==
  ASSUME NEW T, NEW s \in Seq(T), NEW b \in T, NEW e \in T, NEW d, d = (<<b>> \o s) \o <<e>>
  PROVE  IsInner(d, b, s, T)
<1> DEFINE n == Len(s)
           a == <<b>> \o s
<1>1. <<b>> \in Seq(T) /\ <<e>> \in Seq(T) /\ n \in Nat /\ Len(<<b>>) = 1 /\ Len(<<e>>) = 1
  OBVIOUS
<1>2. IsJoined(<<b>>, s, a, T)
  BY <1>1, Joined
<1>3. a \in Seq(T) /\ Len(a) = n + 1
  BY <1>1, <1>2 DEF IsJoined
<1>4. IsJoined(a, <<e>>, d, T)
  <2> HIDE DEF a
  <2>1. IsJoined(a, <<e>>, a \o <<e>>, T)
    BY <1>1, <1>3, Joined
  <2> QED
    BY <2>1 DEF a
<1>5. d \in Seq(T) /\ Len(d) = n + 2 /\ \A i \in 1 .. n + 1 : d[i] = a[i]
  BY <1>1, <1>3, <1>4 DEF IsJoined
<1>6. a[1] = b /\ \A i \in 1 .. n : a[i + 1] = s[i]
  <2>1. \A i \in 1 .. n : a[1 + i] = s[i]
    BY <1>1, <1>2 DEF IsJoined
  <2>2. a[1] = <<b>>[1]
    BY <1>1, <1>2 DEF IsJoined
  <2>3. \A i \in 1 .. n : 1 + i = i + 1
    BY <1>1
  <2> HIDE DEF a
  <2> QED
    BY <2>1, <2>2, <2>3
<1>7. s = [i \in 1 .. n |-> s[i]]
  OBVIOUS
<1> HIDE DEF a, n
<1>8. Cut(d, 1, Len(d) - 1) = SubSeq(d, 2, n + 1)
  <2>1. 1 \in 0 .. Len(d) /\ Len(d) - 1 \in 0 .. Len(d) /\ Len(d) - 1 = n + 1 /\ 1 + 1 = 2
    BY <1>1, <1>5
  <2> DEFINE z == Len(d) - 1
  <2>2. z \in 0 .. Len(d) /\ z = n + 1
    BY <2>1
  <2> HIDE DEF z
  <2>3. Cut(d, 1, z) = SubSeq(d, 1 + 1, z)
    BY <1>5, <2>1, <2>2, CutWithin
  <2> QED
    BY <2>1, <2>2, <2>3 DEF z
<1>9. SubSeq(d, 2, n + 1) = [i \in 1 .. n |-> d[i + 1]]
  BY <1>1, <1>5
<1>10. \A i \in 1 .. n : d[i + 1] = s[i]
  <2> SUFFICES ASSUME NEW i \in 1 .. n PROVE d[i + 1] = s[i]
    OBVIOUS
  <2>1. i + 1 \in 1 .. n + 1
    BY <1>1
  <2> QED
    BY <1>5, <1>6, <2>1
<1>11. d[1] = b /\ d # <<>>
  <2>1. 1 \in 1 .. n + 1
    BY <1>1
  <2> QED
    BY <1>1, <1>5, <1>6, <2>1
<1> QED
  BY <1>5, <1>7, <1>8, <1>9, <1>10, <1>11 DEF IsInner

\* The rest of From, behind what the compiler put around the name
NamesApart(s, r) ==
  LET p == IF Rfind(s, CharPat(":")) = None THEN 0 ELSE Rfind(s, CharPat(":")).it + 1
      name == SplitAt(s, p)[2]
  IN r = [mod |-> SplitAt(s, p)[1], name |-> Cut(name, 0, IF name = <<>> THEN 0 ELSE Len(name) - 1)]

\* A module, whose name ends with a colon, and a test with none, are parted.
LEMMA PartsAre ==
  ASSUME NEW T, NEW a \in Seq(T), NEW b \in Seq(T), NEW t \in T, t # ":",
         a # <<>> => a[Len(a)] = ":", \A i \in 1 .. Len(b) : b[i] # ":"
  PROVE  NamesApart((a \o b) \o <<t>>, [mod |-> a, name |-> b])
<1> DEFINE q == b \o <<t>>
           s == a \o q
           m == Len(a)
           n == Len(b)
<1>1. <<t>> \in Seq(T) /\ Len(<<t>>) = 1 /\ <<t>>[1] = t /\ m \in Nat /\ n \in Nat
  OBVIOUS
<1>2. (a \o b) \o <<t>> = s
  <2>1. JoinsAll(a, b, <<t>>, T)
    BY <1>1, JoinAssoc
  <2> QED
    BY <2>1 DEF JoinsAll
<1>3. IsJoined(b, <<t>>, q, T)
  BY <1>1, Joined
<1>4. q \in Seq(T) /\ Len(q) = n + 1 /\ \A i \in 1 .. n + 1 : q[i] # ":"
  <2>1. q \in Seq(T) /\ Len(q) = n + 1 /\ (\A i \in 1 .. n : q[i] = b[i]) /\ \A i \in 1 .. 1 : q[n + i] = <<t>>[i]
    BY <1>1, <1>3 DEF IsJoined
  <2>2. q[n + 1] = t
    BY <1>1, <2>1
  <2> HIDE DEF q
  <2> QED
    BY <1>1, <2>1, <2>2
<1>5. Cut(q, 0, n) = b
  BY <1>1, CutJoined
<1> HIDE DEF q
<1>6. IsJoined(a, q, s, T) /\ Cut(s, 0, m) = a /\ Cut(s, m, Len(s)) = q
  BY <1>4, Joined, CutJoined
<1>7. s \in Seq(T) /\ Len(s) = m + (n + 1) /\ (\A i \in 1 .. m : s[i] = a[i]) /\ \A i \in 1 .. n + 1 : s[m + i] = q[i]
  BY <1>4, <1>6 DEF IsJoined
<1> HIDE DEF s
<1>8. m \in 0 .. Len(s) /\ (m > 0 => s[m] = ":")
  <2>1. m > 0 => m \in 1 .. m /\ a # <<>>
    BY <1>1
  <2> QED
    BY <1>1, <1>7, <2>1
<1>9. \A i \in 1 .. Len(s) : i > m => s[i] # ":"
  <2> SUFFICES ASSUME NEW i \in 1 .. Len(s), i > m PROVE s[i] # ":"
    OBVIOUS
  <2> DEFINE j == i - m
  <2>1. j \in 1 .. n + 1 /\ i = m + j
    BY <1>1, <1>7
  <2> HIDE DEF j, m, n
  <2> QED
    BY <1>4, <1>7, <2>1
<1>10. (IF Rfind(s, CharPat(":")) = None THEN 0 ELSE Rfind(s, CharPat(":")).it + 1) = m
  <2> HIDE DEF m
  <2> QED
    BY <1>7, <1>8, <1>9, LastColon
<1>11. SplitAt(s, m)[1] = a /\ SplitAt(s, m)[2] = q
  BY <1>6 DEF SplitAt
<1>12. (IF q = <<>> THEN 0 ELSE Len(q) - 1) = n
  BY <1>1, <1>4
<1> HIDE DEF n, m
<1>13. NamesApart(s, [mod |-> a, name |-> b])
  BY <1>5, <1>10, <1>11, <1>12, Zenon DEF NamesApart
<1> QED
  BY <1>2, <1>13

\* What From makes of a description is the module and the name that it was made of.
LEMMA NamedIs ==
  ASSUME NEW x \in Descs
  PROVE  From(DescText(x)) = [mod |-> x.mod, name |-> x.name]
<1> DEFINE T == STRING \cup {"t", "]", "g", "m"}
           a == x.mod
           b == x.name
           core == (a \o b) \o <<"t">>
           d == DescText(x)
           s == IF StartsWith(d, StrPat(<<"g">>)) \/ StartsWith(d, StrPat(<<"m">>))
                THEN Cut(d, 1, Len(d) - 1) ELSE d
           r == [mod |-> a, name |-> b]
<1>1. /\ a \in Seq(T) /\ (a # <<>> => a[Len(a)] = ":")
      /\ b \in Seq(T) /\ \A i \in 1 .. Len(b) : b[i] # ":"
      /\ \/ x.before \in {<<"g">>, <<"m">>} /\ x.after = <<"]">>
         \/ x.before = <<>> /\ x.after = <<>> /\ \A y \in {a, b} : y # <<>> => y[1] \notin {"g", "m"}
  <2>1. \A y \in Seq(STRING) : y \in Seq(T)
    OBVIOUS
  <2> HIDE DEF T
  <2> QED
    BY <2>1, QueriesAssumption DEF DescsAssumption, Text
<1>2. "t" \in T /\ "]" \in T /\ "g" \in T /\ "m" \in T /\ "t" # ":"
  OBVIOUS
<1>3. NamesApart(core, r)
  <2> HIDE DEF a, b, T
  <2> QED
    BY <1>1, <1>2, PartsAre
<1>4. IsJoined(a, b, a \o b, T) /\ a \o b \in Seq(T) /\ <<"t">> \in Seq(T)
  <2>1. <<"t">> \in Seq(T)
    OBVIOUS
  <2>2. IsJoined(a, b, a \o b, T)
    BY <1>1, Joined
  <2> QED
    BY <2>1, <2>2 DEF IsJoined
<1> DEFINE ab == a \o b
<1>5. IsJoined(ab, <<"t">>, core, T)
  <2> HIDE DEF T, ab
  <2> QED
    BY <1>4, Joined DEF ab
<1>6. core \in Seq(T)
  BY <1>5 DEF IsJoined
<1>7. ASSUME d \in Seq(T), d # <<>>
      PROVE  StartsWith(d, StrPat(<<"g">>)) \/ StartsWith(d, StrPat(<<"m">>)) <=> d[1] \in {"g", "m"}
  <2>1. \A c \in T : <<c>> \in Seq(T)
    OBVIOUS
  <2> HIDE DEF d, T
  <2>2. \A c \in T : StartsWith(d, StrPat(<<c>>)) <=> IsPrefix(<<c>>, d)
    BY <1>7, <2>1, StartsIs
  <2>3. \A c \in T : IsPrefix(<<c>>, d) <=> d[1] = c
    BY <1>7, PrefixOne
  <2> QED
    BY <1>2, <2>2, <2>3
<1>8. NamesApart(s, From(d))
  BY Zenon DEF From, NamesApart
<1>9. s = core
  <2>1. ASSUME NEW c \in {"g", "m"}, x.before = <<c>>, x.after = <<"]">> PROVE s = core
    <3>1. c \in T /\ <<c>> \in Seq(T)
      BY <1>2
    <3>2. JoinsAll(<<c>>, a, b, T) /\ JoinsAll(<<c>>, ab, <<"t">>, T)
      <4> HIDE DEF a, b, ab, T
      <4> QED
        BY <1>1, <1>4, <3>1, JoinAssoc DEF ab
    <3>3. (<<c>> \o a) \o b = <<c>> \o ab /\ (<<c>> \o ab) \o <<"t">> = <<c>> \o core
      BY <3>2 DEF JoinsAll
    <3>4. d = (((<<c>> \o a) \o b) \o <<"t">>) \o <<"]">>
      BY <2>1, Zenon DEF DescText
    <3> HIDE DEF d, core, ab
    <3>5. d = (<<c>> \o core) \o <<"]">>
      BY <3>3, <3>4
    <3>6. d \in Seq(T) /\ d # <<>> /\ d[1] = c /\ Cut(d, 1, Len(d) - 1) = core
      <4> DEFINE e == "]"
      <4>1. e \in T /\ d = (<<c>> \o core) \o <<e>>
        BY <1>2, <3>5
      <4> HIDE DEF T, e
      <4>2. IsInner(d, c, core, T)
        BY <1>6, <3>1, <4>1, CutInner, Zenon
      <4> QED
        BY <4>2 DEF IsInner
    <3> QED
      BY <1>7, <3>6
  <2>2. ASSUME x.before = <<>>, x.after = <<>>, \A y \in {a, b} : y # <<>> => y[1] \notin {"g", "m"} PROVE s = core
    <3>1. d = (((<<>> \o a) \o b) \o <<"t">>) \o <<>>
      BY <2>2, Zenon DEF DescText
    <3>2. <<>> \o a = a
      <4> HIDE DEF a, T
      <4> QED
        BY <1>1
    <3>3. core \o <<>> = core
      <4> HIDE DEF core, T
      <4> QED
        BY <1>6
    <3>4. d = core
      <4> HIDE DEF d
      <4> QED
        BY <3>1, <3>2, <3>3
    <3>5. core # <<>> /\ core[1] \notin {"g", "m"}
      <4>1. Len(ab) = Len(a) + Len(b) /\ Len(core) = Len(ab) + 1 /\ Len(a) \in Nat /\ Len(b) \in Nat
        <5>1. Len(<<"t">>) = 1
          OBVIOUS
        <5>2. Len(core) = Len(ab) + Len(<<"t">>)
          BY <1>5 DEF IsJoined
        <5> QED
          BY <1>1, <1>4, <5>1, <5>2 DEF IsJoined
      <4>2. \A i \in 1 .. Len(a) : ab[i] = a[i]
        BY <1>4 DEF IsJoined
      <4>3. \A i \in 1 .. Len(b) : ab[Len(a) + i] = b[i]
        BY <1>4 DEF IsJoined
      <4>4. \A i \in 1 .. Len(ab) : core[i] = ab[i]
        BY <1>5 DEF IsJoined
      <4>5. \A i \in 1 .. 1 : core[Len(ab) + i] = <<"t">>[i]
        <5>1. Len(<<"t">>) = 1
          OBVIOUS
        <5> QED
          BY <1>5, <5>1 DEF IsJoined
      <4>0. a \in Seq(T) /\ b \in Seq(T)
            /\ (a # <<>> => a[1] \notin {"g", "m"}) /\ (b # <<>> => b[1] \notin {"g", "m"})
        BY <1>1, <2>2
      <4>9. <<"t">>[1] = "t"
        OBVIOUS
      <4> HIDE DEF core, ab, a, b, T
      <4>6. CASE a # <<>>
        <5>1. Len(a) >= 1
          BY <4>0, <4>6
        <5>2. core[1] = a[1]
          BY <4>1, <4>2, <4>4, <5>1
        <5> QED
          BY <1>6, <4>0, <4>1, <4>6, <5>1, <5>2
      <4>7. CASE a = <<>> /\ b # <<>>
        <5>1. Len(b) >= 1 /\ Len(a) = 0
          BY <4>0, <4>7
        <5>2. core[1] = b[1]
          BY <4>1, <4>3, <4>4, <5>1
        <5> QED
          BY <1>6, <4>0, <4>1, <4>7, <5>1, <5>2
      <4>8. CASE a = <<>> /\ b = <<>>
        <5>1. Len(b) = 0 /\ Len(a) = 0
          BY <4>8
        <5>2. core[1] = "t"
          BY <4>1, <4>5, <4>9, <5>1
        <5> QED
          BY <1>6, <4>1, <5>1, <5>2
      <4> QED
        BY <4>6, <4>7, <4>8
    <3> QED
      BY <1>6, <1>7, <3>4, <3>5
  <2> QED
    BY <1>1, <2>1, <2>2
<1>10. From(d) = r
  <2> HIDE DEF s, r, core, d
  <2> QED
    BY <1>3, <1>8, <1>9, Zenon DEF NamesApart
<1> QED
  BY <1>10

(***************************************************************************)
(* Numbers that are read                                                   *)
(***************************************************************************)

Digits10 == {"0", "1", "2", "3", "4", "5", "6", "7", "8", "9"}

\* The digits are those of the ten numbers below ten.
LEMMA DigitIs ==
  /\ DOMAIN Digit = Digits10
  /\ \A c \in Digits10 : Digit[c] \in 0 .. 9
  /\ \A n \in 0 .. 9 : \E c \in Digits10 : Digit[c] = n
<1> DEFINE w == <<"0", "1", "2", "3", "4", "5", "6", "7", "8", "9">>
           at(c) == CHOOSE n \in 0 .. 9 : w[n + 1] = c
<1>1. Digit = [c \in Digits10 |-> at(c)]
  BY Zenon DEF Digit, Digits10
<1>2. \A n \in 0 .. 9 : w[n + 1] \in Digits10
  BY DEF Digits10
<1>3. \A c \in Digits10 : \E n \in 0 .. 9 : w[n + 1] = c
  <2>1. w[0 + 1] = "0" /\ w[1 + 1] = "1" /\ w[2 + 1] = "2" /\ w[3 + 1] = "3" /\ w[4 + 1] = "4"
        /\ w[5 + 1] = "5" /\ w[6 + 1] = "6" /\ w[7 + 1] = "7" /\ w[8 + 1] = "8" /\ w[9 + 1] = "9"
    OBVIOUS
  <2>2. {0, 1, 2, 3, 4, 5, 6, 7, 8, 9} \subseteq 0 .. 9
    OBVIOUS
  <2> HIDE DEF w
  <2> QED
    BY <2>1, <2>2 DEF Digits10
<1>4. \A m, n \in 0 .. 9 : w[m + 1] = w[n + 1] => m = n
  OBVIOUS
<1> HIDE DEF w
<1>5. \A c \in Digits10 : at(c) \in 0 .. 9 /\ w[at(c) + 1] = c
  BY <1>3
<1>6. \A n \in 0 .. 9 : at(w[n + 1]) = n
  BY <1>2, <1>4, <1>5
<1> HIDE DEF at
<1>7. DOMAIN Digit = Digits10 /\ \A c \in Digits10 : Digit[c] = at(c)
  BY <1>1
<1> QED
  BY <1>2, <1>5, <1>6, <1>7

\* A digit is no blank and no sign, and its code is as far from that of '0'.
LEMMA DigitApart ==
  ASSUME NEW c \in Digits10
  PROVE  c \notin Blank /\ c \notin {"+", "-"} /\ FromZero(c) = Digit[c]
<1>1. c \notin Blank /\ c \notin {"+", "-"} /\ c \notin {".", ",", "/", "\"", " ", "\t"}
  BY DEF Digits10, Blank
<1>2. c \in DOMAIN Digit
  BY DigitIs
<1> QED
  BY <1>1, <1>2 DEF FromZero

\* v[i] is what the first i digits of s are, and k what all of them are.
Reads(v, s, k) ==
  /\ v \in [0 .. Len(s) -> 0 .. k] /\ v[0] = 0 /\ v[Len(s)] = k
  /\ \A i \in 1 .. Len(s) : v[i] = v[i - 1] * 10 + Digit[s[i]]
IsNumeral(s, k) == s \in Seq(Digits10) /\ s # <<>> /\ \E v : Reads(v, s, k)

\* The digit that stands for k
LastDigit(k) == CHOOSE c \in DOMAIN Digit : Digit[c] = k % 10

\* There is such a digit.
LEMMA LastDigitIs ==
  ASSUME NEW k \in Nat
  PROVE  LastDigit(k) \in Digits10 /\ Digit[LastDigit(k)] = k % 10
<1>1. k % 10 \in 0 .. 9
  OBVIOUS
<1>2. \E c \in Digits10 : Digit[c] = k % 10
  BY <1>1, DigitIs
<1> QED
  BY <1>2, DigitIs DEF LastDigit

\* A number of one digit
LEMMA OneDigit == ASSUME NEW k \in 0 .. 9 PROVE IsNumeral(<<LastDigit(k)>>, k)
<1> DEFINE c == LastDigit(k)
           s == <<c>>
           v == [i \in 0 .. 1 |-> IF i = 0 THEN 0 ELSE k]
<1>1. c \in Digits10 /\ Digit[c] = k
  BY LastDigitIs
<1> HIDE DEF c
<1>2. s \in Seq(Digits10) /\ s # <<>> /\ Len(s) = 1 /\ s[1] = c
  BY <1>1
<1>3. v \in [0 .. 1 -> 0 .. k] /\ v[0] = 0 /\ v[1] = k
  OBVIOUS
<1> HIDE DEF s, v
<1>4. \A i \in 1 .. 1 : v[i] = v[i - 1] * 10 + Digit[s[i]]
  BY <1>1, <1>2, <1>3
<1>5. Reads(v, s, k)
  BY <1>2, <1>3, <1>4 DEF Reads
<1> QED
  BY <1>2, <1>5 DEF IsNumeral, s, c

\* A number with one digit more
LEMMA NextDigit ==
  ASSUME NEW k \in Nat, k >= 10, NEW r, IsNumeral(r, k \div 10)
  PROVE  IsNumeral(Append(r, LastDigit(k)), k)
<1> DEFINE c == LastDigit(k)
           j == k \div 10
           d == k % 10
           s == Append(r, c)
           n == Len(r)
<1>1. c \in Digits10 /\ Digit[c] = d
  BY LastDigitIs
<1>2. j \in Nat /\ d \in 0 .. 9 /\ k = j * 10 + d /\ j <= k
  OBVIOUS
<1> HIDE DEF c, d, j
<1>3. r \in Seq(Digits10) /\ n \in Nat
  BY DEF IsNumeral, j
<1>4. PICK u : Reads(u, r, j)
  BY DEF IsNumeral, j
<1>5. s \in Seq(Digits10) /\ s # <<>> /\ Len(s) = n + 1 /\ s[n + 1] = c /\ \A i \in 1 .. n : s[i] = r[i]
  BY <1>1, <1>3
<1> HIDE DEF s
<1> DEFINE v == [i \in 0 .. n + 1 |-> IF i = n + 1 THEN k ELSE u[i]]
<1>6. u \in [0 .. n -> 0 .. j] /\ u[0] = 0 /\ u[n] = j /\ \A i \in 1 .. n : u[i] = u[i - 1] * 10 + Digit[r[i]]
  BY <1>4 DEF Reads
<1> HIDE DEF n
<1>7. v[n + 1] = k /\ \A i \in 0 .. n : v[i] = u[i]
  BY <1>3
<1>8. v \in [0 .. n + 1 -> 0 .. k]
  <2>1. \A i \in 0 .. n : u[i] \in 0 .. k
    BY <1>2, <1>6
  <2> QED
    BY <1>2, <1>3, <2>1
<1> HIDE DEF v
<1>9. ASSUME NEW i \in 1 .. n + 1 PROVE v[i] = v[i - 1] * 10 + Digit[s[i]]
  <2>1. CASE i = n + 1
    <3>1. i - 1 = n /\ n \in 0 .. n
      BY <1>3, <2>1
    <3>2. v[i] = k /\ v[i - 1] = j /\ s[i] = c
      BY <1>5, <1>6, <1>7, <2>1, <3>1
    <3> QED
      BY <1>1, <1>2, <3>2
  <2>2. CASE i # n + 1
    <3>1. i \in 1 .. n /\ i \in 0 .. n /\ i - 1 \in 0 .. n
      BY <1>3, <2>2
    <3>2. v[i] = u[i] /\ v[i - 1] = u[i - 1] /\ s[i] = r[i]
      BY <1>5, <1>7, <3>1
    <3> QED
      BY <1>6, <3>1, <3>2
  <2> QED
    BY <2>1, <2>2
<1>10. v[0] = 0
  BY <1>3, <1>6, <1>7
<1>11. Reads(v, s, k)
  BY <1>5, <1>7, <1>8, <1>9, <1>10, Zenon DEF Reads
<1> QED
  BY <1>5, <1>11 DEF IsNumeral, s, c

\* f[k] is the numeral of k, made from that of k \div 10.
Numeral(f, k) == IF k < 10 THEN <<LastDigit(k)>> ELSE Append(f[k \div 10], LastDigit(k))

\* There are numerals, up to any number.
LEMMA NumeralsExist ==
  ASSUME NEW n \in Nat
  PROVE  \E f : f = [k \in 0 .. n |-> Numeral(f, k)]
<1> DEFINE Ok(f, m) == f = [k \in 0 .. m |-> f[k]] /\ \A k \in 0 .. m : f[k] = Numeral(f, k)
           Q == {m \in 0 .. n : \E f : Ok(f, m)}
<1>0. \A m \in Nat : \A k \in 0 .. m : k >= 10 => k \div 10 \in 0 .. m /\ k \div 10 < k
  OBVIOUS
<1>1. 0 \in Q
  <2> DEFINE f == [k \in 0 .. 0 |-> <<LastDigit(0)>>]
  <2>1. f = [k \in 0 .. 0 |-> f[k]] /\ f[0] = <<LastDigit(0)>>
    OBVIOUS
  <2> HIDE DEF f
  <2>2. \A k \in 0 .. 0 : f[k] = Numeral(f, k)
    BY <2>1 DEF Numeral
  <2> QED
    BY <2>1, <2>2
<1>2. ASSUME NEW m \in 1 .. n, m - 1 \in Q PROVE m \in Q
  <2> DEFINE j == m - 1
  <2>0. j \in Nat /\ m \in Nat /\ m = j + 1
    BY <1>2
  <2>1. PICK f : Ok(f, j)
    BY <1>2
  <2> DEFINE new == Numeral(f, m)
             h == [k \in 0 .. m |-> IF k = m THEN new ELSE f[k]]
  <2> HIDE DEF new, j
  <2>2. h = [k \in 0 .. m |-> h[k]] /\ h[m] = new /\ \A k \in 0 .. j : h[k] = f[k]
    BY <2>0
  <2> HIDE DEF h
  <2>3. ASSUME NEW k \in 0 .. m PROVE Numeral(h, k) = Numeral(f, k)
    <3>1. CASE k < 10
      BY <3>1 DEF Numeral
    <3>2. CASE ~(k < 10)
      <4> DEFINE e == k \div 10
      <4>1. e \in 0 .. j
        BY <1>0, <2>0, <3>2
      <4> HIDE DEF e
      <4>2. h[e] = f[e]
        BY <2>2, <4>1
      <4> QED
        BY <3>2, <4>2, Zenon DEF Numeral, e
    <3> QED
      BY <3>1, <3>2
  <2>4. ASSUME NEW k \in 0 .. m PROVE h[k] = Numeral(h, k)
    <3>1. CASE k = m
      BY <2>2, <2>3, <3>1 DEF new
    <3>2. CASE k # m
      <4>1. k \in 0 .. j
        BY <2>0, <3>2
      <4> QED
        BY <2>1, <2>2, <2>3, <4>1
    <3> QED
      BY <3>1, <3>2
  <2>5. Ok(h, m)
    BY <2>2, <2>4
  <2> HIDE DEF Ok
  <2> QED
    BY <2>5
<1> HIDE DEF Q
<1>3. n \in Q
  <2>1. 0 .. n \subseteq Q
    BY <1>1, <1>2, Onward, Zenon
  <2> QED
    BY <2>1
<1>4. PICK f : Ok(f, n)
  BY <1>3 DEF Q
<1>5. f = [k \in 0 .. n |-> Numeral(f, k)]
  <2> SUFFICES f = [k \in 0 .. n |-> f[k]]
    BY <1>4, Zenon
  <2> QED
    BY <1>4
<1> QED
  BY <1>5

\* The text of a number is its numeral.
LEMMA DigitsAre ==
  ASSUME NEW n \in Nat
  PROVE  IsNumeral(DigitsOf(n), n)
<1> DEFINE Ok(f) == f = [k \in 0 .. n |-> LET d == CHOOSE c \in DOMAIN Digit : Digit[c] = k % 10
                                          IN IF k < 10 THEN <<d>> ELSE Append(f[k \div 10], d)]
           h == CHOOSE f : Ok(f)
           A == {k \in 0 .. n : ~IsNumeral(h[k], k)}
<1>1. DigitsOf(n) = h[n]
  BY Zenon DEF DigitsOf
<1>2. \E f : Ok(f)
  <2>1. PICK f : f = [k \in 0 .. n |-> Numeral(f, k)]
    BY NumeralsExist
  <2>2. Ok(f)
    BY <2>1, Zenon DEF Numeral, LastDigit
  <2> QED
    BY <2>2
<1>3. Ok(h)
  BY <1>2
<1> HIDE DEF h
<1>4. \A k \in 0 .. n : h[k] = Numeral(h, k)
  BY <1>3, Zenon DEF Numeral, LastDigit
<1> HIDE DEF Ok
<1>5. A = {}
  <2> SUFFICES ASSUME A # {} PROVE FALSE
    OBVIOUS
  <2>1. PICK k \in A : \A j \in A : k <= j
    <3>1. A \in SUBSET Nat
      OBVIOUS
    <3> HIDE DEF A
    <3> QED
      BY <3>1, LeastNumber
  <2>2. k \in 0 .. n /\ ~IsNumeral(h[k], k) /\ k \in Nat
    BY <2>1
  <2>3. CASE k < 10
    <3>1. k \in 0 .. 9
      BY <2>2, <2>3
    <3>2. h[k] = <<LastDigit(k)>>
      BY <1>4, <2>2, <2>3 DEF Numeral
    <3> QED
      BY <2>2, <3>1, <3>2, OneDigit
  <2>4. CASE k >= 10
    <3> DEFINE j == k \div 10
    <3>1. j \in 0 .. n /\ ~(k <= j)
      BY <2>2, <2>4
    <3> HIDE DEF j
    <3>2. IsNumeral(h[j], j)
      BY <2>1, <3>1
    <3>3. h[k] = Append(h[j], LastDigit(k))
      <4>1. ~(k < 10)
        BY <2>2, <2>4
      <4> QED
        BY <1>4, <2>2, <4>1, Zenon DEF Numeral, j
    <3>4. IsNumeral(Append(h[j], LastDigit(k)), k)
      BY <2>2, <2>4, <3>2, NextDigit DEF j
    <3> QED
      BY <2>2, <3>3, <3>4
  <2> QED
    BY <2>2, <2>3, <2>4
<1>6. n \in 0 .. n
  OBVIOUS
<1> QED
  BY <1>1, <1>5, <1>6

\* A type has that many values, with or without a sign.
IsType(T) == T.mod \in Nat /\ T.mod >= 256 /\ T.mod % 2 = 0 /\ T.signed \in BOOLEAN

\* What is no more than a number of the type is a number of the type.
LEMMA WrappedBelow ==
  ASSUME NEW T, IsType(T), NEW k \in Nat, k = Wrapped(k, T), NEW i \in 0 .. k
  PROVE  Wrapped(i, T) = i
<1> DEFINE m == T.mod
           r == k % m
           half == m \div 2
<1>1. m \in Nat /\ m >= 256 /\ half \in Nat /\ half < m
  BY DEF IsType
<1>2. r \in 0 .. m - 1
  BY <1>1, Divided
<1>3. k = IF T.signed /\ r >= half THEN r - m ELSE r
  BY DEF Wrapped
<1> HIDE DEF r, half, m
<1>4. k = r /\ ~(T.signed /\ r >= half)
  BY <1>1, <1>2, <1>3
<1>5. i \in 0 .. m - 1 /\ ~(T.signed /\ i >= half)
  BY <1>1, <1>2, <1>4
<1>6. i % m = i
  BY <1>1, <1>5, RestOfSmall
<1>7. Wrapped(i, T) = IF T.signed /\ i % m >= half THEN (i % m) - m ELSE i % m
  BY DEF Wrapped, half, m
<1> QED
  BY <1>5, <1>6, <1>7

\* Digits count, and what can stop them does not.
LEMMA StopsAt ==
  ASSUME NEW T, IsType(T), NEW c
  PROVE  /\ c \in Digits10 => ~(Wrapped(FromZero(c), T) >= 10)
         /\ c \notin Digits10 /\ (T.signed => FromZero(c) >= 10) => Wrapped(FromZero(c), T) >= 10
<1> DEFINE m == T.mod
           half == m \div 2
           z == FromZero(c)
           r == z % m
<1>1. m \in Nat /\ m >= 256 /\ half \in Nat /\ half >= 128 /\ half < m
  BY DEF IsType
<1>2. Wrapped(z, T) = IF T.signed /\ r >= half THEN r - m ELSE r
  BY DEF Wrapped
<1>3. ASSUME c \in Digits10 PROVE ~(Wrapped(z, T) >= 10)
  <2>1. z \in 0 .. 9
    BY <1>3, DigitIs, DigitApart
  <2> HIDE DEF z, m, half
  <2>2. r = z
    BY <1>1, <2>1, RestOfSmall
  <2> HIDE DEF r
  <2> QED
    BY <1>1, <1>2, <2>1, <2>2
<1>4. ASSUME c \notin Digits10, T.signed => z >= 10 PROVE Wrapped(z, T) >= 10
  <2>1. z \in {-1, -2, -3, -4, -5, -14, -16, -39, 10}
    <3>1. c \notin DOMAIN Digit
      BY <1>4, DigitIs
    <3> QED
      BY <3>1 DEF FromZero
  <2> HIDE DEF z, half, m
  <2>2. CASE z = 10
    <3>1. r = 10
      BY <1>1, <2>2, RestOfSmall
    <3> HIDE DEF r
    <3> QED
      BY <1>1, <1>2, <3>1
  <2>3. CASE z # 10
    <3>1. ~T.signed
      BY <1>4, <2>1, <2>3
    <3>2. r = z + m
      <4> DEFINE y == z + m
      <4>1. y \in 0 .. m - 1 /\ m * (-1) + y = z /\ -1 \in Int
        BY <1>1, <2>1, <2>3
      <4> HIDE DEF y
      <4>2. (m * (-1) + y) % m = y
        BY <1>1, <4>1, OneRest
      <4> QED
        BY <4>1, <4>2 DEF y
    <3> HIDE DEF r
    <3> QED
      BY <1>1, <1>2, <2>1, <2>3, <3>1, <3>2
  <2> QED
    BY <2>2, <2>3
<1> QED
  BY <1>3, <1>4 DEF z

\* s is a numeral of k, behind which nothing stands that could belong to it.
Ends10(s, d, t, T) ==
  /\ Len(s) = Len(d) + Len(t) /\ Len(s) \in Nat /\ Len(d) \in Nat /\ Len(d) >= 1
  /\ \A i \in 1 .. Len(d) : s[i] = d[i] /\ d[i] \in Digits10
  /\ Len(s) > Len(d) => s[Len(d) + 1] \notin Digits10 /\ (T.signed => FromZero(s[Len(d) + 1]) >= 10)

\* It is read to its end.
LEMMA DigitsEnd ==
  ASSUME NEW T, IsType(T), NEW s, NEW d, NEW t, Ends10(s, d, t, T), Len(t) \in Nat
  PROVE  Digits(s, T) = Len(d)
<1> DEFINE n == Len(s)
           m == Len(d)
           A == {i \in 0 .. n - 1 : Wrapped(FromZero(s[i + 1]), T) >= 10} \cup {n}
<1>1. n \in Nat /\ m \in Nat /\ m <= n /\ m >= 1
  BY DEF Ends10
<1>2. Digits(s, T) = Min(A)
  BY DEF Digits
<1>3. m \in A
  <2>1. CASE n > m
    <3>1. Wrapped(FromZero(s[m + 1]), T) >= 10
      BY <2>1, StopsAt DEF Ends10
    <3> QED
      BY <1>1, <2>1, <3>1
  <2>2. CASE n = m
    BY <2>2
  <2> QED
    BY <1>1, <2>1, <2>2
<1>4. \A i \in A : m <= i
  <2> SUFFICES ASSUME NEW i \in A, ~(m <= i) PROVE FALSE
    OBVIOUS
  <2> DEFINE j == i + 1
  <2>1. i \in 0 .. n - 1 /\ j \in 1 .. m /\ Wrapped(FromZero(s[j]), T) >= 10
    BY <1>1
  <2> HIDE DEF j
  <2>2. s[j] \in Digits10
    BY <2>1 DEF Ends10
  <2> QED
    BY <2>1, <2>2, StopsAt
<1>5. A \in SUBSET (0 .. n)
  BY <1>1
<1> HIDE DEF A
<1> DEFINE l == Min(A)
<1>6. l \in A /\ \A i \in A : l <= i
  BY <1>1, <1>3, <1>5, MinMaxOf
<1> HIDE DEF l
<1>7. l = m
  <2>1. l \in 0 .. n /\ m \in 0 .. n /\ l <= m /\ m <= l
    BY <1>3, <1>4, <1>5, <1>6
  <2> QED
    BY <1>1, <2>1
<1> QED
  BY <1>2, <1>7 DEF l

\* extract_dcm gives the number whose numeral it is.
LEMMA DcmIs ==
  ASSUME NEW T, IsType(T), NEW s, NEW d, NEW t, NEW k \in Nat, Ends10(s, d, t, T), Len(t) \in Nat,
         IsNumeral(d, k), k = Wrapped(k, T), s # <<>>
  PROVE  Dcm(s, T) # None /\ Dcm(s, T).it.val = k
<1> DEFINE n == Digits(s, T)
           Ok(f) == f = [i \in 0 .. n |-> IF i = 0 THEN 0 ELSE Wrapped(f[i - 1] * 10 + FromZero(s[i]), T)]
           h == CHOOSE f : Ok(f)
<1>1. Dcm(s, T) = Some([val |-> h[n], rest |-> Cut(s, n, Len(s))])
  BY Zenon DEF Dcm
<1>2. n = Len(d) /\ n \in Nat /\ \A i \in 1 .. n : s[i] = d[i] /\ d[i] \in Digits10
  BY DigitsEnd DEF Ends10
<1>3. PICK v : Reads(v, d, k)
  BY DEF IsNumeral
<1> HIDE DEF n
<1>4. v \in [0 .. n -> 0 .. k] /\ v[0] = 0 /\ v[n] = k /\ \A i \in 1 .. n : v[i] = v[i - 1] * 10 + Digit[d[i]]
  BY <1>2, <1>3 DEF Reads
<1>5. \A i \in 0 .. n : v[i] = IF i = 0 THEN 0 ELSE Wrapped(v[i - 1] * 10 + FromZero(s[i]), T)
  <2> SUFFICES ASSUME NEW i \in 1 .. n PROVE v[i] = Wrapped(v[i - 1] * 10 + FromZero(s[i]), T)
    BY <1>2, <1>4
  <2>1. v[i] = v[i - 1] * 10 + FromZero(s[i])
    <3>1. FromZero(d[i]) = Digit[d[i]] /\ s[i] = d[i]
      BY <1>2, DigitApart
    <3> QED
      BY <1>4, <3>1
  <2>2. v[i] \in 0 .. k
    BY <1>2, <1>4
  <2>3. Wrapped(v[i], T) = v[i]
    BY <2>2, WrappedBelow
  <2> QED
    BY <2>1, <2>3
<1>6. Ok(v)
  <2>1. v = [i \in 0 .. n |-> v[i]]
    BY <1>4
  <2> QED
    BY <1>5, <2>1, Zenon
<1>7. Ok(h)
  BY <1>6, Zenon
<1> HIDE DEF h
<1>8. \A i \in 0 .. n : h[i] = IF i = 0 THEN 0 ELSE Wrapped(h[i - 1] * 10 + FromZero(s[i]), T)
  BY <1>7, Zenon
<1> HIDE DEF Ok
<1>9. h[0] = v[0]
  <2>1. 0 \in 0 .. n
    BY <1>2
  <2> QED
    BY <1>5, <1>8, <2>1, Zenon
<1>10. ASSUME NEW i \in 1 .. n, h[i - 1] = v[i - 1] PROVE h[i] = v[i]
  <2>1. i \in 0 .. n /\ i # 0
    BY <1>2
  <2> QED
    BY <1>5, <1>8, <1>10, <2>1, Zenon
<1>11. Same(h, v, n)
  BY <1>2, <1>9, <1>10, RunsMeet, Zenon
<1>12. h[n] = k
  <2>1. n \in 0 .. n
    BY <1>2
  <2> QED
    BY <1>4, <1>11, <2>1 DEF Same
<1> QED
  BY <1>1, <1>12 DEF Some, None

\* The blanks at the start are passed.
LEMMA UnblankedAt ==
  ASSUME NEW T, NEW s \in Seq(T), NEW q \in 1 .. Len(s), s[q] \notin Blank, \A i \in 1 .. q - 1 : s[i] \in Blank
  PROVE  Unblanked(s) = SubSeq(s, q, Len(s))
<1> DEFINE n == Len(s)
           A == {i \in DOMAIN s : s[i] \notin Blank}
<1>1. n \in Nat /\ DOMAIN s = 1 .. n
  OBVIOUS
<1>2. q \in A /\ A \in SUBSET (0 .. n) /\ A # {}
  BY <1>1
<1>3. \A i \in A : q <= i
  BY <1>1
<1>4. Unblanked(s) = SubSeq(s, Min(A), n)
  BY <1>2 DEF Unblanked
<1>5. q \in 0 .. n
  BY <1>1
<1> HIDE DEF A, n
<1> DEFINE l == Min(A)
<1>6. l \in A /\ \A i \in A : l <= i
  BY <1>1, <1>2, MinMaxOf
<1> HIDE DEF l
<1>7. l = q
  <2>1. l \in 0 .. n /\ l <= q /\ q <= l
    BY <1>2, <1>3, <1>6
  <2> QED
    BY <1>1, <1>5, <2>1
<1> QED
  BY <1>4, <1>7 DEF l, n

\* What is behind the first item of the end of a text
LEMMA TailOfEnd ==
  ASSUME NEW T, NEW s \in Seq(T), NEW q \in 1 .. Len(s)
  PROVE  /\ SubSeq(s, q, Len(s)) # <<>> /\ Head(SubSeq(s, q, Len(s))) = s[q]
         /\ Tail(SubSeq(s, q, Len(s))) = SubSeq(s, q + 1, Len(s))
<1> DEFINE n == Len(s)
           w == SubSeq(s, q, n)
           m == (n - q) + 1
           z == SubSeq(s, q + 1, n)
<1>1. n \in Nat /\ q \in 1 .. n
  OBVIOUS
<1>2. w \in Seq(T) /\ Len(w) = m /\ m \in Nat /\ m >= 1 /\ \A i \in 1 .. m : w[i] = s[q + i - 1]
  BY <1>1
<1>3. z = [i \in 1 .. m - 1 |-> s[q + i]]
  BY <1>1
<1> HIDE DEF w, z, m
<1>4. w # <<>> /\ Head(w) = w[1]
  BY <1>2
<1>5. Tail(w) = [i \in 1 .. m - 1 |-> w[i + 1]]
  <2>1. w \in Seq(T) /\ w # <<>>
    BY <1>2, <1>4
  <2> DEFINE y == Tail(w)
  <2>2. y \in Seq(T) /\ Len(w) = Len(y) + 1 /\ \A i \in 1 .. Len(y) : y[i] = w[i + 1]
    BY <2>1, TailIs
  <2> HIDE DEF y
  <2>3. Len(y) = m - 1 /\ y = [i \in 1 .. Len(y) |-> y[i]]
    BY <1>2, <2>2
  <2>4. y = [i \in 1 .. m - 1 |-> w[i + 1]]
    BY <2>2, <2>3
  <2> QED
    BY <2>4 DEF y
<1>6. \A i \in 1 .. m - 1 : w[i + 1] = s[q + i]
  <2> SUFFICES ASSUME NEW i \in 1 .. m - 1 PROVE w[i + 1] = s[q + i]
    OBVIOUS
  <2> DEFINE j == i + 1
  <2>1. j \in 1 .. m /\ q + j - 1 = q + i
    BY <1>1, <1>2
  <2> HIDE DEF j
  <2>2. w[j] = s[q + j - 1]
    BY <1>2, <2>1
  <2> QED
    BY <2>1, <2>2 DEF j
<1>7. w[1] = s[q]
  <2>1. 1 \in 1 .. m /\ q + 1 - 1 = q
    BY <1>1, <1>2
  <2> QED
    BY <1>2, <2>1
<1>8. Tail(w) = z
  BY <1>3, <1>5, <1>6
<1> QED
  BY <1>4, <1>7, <1>8 DEF w, z, n

\* What is parsed of a number with blanks and a sign before it is what is
\* behind them.
LEMMA NumberBehind ==
  ASSUME NEW U, NEW a \in Seq(U), NEW c \in Seq(U), c # <<>>, c[1] \in Digits10, NEW T, T.signed \in BOOLEAN,
         \/ \A i \in 1 .. Len(a) : a[i] \in Blank
         \/ /\ T.signed /\ Len(a) > 0 /\ a[Len(a)] \in {"+", "-"}
            /\ \A i \in 1 .. Len(a) - 1 : a[i] \in Blank
  PROVE  ExtractInt(Unblanked(a \o c), T) = Dcm(c, T)
<1> DEFINE s == a \o c
           n == Len(a)
           m == Len(c)
           sign == {"+", "-"}
<1>1. IsJoined(a, c, s, U) /\ n \in Nat /\ m \in Nat /\ m >= 1
  <2>1. IsJoined(a, c, s, U)
    BY Joined
  <2> QED
    BY <2>1
<1>2. /\ s \in Seq(U) /\ Len(s) = n + m /\ SubSeq(s, n + 1, Len(s)) = c
      /\ (\A i \in 1 .. n : s[i] = a[i]) /\ \A i \in 1 .. m : s[n + i] = c[i]
  BY <1>1 DEF IsJoined
<1>3. c[1] \notin Blank /\ c[1] \notin sign /\ Head(c) = c[1]
  BY DigitApart
<1>4. "+" \notin Blank /\ "-" \notin Blank
  BY DEF Blank
<1> HIDE DEF s
<1>5. ASSUME \A i \in 1 .. n : a[i] \in Blank PROVE ExtractInt(Unblanked(s), T) = Dcm(c, T)
  <2> DEFINE q == n + 1
  <2>1. q \in 1 .. Len(s) /\ s[q] = c[1] /\ \A i \in 1 .. q - 1 : s[i] \in Blank
    BY <1>1, <1>2, <1>5
  <2> HIDE DEF q, n
  <2>2. Unblanked(s) = SubSeq(s, q, Len(s))
    BY <1>2, <1>3, <2>1, UnblankedAt
  <2>3. Unblanked(s) = c
    BY <1>2, <2>2 DEF q
  <2>4. Extract(c, sign) = c
    BY <1>3 DEF Extract
  <2> QED
    BY <2>3, <2>4 DEF ExtractInt
<1>6. ASSUME T.signed, n > 0, a[n] \in sign, \A i \in 1 .. n - 1 : a[i] \in Blank
      PROVE  ExtractInt(Unblanked(s), T) = Dcm(c, T)
  <2>0. n \in 1 .. n /\ n \in 1 .. Len(s) /\ \A i \in 1 .. n - 1 : i \in 1 .. n
    BY <1>1, <1>2, <1>6
  <2>1. n \in 1 .. Len(s) /\ s[n] = a[n] /\ s[n] \notin Blank /\ \A i \in 1 .. n - 1 : s[i] \in Blank
    <3>1. s[n] = a[n] /\ \A i \in 1 .. n - 1 : s[i] = a[i]
      BY <1>2, <2>0
    <3>2. s[n] = "+" \/ s[n] = "-"
      BY <1>6, <3>1
    <3> HIDE DEF n
    <3>3. \A i \in 1 .. n - 1 : s[i] \in Blank
      BY <1>6, <3>1
    <3> QED
      BY <1>4, <2>0, <3>1, <3>2, <3>3
  <2> HIDE DEF n, sign
  <2>2. Unblanked(s) = SubSeq(s, n, Len(s))
    BY <1>2, <2>1, UnblankedAt
  <2> DEFINE w == SubSeq(s, n, Len(s))
  <2>3. w # <<>> /\ Head(w) = s[n] /\ Tail(w) = SubSeq(s, n + 1, Len(s))
    BY <1>2, <2>1, TailOfEnd
  <2> HIDE DEF w
  <2>4. Extract(w, sign) = c
    BY <1>2, <1>6, <2>1, <2>3 DEF Extract
  <2>5. Unblanked(s) = w
    BY <2>2 DEF w
  <2> QED
    BY <1>6, <2>4, <2>5 DEF ExtractInt, sign
<1> QED
  BY <1>5, <1>6 DEF s

\* A number that was written is read back.
LEMMA NumberIs ==
  ASSUME NEW x \in Numerals,
         \/ x.tail = <<>>
         \/ x.tail[1] \notin DOMAIN Digit /\ (x.type.signed => FromZero(x.tail[1]) >= 10),
         x.val = Wrapped(x.val, x.type)
  PROVE  ParseInt(NumeralText(x), x.type) = Some(x.val)
<1> DEFINE T == x.type
           k == x.val
           a == x.before
           t == x.tail
           d == DigitsOf(k)
           U == STRING \cup Digits10
           c == d \o t
<1>1. /\ IsType(T) /\ T.signed \in BOOLEAN
      /\ k \in Nat /\ a \in Seq(U) /\ t \in Seq(U)
      /\ \/ \A i \in 1 .. Len(a) : a[i] \in Blank
         \/ /\ T.signed /\ Len(a) > 0 /\ a[Len(a)] \in {"+", "-"}
            /\ \A i \in 1 .. Len(a) - 1 : a[i] \in Blank
  <2>1. \A y \in Seq(STRING) : y \in Seq(U)
    OBVIOUS
  <2> HIDE DEF U
  <2> QED
    BY <2>1, QueriesAssumption DEF NumeralsAssumption, Text, IsType
<1>2. IsNumeral(d, k)
  BY <1>1, DigitsAre
<1> HIDE DEF d
<1>3. d \in Seq(Digits10) /\ d # <<>>
  BY <1>2 DEF IsNumeral
<1>4. d \in Seq(U) /\ Len(d) \in Nat /\ Len(d) >= 1 /\ \A i \in 1 .. Len(d) : d[i] \in Digits10
  BY <1>3
<1>5. NumeralText(x) = a \o c
  <2>1. NumeralText(x) = (a \o d) \o t
    BY DEF NumeralText, d
  <2> HIDE DEF a, t, U
  <2>2. JoinsAll(a, d, t, U)
    BY <1>1, <1>4, JoinAssoc
  <2> QED
    BY <2>1, <2>2 DEF JoinsAll
<1> HIDE DEF a, k, T, U
<1>6. IsJoined(d, t, c, U) /\ Len(t) \in Nat
  BY <1>1, <1>4, Joined
<1>7. /\ c \in Seq(U) /\ Len(c) = Len(d) + Len(t)
      /\ (\A i \in 1 .. Len(d) : c[i] = d[i]) /\ \A i \in 1 .. Len(t) : c[Len(d) + i] = t[i]
  BY <1>6 DEF IsJoined
<1>8. c # <<>> /\ c[1] \in Digits10
  <2>1. 1 \in 1 .. Len(d)
    BY <1>4
  <2>2. c[1] = d[1] /\ Len(c) >= 1
    BY <1>4, <1>6, <1>7, <2>1
  <2> QED
    BY <1>4, <1>7, <2>1, <2>2
<1>9. t # <<>> => t[1] \notin Digits10 /\ (T.signed => FromZero(t[1]) >= 10)
  BY DigitIs DEF T
<1> HIDE DEF c, t
<1>10. Ends10(c, d, t, T)
  <2>1. Len(c) > Len(d) => c[Len(d) + 1] \notin Digits10 /\ (T.signed => FromZero(c[Len(d) + 1]) >= 10)
    <3> SUFFICES ASSUME Len(c) > Len(d) PROVE c[Len(d) + 1] \notin Digits10 /\ (T.signed => FromZero(c[Len(d) + 1]) >= 10)
      OBVIOUS
    <3>1. 1 \in 1 .. Len(t)
      BY <1>4, <1>6, <1>7
    <3>2. c[Len(d) + 1] = t[1] /\ t # <<>>
      BY <1>7, <3>1
    <3> QED
      BY <1>9, <3>2
  <2>2. Len(c) \in Nat /\ \A i \in 1 .. Len(d) : c[i] = d[i] /\ d[i] \in Digits10
    BY <1>4, <1>6, <1>7
  <2> QED
    BY <1>4, <1>7, <2>1, <2>2 DEF Ends10
<1>11. Dcm(c, T) # None /\ Dcm(c, T).it.val = k
  <2>1. k = Wrapped(k, T)
    BY DEF k, T
  <2> QED
    BY <1>1, <1>2, <1>6, <1>8, <1>10, <2>1, DcmIs
<1>12. ExtractInt(Unblanked(a \o c), T) = Dcm(c, T)
  BY <1>1, <1>7, <1>8, NumberBehind
<1>13. ParseInt(a \o c, T) = Some(k)
  BY <1>11, <1>12 DEF ParseInt
<1> QED
  BY <1>5, <1>13 DEF T, k

(***************************************************************************)
(* Queries                                                                 *)
(***************************************************************************)

\* What the vector of a list thinks it has is in its block.
ListFits(mem) ==
  /\ mem \in [len : Nat, res : Nat, real : Nat]
  /\ mem.len <= mem.real /\ mem.len + mem.res <= mem.real

\* What was answered is what the call makes of the input; a list is not asked, it grows.
QueriesInv ==
  \/ /\ input \in [search : Searches] \cup [number : Numerals] \cup [time : Moments]
                    \cup [suite : Suites] \cup [desc : Descs]
     /\ \/ answer = Unasked
        \/ Is("search") /\ answer = Searched(input.search)
        \/ Is("number") /\ answer = ParseInt(NumeralText(input.number), input.number.type)
        \/ Is("time") /\ answer = Moved(input.time)
        \/ Is("suite") /\ answer = Run(input.suite.tests, input.suite.pats)
        \/ Is("desc") /\ answer = From(DescText(input.desc))
  \/ input \in [list : {mem \in [len : Nat, res : Nat, real : Nat] : ListFits(mem)}] /\ answer = Unasked

\* What is asked is an input of one kind.
LEMMA InputIs ==
  ASSUME QueriesInv
  PROVE  /\ Is("search") => input.search \in Searches /\ ~Is("number") /\ ~Is("time") /\ ~Is("suite") /\ ~Is("desc")
         /\ Is("number") => input.number \in Numerals /\ ~Is("time") /\ ~Is("suite") /\ ~Is("desc")
         /\ Is("time") => input.time \in Moments /\ ~Is("suite") /\ ~Is("desc")
         /\ Is("suite") => input.suite \in Suites /\ ~Is("desc")
         /\ Is("desc") => input.desc \in Descs
         /\ Is("list") => ListFits(input.list) /\ answer = Unasked
<1>1. CASE input \in [search : Searches]
  BY <1>1 DEF Is
<1>2. CASE input \in [number : Numerals]
  BY <1>2 DEF Is
<1>3. CASE input \in [time : Moments]
  BY <1>3 DEF Is
<1>4. CASE input \in [suite : Suites]
  BY <1>4 DEF Is
<1>5. CASE input \in [desc : Descs]
  BY <1>5 DEF Is
<1>6. CASE input \in [list : {mem \in [len : Nat, res : Nat, real : Nat] : ListFits(mem)}] /\ answer = Unasked
  BY <1>6 DEF Is
<1> QED
  BY <1>1, <1>2, <1>3, <1>4, <1>5, <1>6 DEF QueriesInv

\* A vector grows to a capacity that has room for one entry more.
LEMMA GrownHasRoom ==
  ASSUME NEW c \in Nat, NEW n \in Nat, n <= c
  PROVE  GrownBy(c, n, Align) \in Nat /\ n + 1 <= GrownBy(c, n, Align)
<1>1. Align \in Nat /\ Align > 0
  BY QueriesAssumption
<1>2. CASE n + 1 <= c
  BY <1>2 DEF GrownBy
<1>3. CASE ~(n + 1 <= c)
  <2> DEFINE more == IF c \div 4 > 1 THEN c \div 4 ELSE 1
             x == c + more + Align - 1
             q == x \div Align
             r == x % Align
  <2>1. more \in Nat /\ more >= 1
    BY Divided
  <2> HIDE DEF more
  <2>2. x \in Int /\ x >= c + Align
    BY <1>1, <2>1
  <2> HIDE DEF x
  <2>3. q \in Int /\ r \in 0 .. Align - 1 /\ x = Align * q + r
    BY <1>1, <2>2, Divided
  <2> HIDE DEF q, r
  <2> DEFINE m == Align * q
  <2>4. m \in Int /\ x = m + r
    BY <1>1, <2>3
  <2> HIDE DEF m
  <2>5. m > c
    BY <1>1, <2>2, <2>3, <2>4
  <2>6. q * Align = m
    BY <1>1, <2>3 DEF m
  <2>7. GrownBy(c, n, Align) = q * Align
    BY <1>3 DEF GrownBy, q, x, more
  <2> QED
    BY <2>4, <2>5, <2>6, <2>7
<1> QED
  BY <1>2, <1>3

\* A push leaves a list whose vector is in its block.
LEMMA PushFits ==
  ASSUME NEW mem, ListFits(mem)
  PROVE  ListFits(Stored(mem, Align, ResMod))
<1> DEFINE n == mem.len
           c == mem.len + mem.res
           d == GrownBy(c, n, Align)
           l == d - (n + 1)
           r == l % ResMod
           b == IF d = c THEN mem.real ELSE d
<1>1. n \in Nat /\ c \in Nat /\ n <= c /\ c <= mem.real /\ mem.real \in Nat
  BY DEF ListFits
<1>2. d \in Nat /\ n + 1 <= d
  BY <1>1, GrownHasRoom
<1>3. Stored(mem, Align, ResMod) = [len |-> n + 1, res |-> r, real |-> b]
  BY DEF Stored
<1> HIDE DEF n, c, d
<1>4. l \in Nat /\ d = l + (n + 1)
  BY <1>1, <1>2
<1>5. b \in Nat /\ d <= b
  BY <1>1, <1>2
<1> HIDE DEF l, b
<1>6. r \in Nat /\ r <= l
  <2> DEFINE q == l \div ResMod
             m == ResMod * q
  <2>1. ResMod \in Nat /\ ResMod > 0
    BY QueriesAssumption
  <2>2. q \in Int /\ r \in 0 .. ResMod - 1 /\ l = ResMod * q + r
    BY <1>4, <2>1, Divided
  <2> HIDE DEF q, r
  <2>3. q >= 0
    <3> SUFFICES ASSUME q <= -1 PROVE FALSE
      BY <2>2
    <3> DEFINE k == -q
    <3>1. k \in Int /\ k >= 1
      BY <2>2
    <3>2. ResMod * q = -(ResMod * k)
      BY <2>1, <2>2
    <3> HIDE DEF k
    <3>3. ResMod * k >= ResMod
      BY <2>1, <3>1, Multiple
    <3> DEFINE j == ResMod * k
    <3>4. j \in Int
      BY <2>1, <3>1
    <3>5. ResMod * q = -j
      BY <3>2
    <3>6. j >= ResMod
      BY <3>3
    <3> HIDE DEF j
    <3>7. l = -j + r
      BY <2>2, <3>5
    <3> QED
      BY <1>4, <2>1, <2>2, <3>4, <3>6, <3>7
  <2>4. m \in Nat
    BY <2>1, <2>2, <2>3
  <2>5. l = m + r
    BY <2>2
  <2> HIDE DEF m
  <2> QED
    BY <1>4, <2>1, <2>2, <2>4, <2>5
<1> HIDE DEF r
<1> QED
  BY <1>1, <1>2, <1>3, <1>4, <1>5, <1>6 DEF ListFits

\* Every call keeps it so.
LEMMA QueriesPreserved == QueriesSpec => []QueriesInv
<1>1. QueriesInit => QueriesInv
  <2>1. ListFits(Fresh)
    BY DEF ListFits, Fresh
  <2>2. Fresh \in [len : Nat, res : Nat, real : Nat]
    BY DEF Fresh
  <2> HIDE DEF ListFits, Fresh
  <2> QED
    BY <2>1, <2>2 DEF QueriesInit, QueriesInv, Queried
<1>2. QueriesInv /\ [QueriesNext]_queryVars => QueriesInv'
  <2> SUFFICES ASSUME QueriesInv, [QueriesNext]_queryVars PROVE QueriesInv'
    OBVIOUS
  <2>1. ASSUME UNCHANGED queryVars PROVE QueriesInv'
    <3>1. input' = input /\ answer' = answer
      BY <2>1 DEF queryVars
    <3> QED
      BY <3>1 DEF QueriesInv, Is
  <2>2. ASSUME Search PROVE QueriesInv'
    <3>1. input' = input /\ Is("search") /\ answer' = Searched(input.search)
      BY <2>2 DEF Search, Ask
    <3> QED
      BY <3>1 DEF QueriesInv, Is
  <2>3. ASSUME ParseNumber PROVE QueriesInv'
    <3>1. input' = input /\ Is("number") /\ answer' = ParseInt(NumeralText(input.number), input.number.type)
      BY <2>3 DEF ParseNumber, Ask
    <3> QED
      BY <3>1 DEF QueriesInv, Is
  <2>4. ASSUME MoveTime PROVE QueriesInv'
    <3>1. input' = input /\ Is("time") /\ answer' = Moved(input.time)
      BY <2>4 DEF MoveTime, Ask
    <3> QED
      BY <3>1 DEF QueriesInv, Is
  <2>5. ASSUME RunSuite PROVE QueriesInv'
    <3>1. input' = input /\ Is("suite") /\ answer' = Run(input.suite.tests, input.suite.pats)
      BY <2>5 DEF RunSuite, Ask
    <3> QED
      BY <3>1 DEF QueriesInv, Is
  <2>6. ASSUME NameTest PROVE QueriesInv'
    <3>1. input' = input /\ Is("desc") /\ answer' = From(DescText(input.desc))
      BY <2>6 DEF NameTest, Ask
    <3> QED
      BY <3>1 DEF QueriesInv, Is
  <2>7. ASSUME PushNode PROVE QueriesInv'
    <3> DEFINE mems == {mem \in [len : Nat, res : Nat, real : Nat] : ListFits(mem)}
               grown == Stored(input.list, Align, ResMod)
    <3>1. Is("list") /\ input' = [input EXCEPT !.list = grown] /\ answer' = answer
      BY <2>7 DEF PushNode
    <3>2. ListFits(input.list) /\ answer = Unasked
      BY <3>1, InputIs
    <3>3. ListFits(grown) /\ grown \in mems
      BY <3>2, PushFits, Zenon DEF ListFits
    <3> HIDE DEF grown
    <3>4. input \in [list : mems]
      BY <3>1 DEF QueriesInv, Is
    <3> HIDE DEF mems
    <3>5. input' \in [list : mems]
      BY <3>1, <3>3, <3>4
    <3> QED
      BY <3>1, <3>2, <3>5 DEF QueriesInv, mems
  <2> QED
    BY <2>1, <2>2, <2>3, <2>4, <2>5, <2>6, <2>7 DEF QueriesNext
<1> QED
  BY <1>1, <1>2, PTL DEF QueriesSpec

\* A text, a character and a test's module are found exactly where they are: the
\* searchers of patterns look at every place and at no other, at both ends too
\* (core/str.h, str.cc), and the command line chooses the tests that the last of
\* the longest masks says, which have the names they were spelled with
\* (test/manager.cc, test.cc).
THEOREM QueriesTextsFound == QueriesSpec => []TextsFound
<1>1. QueriesInv => TextsFound
  <2> SUFFICES ASSUME QueriesInv PROVE TextsFound
    OBVIOUS
  <2>1. SearchesAgree
    <3> SUFFICES ASSUME Answered("search") PROVE FoundRight(input.search.text, input.search.pattern, answer)
      BY Zenon DEF SearchesAgree, FoundRight
    <3>1. input.search \in Searches /\ answer = Searched(input.search)
      BY InputIs DEF QueriesInv, Answered
    <3> QED
      BY <3>1, SearchedRight
  <2>2. ASSUME Answered("suite") PROVE RanRight(input.suite, answer)
    <3>1. input.suite \in Suites /\ answer = Run(input.suite.tests, input.suite.pats)
      BY <2>2, InputIs DEF QueriesInv, Answered
    <3> QED
      BY <3>1, RunIs
  <2>3. ASSUME Answered("desc") PROVE answer = [mod |-> input.desc.mod, name |-> input.desc.name]
    <3>1. input.desc \in Descs /\ answer = From(DescText(input.desc))
      BY <2>3, InputIs DEF QueriesInv, Answered
    <3> QED
      BY <3>1, NamedIs
  <2>4. TestsChosen
    BY <2>2, <2>3, Zenon DEF TestsChosen, RanRight
  <2> QED
    BY <2>1, <2>4 DEF TextsFound
<1> QED
  BY <1>1, QueriesPreserved, PTL

\* A number that is written is read back, up to the highest of its type and with
\* a sign, blanks and other text around it (Parser, core/num.cc), and a time that
\* is moved is as far away as it was moved, past the end of a u64 too, and
\* comes back; milliseconds are rounded (time/duration.cc, instant.cc, system.cc).
\* A list never has more entries than its block has room for, and the vector a
\* push rebuilds of its 16 bits of spare capacity never thinks that the block is
\* larger than it is, whatever the capacity is cut to (List::push, serial/node.cc).
THEOREM QueriesNumbersHold == QueriesSpec => []NumbersHold
<1>1. QueriesInv => NumbersHold
  <2> SUFFICES ASSUME QueriesInv PROVE NumbersHold
    OBVIOUS
  <2>1. NumbersReadBack
    <3> SUFFICES ASSUME Answered("number"),
                        \/ input.number.tail = <<>>
                        \/ /\ input.number.tail[1] \notin DOMAIN Digit
                           /\ (input.number.type.signed => FromZero(input.number.tail[1]) >= 10),
                        input.number.val = Wrapped(input.number.val, input.number.type)
                 PROVE  answer = Some(input.number.val)
      BY Zenon DEF NumbersReadBack
    <3>1. input.number \in Numerals /\ answer = ParseInt(NumeralText(input.number), input.number.type)
      BY InputIs DEF QueriesInv, Answered
    <3> QED
      BY <3>1, NumberIs
  <2>2. TimesAddUp
    <3> SUFFICES ASSUME Answered("time") PROVE MovedRight(input.time, answer)
      BY Zenon DEF TimesAddUp, MovedRight
    <3>1. input.time \in Moments /\ answer = Moved(input.time)
      BY InputIs DEF QueriesInv, Answered
    <3> QED
      BY <3>1, MovedIs
  <2>3. ListsInMemory
    BY InputIs DEF ListsInMemory, ListFits
  <2> QED
    BY <2>1, <2>2, <2>3 DEF NumbersHold
<1> QED
  BY <1>1, QueriesPreserved, PTL
=============================================================================
