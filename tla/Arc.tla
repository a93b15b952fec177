-------------------------------- MODULE Arc --------------------------------
(***************************************************************************)
(* One ArcInner allocation of src/sfc/sync/arc.h and the Arc and Weak      *)
(* objects that point to it.                                               *)
(*                                                                         *)
(* Every handle is an object of its own, living in a thread of its own:    *)
(* its destructor runs step by step (one step per access to the shared     *)
(* counters, to the data or to the block) and interleaves with what every  *)
(* other handle does.  All counter accesses of arc.h default to            *)
(* Ordering::SeqCst, except the increment of Weak's copy, whose value is   *)
(* still atomic; an interleaving of atomic steps is what they give.        *)
(***************************************************************************)
EXTENDS Naturals, FiniteSets

CONSTANTS
  Handle,     \* the handle objects of the program
  Modulus,    \* the counters are u32: they count modulo 2^32
  MaxForget   \* bound: how many owners mem::forget may leak

ASSUME HandleAssumption == IsFiniteSet(Handle)
ASSUME ModulusAssumption == Modulus \in Nat \ {0, 1}
ASSUME MaxForgetAssumption == MaxForget \in Nat

VARIABLES
  st,         \* st[h]: the life of handle object h
  strong,     \* ArcInner::_strong
  weak,       \* ArcInner::_weak
  born,       \* has the allocation been made
  drops,      \* how often ArcInner::_data was destroyed
  frees,      \* how often the block was given back to the allocator
  forgot      \* owners leaked by mem::forget

vars == <<st, strong, weak, born, drops, frees, forgot>>

\* "gone": no object here;  "arc", "weak": points to the block;
\* "moved": its Unique was nulled by a move;
\* "destroy": ~Arc saw its decrement reach zero, the data is next;
\* "release": ~Arc holds the last Weak{move(_0)}, its decrement is next;
\* "dealloc": the weak decrement reached zero, the block is next.
State == {"gone", "arc", "weak", "moved", "destroy", "release", "dealloc"}

In(S) == {h \in Handle : st[h] \in S}

Init ==
  /\ st = [h \in Handle |-> "gone"]
  /\ strong = 0
  /\ weak = 0
  /\ born = FALSE
  /\ drops = 0
  /\ frees = 0
  /\ forgot = 0

(***************************************************************************)
(* Faulty forms of the operations below, no part of Next: what each of the *)
(* properties at the end of the module must notice.                        *)
(***************************************************************************)

\* The owner before the last one destroys the value too.
DropArcOffByOne(h) ==
  /\ st[h] = "arc"
  /\ strong' = (strong + Modulus - 1) % Modulus
  /\ st' = [st EXCEPT ![h] = IF strong <= 2 THEN "destroy" ELSE "gone"]
  /\ UNCHANGED <<weak, born, drops, frees, forgot>>

\* The last owner destroys the value and keeps the owners' weak reference.
DropDataKeepsWeak(h) ==
  /\ st[h] = "destroy"
  /\ drops' = drops + 1
  /\ st' = [st EXCEPT ![h] = "gone"]
  /\ UNCHANGED <<strong, weak, born, frees, forgot>>

\* The reference before the last one frees the block too.
DropWeakOffByOne(h) ==
  /\ st[h] \in {"weak", "release"}
  /\ weak' = (weak + Modulus - 1) % Modulus
  /\ st' = [st EXCEPT ![h] = IF weak <= 2 THEN "dealloc" ELSE "gone"]
  /\ UNCHANGED <<strong, born, drops, frees, forgot>>

(***************************************************************************)
(* Construction                                                            *)
(***************************************************************************)

\* Arc(T data): the first owner, both counters 1.
New(h) ==
  /\ ~born
  /\ born' = TRUE
  /\ st' = [st EXCEPT ![h] = "arc"]
  /\ strong' = 1
  /\ weak' = 1
  /\ UNCHANGED <<drops, frees, forgot>>

\* arc.h has no downgrade: the only way to a Weak outside ~Arc is to box an
\* ArcInner{1, 2, data} and adopt it by the constructors from a Unique.
Adopt(h, g) ==
  /\ ~born
  /\ h # g
  /\ born' = TRUE
  /\ st' = [st EXCEPT ![h] = "arc", ![g] = "weak"]
  /\ strong' = 1
  /\ weak' = 2
  /\ UNCHANGED <<drops, frees, forgot>>

\* Arc(const Arc&): the pointer is copied, then _strong.fetch_add(1).
Clone(h, g) ==
  /\ st[h] = "arc"
  /\ st[g] = "gone"
  /\ st' = [st EXCEPT ![g] = "arc"]
  /\ strong' = (strong + 1) % Modulus
  /\ UNCHANGED <<weak, born, drops, frees, forgot>>

\* Weak(const Weak&): _weak.fetch_add(1, Relaxed).
CloneWeak(h, g) ==
  /\ st[h] = "weak"
  /\ st[g] = "gone"
  /\ st' = [st EXCEPT ![g] = "weak"]
  /\ weak' = (weak + 1) % Modulus
  /\ UNCHANGED <<strong, born, drops, frees, forgot>>

\* Arc(Arc&&), Weak(Weak&&): Unique's move nulls the source.
Move(h, g) ==
  /\ st[h] \in {"arc", "weak"}
  /\ st[g] = "gone"
  /\ st' = [st EXCEPT ![g] = st[h], ![h] = "moved"]
  /\ UNCHANGED <<strong, weak, born, drops, frees, forgot>>

\* mem::forget(arc): moved into a Hole whose destructor does nothing.  A
\* boxed closure that captured an Arc ends the same way (see Thread).
Forget(h) ==
  /\ st[h] = "arc"
  /\ forgot < MaxForget
  /\ forgot' = forgot + 1
  /\ st' = [st EXCEPT ![h] = "gone"]
  /\ UNCHANGED <<strong, weak, born, drops, frees>>

(***************************************************************************)
(* Destruction                                                             *)
(***************************************************************************)

\* ~Arc, ~Weak of a moved-from object: the null test returns at once.
DropNull(h) ==
  /\ st[h] = "moved"
  /\ st' = [st EXCEPT ![h] = "gone"]
  /\ UNCHANGED <<strong, weak, born, drops, frees, forgot>>

\* ~Arc: the decrement, and the return unless it saw 1.
DropArc(h) ==
  /\ st[h] = "arc"
  /\ strong' = (strong + Modulus - 1) % Modulus
  /\ st' = [st EXCEPT ![h] = IF strong = 1 THEN "destroy" ELSE "gone"]
  /\ UNCHANGED <<weak, born, drops, frees, forgot>>

\* ~Arc, slow path: mem::drop(_0->_data).
DropData(h) ==
  /\ st[h] = "destroy"
  /\ drops' = drops + 1
  /\ st' = [st EXCEPT ![h] = "release"]
  /\ UNCHANGED <<strong, weak, born, frees, forgot>>

\* ~Weak, of a Weak object or of the temporary (void)Weak{move(_0)} of ~Arc.
DropWeak(h) ==
  /\ st[h] \in {"weak", "release"}
  /\ weak' = (weak + Modulus - 1) % Modulus
  /\ st' = [st EXCEPT ![h] = IF weak = 1 THEN "dealloc" ELSE "gone"]
  /\ UNCHANGED <<strong, born, drops, frees, forgot>>

\* ~Weak: Global::dealloc.
Dealloc(h) ==
  /\ st[h] = "dealloc"
  /\ frees' = frees + 1
  /\ st' = [st EXCEPT ![h] = "gone"]
  /\ UNCHANGED <<strong, weak, born, drops, forgot>>

Next ==
  \/ \E h \in Handle :
       \/ New(h)
       \/ Forget(h)
       \/ DropNull(h)
       \/ DropArc(h)
       \/ DropData(h)
       \/ DropWeak(h)
       \/ Dealloc(h)
  \/ \E h, g \in Handle :
       \/ Adopt(h, g)
       \/ Clone(h, g)
       \/ CloneWeak(h, g)
       \/ Move(h, g)

\* A thread inside a destructor is running code: it takes its next step.
\* Nothing forces the program to begin to destroy a handle.
InDestructor(h) ==
  \/ DropData(h)
  \/ st[h] = "release" /\ DropWeak(h)
  \/ Dealloc(h)

Fairness == \A h \in Handle : WF_vars(InDestructor(h))

Spec == Init /\ [][Next]_vars

FairSpec == Spec /\ Fairness
-----------------------------------------------------------------------------
\* The types of the variables; both ghost counters stop at one.
TypeOK ==
  /\ st \in [Handle -> State]
  /\ strong \in 0 .. Modulus - 1
  /\ weak \in 0 .. Modulus - 1
  /\ born \in BOOLEAN
  /\ drops \in 0 .. 1
  /\ frees \in 0 .. 1
  /\ forgot \in 0 .. MaxForget

\* The counters cannot wrap: there are fewer handles, live or forgotten,
\* than the u32 counters tell apart.  arc.h never checks this.
NoWrap == Cardinality(Handle) + MaxForget + 1 < Modulus

\* The handles counted by _strong, and those counted by _weak one by one (the
\* owners together hold one more weak reference, forgotten ones included).
Owners == In({"arc"})
HoldState == {"weak", "destroy", "release"}
Holders == In(HoldState)
Finishing == In({"destroy", "release", "dealloc"})

\* The counters count: the inductive half of the argument about numbers.
CountersExact ==
  /\ strong = Cardinality(Owners) + forgot
  /\ weak = Cardinality(Holders) + (IF Owners # {} \/ forgot > 0 THEN 1 ELSE 0)

\* How far the destruction has come, told from who is left: the inductive
\* half of the argument about phases.
Phases ==
  /\ ~born => /\ In(State \ {"gone"}) = {}
              /\ forgot = 0 /\ drops = 0 /\ frees = 0
  /\ Owners # {} \/ forgot > 0 => Finishing = {} /\ drops = 0 /\ frees = 0
  /\ \A g, h \in Finishing : g = h
  /\ In({"destroy"}) # {} => drops = 0 /\ frees = 0
  /\ In({"release", "dealloc"}) # {} => drops = 1 /\ frees = 0
  /\ In({"dealloc"}) # {} => Holders = {}
  /\ born /\ Owners = {} /\ forgot = 0 =>
       /\ drops = 0 => In({"destroy"}) # {}
       /\ Holders = {} /\ frees = 0 => In({"dealloc"}) # {}
  /\ frees = 1 => drops = 1 /\ Holders = {} /\ In({"dealloc"}) = {}

\* The inductive invariant: what the counters of the code must mean for its
\* destructors to be right.
IInv == TypeOK /\ CountersExact /\ Phases

\* Whoever holds an Arc may dereference it: the value was not destroyed and
\* the block not freed, whatever the other handles are doing.
OwnersSeeLiveValue ==
  Owners # {} => drops = 0 /\ frees = 0

\* Every step that touches the block, a counter of it or the data (all the
\* destructor steps and every use of a Weak), touches memory not yet freed.
NoTouchAfterFree ==
  In(State \ {"gone", "moved"}) # {} => born /\ frees = 0

\* The value is destroyed once and the block freed once, in that order, by
\* one thread: two destructors never both see their decrement reach zero.
DestroyedOnceThenFreed ==
  /\ frees <= drops
  /\ drops <= 1
  /\ Cardinality(In({"destroy", "release"})) <= 1
  /\ Cardinality(In({"dealloc"})) <= 1

\* When every handle is gone and none was forgotten, the value was destroyed
\* and the block freed: the counters do not leak.
NoLeak ==
  born /\ forgot = 0 /\ In(State \ {"gone", "moved"}) = {} => drops = 1 /\ frees = 1

\* Arc implements SharedOwnership.
Ownership == INSTANCE SharedOwnership WITH
  owners   <- Owners,
  watchers <- In({"weak"}),
  leaked   <- forgot > 0,
  value    <- IF ~born THEN "unborn" ELSE IF drops = 0 THEN "live" ELSE "destroyed",
  block    <- IF ~born THEN "unborn" ELSE IF frees = 0 THEN "held" ELSE "freed"

\* Every step of the counters is a step of SharedOwnership or invisible.
OwnershipSteps == Ownership!Safe

\* Every behaviour of the counters is one SharedOwnership allows, and the
\* destruction and the release of the memory it promises do happen.
ImplementsOwnership == Ownership!Spec
=============================================================================
