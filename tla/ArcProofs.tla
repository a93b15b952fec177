----------------------------- MODULE ArcProofs -----------------------------
(***************************************************************************)
(* Arc for any finite set of handles: the safety invariants and the        *)
(* refinement of SharedOwnership, assuming only that the u32 counters are  *)
(* wide enough for the handles (NoWrap).                                   *)
(***************************************************************************)
EXTENDS Arc, FiniteSetTheorems, TLAPS

\* The handles that f puts in one of the states S.
At(f, S) == {x \in Handle : f[x] \in S}

\* The handles in some states are finitely many, no more than there are
\* handles: the base of every count below.
LEMMA AtFinite ==
  ASSUME NEW f, NEW S
  PROVE  /\ IsFiniteSet(At(f, S))
         /\ Cardinality(At(f, S)) \in Nat
         /\ Cardinality(Handle) \in Nat
         /\ Cardinality(At(f, S)) <= Cardinality(Handle)
<1>1. At(f, S) \in SUBSET Handle
  BY DEF At
<1>2. IsFiniteSet(Handle)
  BY HandleAssumption
<1>3. IsFiniteSet(At(f, S)) /\ Cardinality(At(f, S)) <= Cardinality(Handle)
  BY <1>1, <1>2, FS_Subset
<1> QED
  BY <1>2, <1>3, FS_CardinalityType

\* A count is zero when nobody is there, and one when one handle is alone.
LEMMA AtSmall ==
  ASSUME NEW f, NEW S
  PROVE  /\ Cardinality(At(f, S)) = 0 <=> \A x \in Handle : f[x] \notin S
         /\ Cardinality(At(f, S)) = 1 =>
              \A x, y \in Handle : f[x] \in S /\ f[y] \in S => x = y
<1>1. IsFiniteSet(At(f, S))
  BY AtFinite
<1>2. Cardinality(At(f, S)) = 0 <=> At(f, S) = {}
  BY <1>1, FS_EmptySet
<1>3. Cardinality(At(f, S)) = 1 => \E z : At(f, S) = {z}
  BY <1>1, FS_Singleton
<1> QED
  BY <1>2, <1>3 DEF At

\* f and g put every handle but h in the same state.
SameBut(f, g, h) == \A x \in Handle \ {h} : g[x] = f[x]

\* How the number of handles in S follows a change of the state of h.
CountFollows(f, g, h, S) ==
  /\ f[h] \in S /\ g[h] \notin S =>
       Cardinality(At(g, S)) = Cardinality(At(f, S)) - 1
  /\ f[h] \notin S /\ g[h] \in S =>
       Cardinality(At(g, S)) = Cardinality(At(f, S)) + 1
  /\ (f[h] \in S <=> g[h] \in S) =>
       Cardinality(At(g, S)) = Cardinality(At(f, S))

\* When one handle changes its state, each count changes by that handle only.
LEMMA AtChange ==
  \A f, g, S : \A h \in Handle : SameBut(f, g, h) => CountFollows(f, g, h, S)
<1> SUFFICES ASSUME NEW f, NEW g, NEW S, NEW h \in Handle, SameBut(f, g, h)
             PROVE  CountFollows(f, g, h, S)
  OBVIOUS
<1> USE DEF SameBut
<1>1. IsFiniteSet(At(f, S)) /\ Cardinality(At(f, S)) \in Nat
  BY AtFinite
<1>2. ASSUME f[h] \in S, g[h] \notin S
      PROVE  Cardinality(At(g, S)) = Cardinality(At(f, S)) - 1
  <2>1. At(g, S) = At(f, S) \ {h} /\ h \in At(f, S)
    BY <1>2 DEF At
  <2> QED
    BY <2>1, <1>1, FS_RemoveElement
<1>3. ASSUME f[h] \notin S, g[h] \in S
      PROVE  Cardinality(At(g, S)) = Cardinality(At(f, S)) + 1
  <2>1. At(g, S) = At(f, S) \cup {h} /\ h \notin At(f, S)
    BY <1>3 DEF At
  <2> QED
    BY <2>1, <1>1, FS_AddElement
<1>4. ASSUME f[h] \in S <=> g[h] \in S
      PROVE  Cardinality(At(g, S)) = Cardinality(At(f, S))
  <2>1. At(g, S) = At(f, S)
    BY <1>4 DEF At
  <2> QED
    BY <2>1
<1> QED
  BY <1>2, <1>3, <1>4 DEF CountFollows

-----------------------------------------------------------------------------
\* What the invariant says of the two counters, handle by handle: the form
\* in which the phases use them.
LEMMA CountersTell ==
  ASSUME IInv
  PROVE  /\ strong \in Nat /\ weak \in Nat /\ forgot \in Nat
         /\ Cardinality(Owners) \in Nat /\ Cardinality(Holders) \in Nat
         /\ Cardinality(Owners) <= Cardinality(Handle)
         /\ Cardinality(Holders) <= Cardinality(Handle)
         /\ Cardinality(Handle) \in Nat
         /\ Cardinality(Owners) = 0 <=> Owners = {}
         /\ Cardinality(Holders) = 0 <=> Holders = {}
         /\ Cardinality(Owners) = 1 => \A x, y \in Owners : x = y
         /\ Cardinality(Holders) = 1 => \A x, y \in Holders : x = y
<1>1. Owners = At(st, {"arc"}) /\ Holders = At(st, HoldState)
  BY DEF Owners, Holders, In, At
<1>2. /\ Cardinality(Owners) \in Nat /\ Cardinality(Holders) \in Nat
      /\ Cardinality(Owners) <= Cardinality(Handle)
      /\ Cardinality(Holders) <= Cardinality(Handle)
      /\ Cardinality(Handle) \in Nat
  BY <1>1, AtFinite
<1>3. /\ Cardinality(Owners) = 0 <=> Owners = {}
      /\ Cardinality(Owners) = 1 => \A x, y \in Owners : x = y
  BY <1>1, AtSmall DEF At
<1>4. /\ Cardinality(Holders) = 0 <=> Holders = {}
      /\ Cardinality(Holders) = 1 => \A x, y \in Holders : x = y
  BY <1>1, AtSmall DEF At
<1>5. strong \in Nat /\ weak \in Nat /\ forgot \in Nat
  BY ModulusAssumption, MaxForgetAssumption DEF IInv, TypeOK
<1> QED
  BY <1>2, <1>3, <1>4, <1>5

\* One handle changes its state: the counts of owners and holders follow.
LEMMA CountsFollow ==
  ASSUME NEW h \in Handle, SameBut(st, st', h)
  PROVE  /\ st[h] = "arc" /\ st'[h] # "arc" =>
              Cardinality(Owners)' = Cardinality(Owners) - 1
         /\ st[h] # "arc" /\ st'[h] = "arc" =>
              Cardinality(Owners)' = Cardinality(Owners) + 1
         /\ (st[h] = "arc" <=> st'[h] = "arc") =>
              Cardinality(Owners)' = Cardinality(Owners)
         /\ st[h] \in HoldState /\ st'[h] \notin HoldState =>
              Cardinality(Holders)' = Cardinality(Holders) - 1
         /\ st[h] \notin HoldState /\ st'[h] \in HoldState =>
              Cardinality(Holders)' = Cardinality(Holders) + 1
         /\ (st[h] \in HoldState <=> st'[h] \in HoldState) =>
              Cardinality(Holders)' = Cardinality(Holders)
<1>1. /\ Owners = At(st, {"arc"}) /\ Holders = At(st, HoldState)
      /\ Owners' = At(st', {"arc"}) /\ Holders' = At(st', HoldState)
  BY DEF Owners, Holders, In, At
<1>2. CountFollows(st, st', h, {"arc"}) /\ CountFollows(st, st', h, HoldState)
  BY AtChange
<1> QED
  BY <1>1, <1>2 DEF CountFollows

\* Counting modulo 2^32 is counting, away from the ends of the range.
LEMMA Modular ==
  ASSUME NEW n \in Nat
  PROVE  /\ n + 1 < Modulus => (n + 1) % Modulus = n + 1
         /\ 0 < n /\ n < Modulus => (n + Modulus - 1) % Modulus = n - 1
<1>1. ASSUME n + 1 < Modulus PROVE (n + 1) % Modulus = n + 1
  BY <1>1, ModulusAssumption
<1>2. ASSUME 0 < n, n < Modulus PROVE (n + Modulus - 1) % Modulus = n - 1
  BY <1>2, ModulusAssumption
<1> QED
  BY <1>1, <1>2

-----------------------------------------------------------------------------
\* Initially nothing is allocated.
LEMMA InitIInv == Init => IInv
<1> SUFFICES ASSUME Init PROVE IInv
  OBVIOUS
<1>1. TypeOK
  <2>1. st \in [Handle -> State]
    BY DEF Init, State
  <2>2. 0 \in 0 .. Modulus - 1 /\ 0 \in 0 .. MaxForget
    BY ModulusAssumption, MaxForgetAssumption
  <2> QED
    BY <2>1, 0 \in 0 .. 1, <2>2 DEF Init, TypeOK
<1>2. Owners = {} /\ Holders = {} /\ Cardinality({}) = 0
  <2>1. \A h \in Handle : st[h] = "gone"
    BY DEF Init
  <2>2. Owners = {} /\ Holders = {}
    BY <2>1 DEF Owners, Holders, HoldState, In
  <2> QED
    BY <2>2, FS_EmptySet
<1>3. CountersExact
  BY <1>2 DEF Init, CountersExact
<1>4. Phases
  BY DEF Init, Phases, Owners, Holders, HoldState, Finishing, In, State
<1> QED
  BY <1>1, <1>3, <1>4 DEF IInv

\* Every step keeps the counters exact and the phases in order.
LEMMA NextIInv ==
  ASSUME NoWrap, IInv, [Next]_vars
  PROVE  IInv'
<1>0. /\ strong \in Nat /\ weak \in Nat /\ forgot \in Nat
      /\ Cardinality(Owners) \in Nat /\ Cardinality(Holders) \in Nat
      /\ Cardinality(Owners) <= Cardinality(Handle)
      /\ Cardinality(Holders) <= Cardinality(Handle)
      /\ Cardinality(Handle) \in Nat
      /\ Cardinality(Owners) = 0 <=> Owners = {}
      /\ Cardinality(Holders) = 0 <=> Holders = {}
      /\ Cardinality(Owners) = 1 => \A x, y \in Owners : x = y
      /\ Cardinality(Holders) = 1 => \A x, y \in Holders : x = y
  BY CountersTell
<1> USE <1>0, ModulusAssumption, MaxForgetAssumption
<1>1. ASSUME NEW h \in Handle, New(h) PROVE IInv'
  <2>1. /\ Cardinality(Owners)' = 1 /\ Cardinality(Holders)' = 0
    <3>1. Owners' = {h} /\ Holders' = {}
      BY <1>1 DEF New, IInv, TypeOK, Phases, Owners, Holders, HoldState, In, State
    <3> QED
      BY <3>1, FS_Singleton, FS_EmptySet
  <2>2. TypeOK'
    BY <1>1 DEF New, IInv, TypeOK, State
  <2>3. CountersExact'
    BY <1>1, <2>1 DEF New, IInv, TypeOK, CountersExact, Phases, Owners, In
  <2>4. Phases'
    BY <1>1 DEF New, IInv, TypeOK, Phases, Owners, Holders, HoldState, Finishing, In, State
  <2> QED
    BY <2>2, <2>3, <2>4 DEF IInv
<1>2. ASSUME NEW h \in Handle, Forget(h) PROVE IInv'
  <2>1. /\ Cardinality(Owners)' = Cardinality(Owners) - 1
        /\ Cardinality(Holders)' = Cardinality(Holders)
    <3>1. /\ st[h] = "arc" /\ st'[h] = "gone"
          /\ SameBut(st, st', h)
      BY <1>2 DEF Forget, IInv, TypeOK, SameBut
    <3> QED
      BY <3>1, CountsFollow DEF HoldState
  <2>2. TypeOK'
    BY <1>2 DEF Forget, IInv, TypeOK, State
  <2>3. CountersExact'
    BY <1>2, <2>1 DEF Forget, IInv, TypeOK, CountersExact, Owners, In
  <2>4. Phases'
    BY <1>2 DEF Forget, IInv, TypeOK, Phases, Owners, Holders, HoldState, Finishing, In, State
  <2> QED
    BY <2>2, <2>3, <2>4 DEF IInv
<1>3. ASSUME NEW h \in Handle, DropNull(h) PROVE IInv'
  <2>1. /\ Cardinality(Owners)' = Cardinality(Owners)
        /\ Cardinality(Holders)' = Cardinality(Holders)
    <3>1. /\ st[h] = "moved" /\ st'[h] = "gone"
          /\ SameBut(st, st', h)
      BY <1>3 DEF DropNull, IInv, TypeOK, SameBut
    <3> QED
      BY <3>1, CountsFollow DEF HoldState
  <2>2. CountersExact'
    BY <1>3, <2>1 DEF DropNull, IInv, TypeOK, CountersExact, Owners, In
  <2>3. TypeOK'
    BY <1>3 DEF DropNull, IInv, TypeOK, State
  <2>4. Phases'
    BY <1>3 DEF DropNull, IInv, TypeOK, CountersExact, Phases, Owners, Holders, HoldState, Finishing, In, State
  <2> QED
    BY <2>2, <2>3, <2>4 DEF IInv
<1>4. ASSUME NEW h \in Handle, DropArc(h) PROVE IInv'
  <2>0. /\ 0 < strong /\ strong' = strong - 1
        /\ strong = 1 => Owners = {h} /\ forgot = 0
    <3>1. h \in Owners
      BY <1>4 DEF DropArc, Owners, In
    <3>2. 0 < strong /\ strong < Modulus
      BY <3>1 DEF IInv, TypeOK, CountersExact
    <3>3. strong = 1 => Owners = {h} /\ forgot = 0
      BY <3>1 DEF IInv, CountersExact
    <3> QED
      BY <1>4, <3>2, <3>3, Modular DEF DropArc
  <2>1. /\ Cardinality(Owners)' = Cardinality(Owners) - 1
        /\ Cardinality(Holders)' = Cardinality(Holders) + (IF strong = 1 THEN 1 ELSE 0)
    <3>1. /\ st[h] = "arc" /\ st'[h] = (IF strong = 1 THEN "destroy" ELSE "gone")
          /\ SameBut(st, st', h)
      BY <1>4 DEF DropArc, IInv, TypeOK, SameBut
    <3> QED
      BY <3>1, CountsFollow DEF HoldState
  <2>2. CountersExact'
    <3>1. Cardinality(Owners)' = 0 <=> Owners' = {}
      <4>1. Owners' = At(st', {"arc"})
        BY DEF Owners, In, At
      <4> QED
        BY <4>1, AtSmall DEF At
    <3>2. Owners # {}
      BY <1>4 DEF DropArc, Owners, In
    <3>3. forgot' = forgot /\ weak' = weak /\ strong' = strong - 1
      BY <1>4, <2>0 DEF DropArc
    <3>4. Owners' # {} \/ forgot' > 0 <=> strong # 1
      BY <2>0, <2>1, <3>1, <3>3 DEF IInv, CountersExact
    <3> QED
      BY <2>1, <3>2, <3>3, <3>4 DEF IInv, CountersExact
  <2>3. TypeOK'
    BY <1>4 DEF DropArc, IInv, TypeOK, State
  <2>4. Phases'
    <3>1. CASE strong = 1
      <4>1. /\ Owners = {h} /\ forgot = 0 /\ Finishing = {} /\ drops = 0 /\ frees = 0
            /\ born
        BY <3>1, <2>0, <1>4 DEF DropArc, IInv, Phases, In, State
      <4>2. Owners' = {} /\ In({"destroy"})' = {h} /\ Finishing' = {h} /\ Holders' # {}
        BY <1>4, <3>1, <4>1
           DEF DropArc, IInv, TypeOK, Owners, Holders, HoldState, Finishing, In
      <4>3. In({"release", "dealloc"})' = {} /\ In({"dealloc"})' = {}
        BY <1>4, <3>1, <4>1 DEF DropArc, IInv, TypeOK, Finishing, In
      <4> QED
        BY <1>4, <4>1, <4>2, <4>3 DEF DropArc, Phases
    <3>2. CASE strong # 1
      <4>1. st' = [st EXCEPT ![h] = "gone"] /\ Owners # {} /\ born
        BY <3>2, <1>4 DEF DropArc, IInv, Phases, Owners, In, State
      <4>2. Owners' # {} \/ forgot > 0
        <5>1. strong' = Cardinality(Owners)' + forgot /\ strong' # 0
          BY <1>4, <2>0, <2>2, <3>2 DEF DropArc, CountersExact
        <5> QED
          BY <5>1, FS_EmptySet
      <4>3. Finishing = {} /\ drops = 0 /\ frees = 0
        BY <4>1 DEF IInv, Phases
      <4>4. /\ In({"destroy"})' = {} /\ In({"release", "dealloc"})' = {}
            /\ In({"dealloc"})' = {} /\ Finishing' = {}
        BY <1>4, <4>1, <4>3 DEF IInv, TypeOK, Finishing, In
      <4> QED
        BY <1>4, <4>1, <4>2, <4>3, <4>4 DEF DropArc, Phases
    <3> QED
      BY <3>1, <3>2
  <2> QED
    BY <2>2, <2>3, <2>4 DEF IInv
<1>5. ASSUME NEW h \in Handle, DropData(h) PROVE IInv'
  <2>1. /\ Cardinality(Owners)' = Cardinality(Owners)
        /\ Cardinality(Holders)' = Cardinality(Holders)
    <3>1. /\ st[h] = "destroy" /\ st'[h] = "release"
          /\ SameBut(st, st', h)
      BY <1>5 DEF DropData, IInv, TypeOK, SameBut
    <3> QED
      BY <3>1, CountsFollow DEF HoldState
  <2>2. CountersExact'
    BY <1>5, <2>1 DEF DropData, IInv, TypeOK, CountersExact, Owners, In
  <2>3. TypeOK'
    BY <1>5 DEF DropData, IInv, TypeOK, Phases, In, State
  <2>4. Phases'
    BY <1>5 DEF DropData, IInv, TypeOK, CountersExact, Phases, Owners, Holders, HoldState, Finishing, In, State
  <2> QED
    BY <2>2, <2>3, <2>4 DEF IInv
<1>6. ASSUME NEW h \in Handle, DropWeak(h) PROVE IInv'
  <2>0. /\ 0 < weak /\ weak' = weak - 1
        /\ weak = 1 => Holders = {h} /\ Owners = {} /\ forgot = 0
    <3>1. h \in Holders
      BY <1>6 DEF DropWeak, Holders, HoldState, In
    <3>2. 0 < weak /\ weak < Modulus
      BY <3>1 DEF IInv, TypeOK, CountersExact
    <3>3. weak = 1 => Holders = {h} /\ Owners = {} /\ forgot = 0
      BY <3>1 DEF IInv, CountersExact
    <3> QED
      BY <1>6, <3>2, <3>3, Modular DEF DropWeak
  <2>1. /\ Cardinality(Owners)' = Cardinality(Owners)
        /\ Cardinality(Holders)' = Cardinality(Holders) - 1
    <3>1. /\ st[h] \in {"weak", "release"} /\ st'[h] = (IF weak = 1 THEN "dealloc" ELSE "gone")
          /\ SameBut(st, st', h)
      BY <1>6 DEF DropWeak, IInv, TypeOK, SameBut
    <3> QED
      BY <3>1, CountsFollow DEF HoldState
  <2>2. CountersExact'
    BY <1>6, <2>0, <2>1 DEF DropWeak, IInv, TypeOK, CountersExact, Owners, In
  <2>3. TypeOK'
    BY <1>6 DEF DropWeak, IInv, TypeOK, State
  <2>4. Phases'
    <3>1. CASE weak = 1
      <4>1. /\ st' = [st EXCEPT ![h] = "dealloc"] /\ born
            /\ Holders = {h} /\ Owners = {} /\ forgot = 0
        BY <3>1, <2>0, <1>6 DEF DropWeak, IInv, Phases, In, State
      <4>2. drops = 1 /\ frees = 0 /\ In({"dealloc"}) = {}
        BY <4>1, <1>6 DEF DropWeak, IInv, TypeOK, Phases, Holders, HoldState, In
      <4>3. /\ Owners' = {} /\ Holders' = {} /\ Finishing' = {h}
            /\ In({"dealloc"})' = {h} /\ In({"destroy"})' = {}
        BY <4>1, <4>2 DEF IInv, TypeOK, Owners, Holders, HoldState, Finishing, In
      <4> QED
        BY <1>6, <4>1, <4>2, <4>3 DEF DropWeak, Phases
    <3>2. CASE weak # 1
      <4>1. st' = [st EXCEPT ![h] = "gone"] /\ born
        BY <3>2, <1>6 DEF DropWeak, IInv, Phases, In, State
      <4>2. Owners' = Owners /\ In({"destroy"})' = In({"destroy"})
        BY <4>1, <1>6 DEF DropWeak, IInv, TypeOK, Owners, In
      <4>3. In({"dealloc"})' = {} /\ frees = 0
        BY <4>1, <1>6 DEF DropWeak, IInv, TypeOK, Phases, Holders, HoldState, In
      <4>4. Owners # {} \/ forgot > 0 \/ Holders' # {}
        BY <1>6, <2>2, <2>0, <3>2, <4>2 DEF DropWeak, CountersExact
      <4>5. /\ Finishing' = Finishing \ {h}
            /\ In({"release", "dealloc"})' = In({"release", "dealloc"}) \ {h}
        BY <4>1 DEF IInv, TypeOK, Finishing, In
      <4> QED
        BY <1>6, <4>1, <4>2, <4>3, <4>4, <4>5 DEF DropWeak, IInv, Phases
    <3> QED
      BY <3>1, <3>2
  <2> QED
    BY <2>2, <2>3, <2>4 DEF IInv
<1>7. ASSUME NEW h \in Handle, Dealloc(h) PROVE IInv'
  <2>1. /\ Cardinality(Owners)' = Cardinality(Owners)
        /\ Cardinality(Holders)' = Cardinality(Holders)
    <3>1. /\ st[h] = "dealloc" /\ st'[h] = "gone"
          /\ SameBut(st, st', h)
      BY <1>7 DEF Dealloc, IInv, TypeOK, SameBut
    <3> QED
      BY <3>1, CountsFollow DEF HoldState
  <2>2. CountersExact'
    BY <1>7, <2>1 DEF Dealloc, IInv, TypeOK, CountersExact, Owners, In
  <2>3. TypeOK'
    BY <1>7 DEF Dealloc, IInv, TypeOK, Phases, In, State
  <2>4. Phases'
    BY <1>7 DEF Dealloc, IInv, TypeOK, CountersExact, Phases, Owners, Holders, HoldState, Finishing, In, State
  <2> QED
    BY <2>2, <2>3, <2>4 DEF IInv
<1>8. ASSUME NEW h \in Handle, NEW g \in Handle, Adopt(h, g) PROVE IInv'
  <2>1. Cardinality(Owners)' = 1 /\ Cardinality(Holders)' = 1
    <3>1. Owners' = {h} /\ Holders' = {g}
      BY <1>8 DEF Adopt, IInv, TypeOK, Phases, Owners, Holders, HoldState, In, State
    <3> QED
      BY <3>1, FS_Singleton
  <2>2. CountersExact'
    BY <1>8, <2>1 DEF Adopt, IInv, TypeOK, CountersExact, Phases, Owners, In
  <2>3. TypeOK'
    <3>1. Cardinality(Owners)' <= Cardinality(Handle)
      <4>1. Owners' = At(st', {"arc"})
        BY DEF Owners, In, At
      <4> QED
        BY <4>1, AtFinite
    <3>2. 2 \in 0 .. Modulus - 1
      BY <2>1, <3>1, NoWrap DEF NoWrap
    <3> QED
      BY <1>8, <3>2 DEF Adopt, IInv, TypeOK, State
  <2>4. Phases'
    BY <1>8 DEF Adopt, IInv, TypeOK, Phases, Owners, Holders, HoldState, Finishing, In, State
  <2> QED
    BY <2>2, <2>3, <2>4 DEF IInv
<1>9. ASSUME NEW h \in Handle, NEW g \in Handle, Clone(h, g) PROVE IInv'
  <2>1. /\ Cardinality(Owners)' = Cardinality(Owners) + 1
        /\ Cardinality(Holders)' = Cardinality(Holders)
    <3>1. /\ st[g] = "gone" /\ st'[g] = "arc"
          /\ SameBut(st, st', g)
      BY <1>9 DEF Clone, IInv, TypeOK, SameBut
    <3> QED
      BY <3>1, CountsFollow DEF HoldState
  <2>2. strong' = strong + 1
    BY <1>9, NoWrap DEF Clone, NoWrap, IInv, TypeOK, CountersExact
  <2>3. CountersExact'
    <3>1. h \in Owners /\ h \in Owners'
      BY <1>9 DEF Clone, IInv, TypeOK, Owners, In
    <3> QED
      BY <1>9, <2>1, <2>2, <3>1 DEF Clone, IInv, CountersExact
  <2>4. TypeOK'
    BY <1>9 DEF Clone, IInv, TypeOK, State
  <2>5. Phases'
    BY <1>9 DEF Clone, IInv, TypeOK, Phases, Owners, Holders, HoldState, Finishing, In, State
  <2> QED
    BY <2>3, <2>4, <2>5 DEF IInv
<1>10. ASSUME NEW h \in Handle, NEW g \in Handle, CloneWeak(h, g) PROVE IInv'
  <2>1. /\ Cardinality(Owners)' = Cardinality(Owners)
        /\ Cardinality(Holders)' = Cardinality(Holders) + 1
    <3>1. /\ st[g] = "gone" /\ st'[g] = "weak"
          /\ SameBut(st, st', g)
      BY <1>10 DEF CloneWeak, IInv, TypeOK, SameBut
    <3> QED
      BY <3>1, CountsFollow DEF HoldState
  <2>2. Cardinality(Holders)' <= Cardinality(Handle)
    <3>1. Holders' = At(st', HoldState)
      BY DEF Holders, HoldState, In, At
    <3> QED
      BY <3>1, AtFinite
  <2>3. weak' = weak + 1
    BY <1>10, <2>1, <2>2, NoWrap DEF CloneWeak, NoWrap, IInv, TypeOK, CountersExact
  <2>4. CountersExact'
    BY <1>10, <2>1, <2>3 DEF CloneWeak, IInv, TypeOK, CountersExact, Owners, In
  <2>5. TypeOK'
    BY <1>10 DEF CloneWeak, IInv, TypeOK, State
  <2>6. Phases'
    BY <1>10 DEF CloneWeak, IInv, TypeOK, Phases, Owners, Holders, HoldState, Finishing, In, State
  <2> QED
    BY <2>4, <2>5, <2>6 DEF IInv
<1>11. ASSUME NEW h \in Handle, NEW g \in Handle, Move(h, g) PROVE IInv'
  <2> DEFINE mid == [x \in Handle |-> IF x = g THEN st[h] ELSE st[x]]
  <2>1. /\ h # g /\ st[h] \in {"arc", "weak"} /\ st[g] = "gone"
        /\ mid[g] = st[h] /\ mid[h] = st[h] /\ SameBut(st, mid, g)
        /\ st'[h] = "moved" /\ SameBut(mid, st', h)
    BY <1>11 DEF Move, IInv, TypeOK, SameBut
  <2> HIDE DEF mid
  <2>2. /\ Cardinality(Owners)' = Cardinality(Owners)
        /\ Cardinality(Holders)' = Cardinality(Holders)
    <3>1. ASSUME NEW S, S \in {{"arc"}, HoldState}
          PROVE  Cardinality(At(st', S)) = Cardinality(At(st, S))
      <4>1. CountFollows(st, mid, g, S) /\ CountFollows(mid, st', h, S)
        BY <2>1, AtChange
      <4>2. "gone" \notin S /\ "moved" \notin S
        BY <3>1 DEF HoldState
      <4> QED
        BY <4>1, <4>2, <2>1, AtFinite DEF CountFollows
    <3>2. /\ Owners = At(st, {"arc"}) /\ Owners' = At(st', {"arc"})
          /\ Holders = At(st, HoldState)
          /\ Holders' = At(st', HoldState)
      BY DEF Owners, Holders, HoldState, In, At
    <3> QED
      BY <3>1, <3>2
  <2>3. CountersExact'
    BY <1>11, <2>2, <2>1 DEF Move, IInv, TypeOK, CountersExact, Owners, In
  <2>4. TypeOK'
    BY <1>11 DEF Move, IInv, TypeOK, State
  <2>5. Phases'
    BY <1>11 DEF Move, IInv, TypeOK, Phases, Owners, Holders, HoldState, Finishing, In, State
  <2> QED
    BY <2>3, <2>4, <2>5 DEF IInv
<1>12. CASE UNCHANGED vars
  BY <1>12 DEF vars, IInv, TypeOK, CountersExact, Phases, Owners, Holders, HoldState, Finishing, In
<1> QED
  BY <1>1, <1>2, <1>3, <1>4, <1>5, <1>6, <1>7, <1>8, <1>9, <1>10, <1>11, <1>12 DEF Next

-----------------------------------------------------------------------------
\* The counters of arc.h are exact and its phases ordered in every behaviour,
\* for any number of handles the counters can count: the inductive invariant.
THEOREM ArcInvariant ==
  ASSUME NoWrap
  PROVE  Spec => []IInv
<1>1. IInv /\ [Next]_vars => IInv'
  BY NextIInv
<1> QED
  BY InitIInv, <1>1, PTL DEF Spec

\* The model is type correct.
THEOREM ArcTypeOK ==
  ASSUME NoWrap
  PROVE  Spec => []TypeOK
<1>1. IInv => TypeOK
  BY DEF IInv
<1> QED
  BY <1>1, ArcInvariant, PTL

\* An Arc may always be dereferenced: no interleaving of clones, moves and
\* destructors destroys the value or frees the block under a live owner.
THEOREM ArcOwnersSeeLiveValue ==
  ASSUME NoWrap
  PROVE  Spec => []OwnersSeeLiveValue
<1>1. IInv => OwnersSeeLiveValue
  BY DEF IInv, Phases, OwnersSeeLiveValue
<1> QED
  BY <1>1, ArcInvariant, PTL

\* No destructor, and no Weak, touches the counters, the data or the block
\* after ~Weak gave the block back.
THEOREM ArcNoTouchAfterFree ==
  ASSUME NoWrap
  PROVE  Spec => []NoTouchAfterFree
<1>1. IInv => NoTouchAfterFree
  <2> SUFFICES ASSUME IInv, NEW h \in Handle, st[h] \notin {"gone", "moved"}
               PROVE  born /\ frees = 0
    BY DEF NoTouchAfterFree, In
  <2>1. born
    BY DEF IInv, TypeOK, Phases, In
  <2>2. st[h] \in State
    BY DEF IInv, TypeOK
  <2>3. \/ h \in Owners \/ h \in Holders
        \/ h \in In({"release", "dealloc"}) \/ h \in In({"dealloc"})
    BY <2>2 DEF State, Owners, Holders, HoldState, In
  <2> QED
    BY <2>1, <2>3 DEF IInv, TypeOK, Phases
<1> QED
  BY <1>1, ArcInvariant, PTL

\* The value is destroyed at most once, the block freed at most once and only
\* after it, and one thread at a time is on the slow path.
THEOREM ArcDestroyedOnce ==
  ASSUME NoWrap
  PROVE  Spec => []DestroyedOnceThenFreed
<1>1. IInv => DestroyedOnceThenFreed
  <2> SUFFICES ASSUME IInv PROVE DestroyedOnceThenFreed
    OBVIOUS
  <2>1. frees <= drops /\ drops <= 1
    BY DEF IInv, TypeOK, Phases
  <2>2. ASSUME NEW S, S \subseteq {"destroy", "release", "dealloc"}
        PROVE  Cardinality(In(S)) <= 1
    <3>1. \A x, y \in In(S) : x = y
      BY <2>2 DEF IInv, Phases, Finishing, In
    <3>2. In(S) = {} \/ \E x : In(S) = {x}
      BY <3>1
    <3>3. Cardinality({}) = 0 /\ \A x : Cardinality({x}) = 1
      BY FS_EmptySet, FS_Singleton
    <3> QED
      BY <3>2, <3>3
  <2> QED
    BY <2>1, <2>2 DEF DestroyedOnceThenFreed
<1> QED
  BY <1>1, ArcInvariant, PTL

\* Once every handle is gone, and none was forgotten, the value was destroyed
\* and the memory returned: counting leaks nothing.
THEOREM ArcNoLeak ==
  ASSUME NoWrap
  PROVE  Spec => []NoLeak
<1>1. IInv => NoLeak
  <2> SUFFICES ASSUME IInv, born, forgot = 0, In(State \ {"gone", "moved"}) = {}
               PROVE  drops = 1 /\ frees = 1
    BY DEF NoLeak
  <2>1. /\ Owners = {} /\ Holders = {} /\ In({"destroy"}) = {}
        /\ In({"dealloc"}) = {}
    BY DEF Owners, Holders, HoldState, In, State
  <2> QED
    BY <2>1 DEF IInv, TypeOK, Phases
<1> QED
  BY <1>1, ArcInvariant, PTL

-----------------------------------------------------------------------------
\* The counters implement SharedOwnership: what a program sees of its handles
\* is owners, watchers, one destruction and one release of the memory.
THEOREM ArcImplementsOwnership ==
  ASSUME NoWrap
  PROVE  Spec => OwnershipSteps
<1> USE DEF Ownership!vars
<1>1. Init => Ownership!Init
  BY DEF Init, Ownership!Init, Owners, In
<1>2. ASSUME IInv, [Next]_vars PROVE [Ownership!Next]_(Ownership!vars)
  <2> USE <1>2 DEF IInv, TypeOK
  <2>1. ASSUME NEW h \in Handle, New(h) PROVE [Ownership!Next]_(Ownership!vars)
    <3>1. Owners' = {h} /\ In({"weak"})' = {} /\ h \notin {} /\ {} \in SUBSET Handle
      BY <2>1 DEF New, Phases, Owners, In, State
    <3>2. ~born /\ born' /\ drops' = 0 /\ frees' = 0 /\ forgot' = forgot
      BY <2>1 DEF New, Phases
    <3>3. Ownership!Create
      BY <3>1, <3>2 DEF Ownership!Create
    <3> QED
      BY <3>3 DEF Ownership!Next
  <2>2. ASSUME NEW h \in Handle, Forget(h) PROVE [Ownership!Next]_(Ownership!vars)
    BY <2>2 DEF Forget, Phases, Owners, Holders, HoldState, Finishing, In, State, Ownership!Next, Ownership!Forget
  <2>3. ASSUME NEW h \in Handle, DropNull(h) PROVE [Ownership!Next]_(Ownership!vars)
    BY <2>3 DEF DropNull, Phases, Owners, Holders, HoldState, Finishing, In, State, Ownership!Next, Ownership!Unwatch, Ownership!Share, Ownership!Watch
  <2>4. ASSUME NEW h \in Handle, DropArc(h) PROVE [Ownership!Next]_(Ownership!vars)
    BY <2>4 DEF DropArc, Phases, Owners, Holders, HoldState, Finishing, In, State, Ownership!Next, Ownership!Release
  <2>5. ASSUME NEW h \in Handle, DropData(h) PROVE [Ownership!Next]_(Ownership!vars)
    BY <2>5 DEF DropData, Phases, Owners, Holders, HoldState, Finishing, In, State, Ownership!Next, Ownership!Destroy
  <2>6. ASSUME NEW h \in Handle, DropWeak(h) PROVE [Ownership!Next]_(Ownership!vars)
    BY <2>6 DEF DropWeak, Phases, Owners, Holders, HoldState, Finishing, In, State, Ownership!Next, Ownership!Unwatch, Ownership!Share, Ownership!Watch
  <2>7. ASSUME NEW h \in Handle, Dealloc(h) PROVE [Ownership!Next]_(Ownership!vars)
    BY <2>7 DEF Dealloc, Phases, Owners, Holders, HoldState, Finishing, In, State, Ownership!Next, Ownership!Free
  <2>8. ASSUME NEW h \in Handle, NEW g \in Handle, Adopt(h, g) PROVE [Ownership!Next]_(Ownership!vars)
    <3>1. Owners' = {h} /\ In({"weak"})' = {g} /\ h \notin {g} /\ {g} \in SUBSET Handle
      BY <2>8 DEF Adopt, Phases, Owners, In, State
    <3>2. ~born /\ born' /\ drops' = 0 /\ frees' = 0 /\ forgot' = forgot
      BY <2>8 DEF Adopt, Phases
    <3>3. Ownership!Create
      BY <3>1, <3>2 DEF Ownership!Create
    <3> QED
      BY <3>3 DEF Ownership!Next
  <2>9. ASSUME NEW h \in Handle, NEW g \in Handle, Clone(h, g) PROVE [Ownership!Next]_(Ownership!vars)
    BY <2>9 DEF Clone, Phases, Owners, Holders, HoldState, Finishing, In, State, Ownership!Next, Ownership!Share
  <2>10. ASSUME NEW h \in Handle, NEW g \in Handle, CloneWeak(h, g) PROVE [Ownership!Next]_(Ownership!vars)
    BY <2>10 DEF CloneWeak, Phases, Owners, Holders, HoldState, Finishing, In, State, Ownership!Next, Ownership!Watch
  <2>11. ASSUME NEW h \in Handle, NEW g \in Handle, Move(h, g) PROVE [Ownership!Next]_(Ownership!vars)
    BY <2>11 DEF Move, Phases, Owners, Holders, HoldState, Finishing, In, State, Ownership!Next, Ownership!Unwatch, Ownership!Share, Ownership!Watch
  <2>12. CASE UNCHANGED vars
    BY <2>12 DEF vars, Owners, In
  <2> QED
    BY <2>1, <2>2, <2>3, <2>4, <2>5, <2>6, <2>7, <2>8, <2>9, <2>10, <2>11, <2>12 DEF Next
<1> QED
  BY <1>1, <1>2, ArcInvariant, PTL DEF Spec, OwnershipSteps, Ownership!Safe
=============================================================================
