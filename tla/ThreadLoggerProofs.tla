------------------------- MODULE ThreadLoggerProofs -------------------------
(***************************************************************************)
(* Threads for any set of jobs and any set of thread ids, however often    *)
(* the system gives an id again: what a join reads, who keeps the packet   *)
(* alive, and that no thread is left behind while ids are fresh.           *)
(*                                                                         *)
(* Then the logger that threads share, for any set of threads, messages,   *)
(* pieces of messages and sizes of buffers, and any number of backends,    *)
(* entries and faults of files: where the iterations over the vector of    *)
(* backends are, whose lines a backend has got and in which order, and     *)
(* what the console shows of an entry.                                     *)
(*                                                                         *)
(* Last stderr, for any set of threads: what an eprint leaves behind.      *)
(***************************************************************************)
EXTENDS Thread, MCReports, FiniteSetTheorems, NaturalsInduction, TLAPS


Working == {"ready", "ran", "stored"}

\* What the owner of a handle has, by where it is: the id of a thread, and one
\* of the two owners of the packet (the other one is the closure, which is
\* freed and never destroyed).
HandlesInStep ==
  \A j \in Job :
    /\ hpc[j] = "idle" => wpc[j] = "none" /\ strong[j] = 0 /\ outcome[j] = "none"
    /\ hpc[j] \in {"held", "joining", "joined", "closing"} => wpc[j] # "none" /\ strong[j] = 2
    /\ hpc[j] = "detaching" => wpc[j] # "none" /\ strong[j] = 1
    /\ hpc[j] = "done" => strong[j] = 1
    /\ wpc[j] = "none" <=> tid[j] = None

\* The result is in the packet from the store of the worker until a join
\* takes it, which no join does before the store.
ResultStored ==
  \A j \in Job :
    /\ wpc[j] \in {"stored", "ended"} /\ hpc[j] \in {"held", "joining", "joined"} => packet[j] = "SOME"
    /\ hpc[j] = "joined" => wpc[j] = "ended"
    /\ outcome[j] # "panic"

\* The system and the workers agree about who runs under which id; an id that
\* has changed hands belonged to a thread that has ended.
IdsInStep ==
  /\ \A j \in Job : wpc[j] \in Working => os[tid[j]] = "live" /\ runs[tid[j]] = j
  /\ \A t \in Tid :
       /\ runs[t] # None => tid[runs[t]] = t
       /\ os[t] # "free" => runs[t] # None
       /\ os[t] = "live" => wpc[runs[t]] \in Working
       /\ os[t] = "ended" => wpc[runs[t]] = "ended" /\ ~detached[t]
       /\ detached[t] => os[t] = "live"

\* Whoever waits for an id is in join, and the id is kept for it.
WaitersJoin ==
  /\ \A j \in Job : hpc[j] = "joining" => waiter[tid[j]] = j
  /\ \A t \in Tid : waiter[t] # None =>
       hpc[waiter[t]] = "joining" /\ tid[waiter[t]] = t /\ os[t] # "free" /\ ~detached[t]

\* The owner of a handle whose id is its own: the thread can be joined for as
\* long as the handle is held, and is released or detached after it.
OwnIdKept(j) ==
  LET t == tid[j] IN
  /\ runs[t] = j
  /\ hpc[j] \in {"held", "joining"} => os[t] # "free" /\ ~detached[t]
  /\ hpc[j] \in {"joined", "closing", "detaching"} => ~detached[t]
  /\ hpc[j] = "done" => os[t] = "free" \/ detached[t]
  /\ outcome[j] # "error"

FreshIdsKept == FreshIds => \A j \in Job : tid[j] # None => OwnIdKept(j)

IInv == TypeOK /\ HandlesInStep /\ ResultStored /\ IdsInStep /\ WaitersJoin /\ FreshIdsKept
-----------------------------------------------------------------------------
\* No thread has been started yet.
LEMMA InitIInv == Init => IInv
BY NoneAssumption DEF Init, IInv, TypeOK, HandlesInStep, ResultStored, IdsInStep, WaitersJoin, FreshIdsKept, Working

\* Every step of every thread keeps the invariant.
LEMMA NextIInv == IInv /\ [Next]_vars => IInv'
<1> SUFFICES ASSUME IInv, [Next]_vars PROVE IInv'
  OBVIOUS
<1> USE NoneAssumption DEF IInv
<1>1. ASSUME NEW j \in Job, Spawn(j) PROVE IInv'
  <2>1. TypeOK'
    BY <1>1 DEF Spawn, Available, TypeOK, HandlesInStep, handleVars, systemVars
  <2>2. HandlesInStep'
    BY <1>1 DEF Spawn, Available, TypeOK, HandlesInStep, handleVars, systemVars
  <2>3. ResultStored'
    BY <1>1 DEF Spawn, Available, TypeOK, HandlesInStep, ResultStored, IdsInStep, Working, handleVars, systemVars
  <2>4. IdsInStep'
    BY <1>1 DEF Spawn, Available, TypeOK, HandlesInStep, IdsInStep, WaitersJoin, Working, handleVars, systemVars
  <2>5. WaitersJoin'
    BY <1>1 DEF Spawn, Available, TypeOK, HandlesInStep, IdsInStep, WaitersJoin, Working, handleVars, systemVars
  <2>6. FreshIdsKept'
    <3> SUFFICES ASSUME FreshIds', NEW k \in Job, tid'[k] # None
                 PROVE  OwnIdKept(k)'
      BY DEF FreshIdsKept
    <3>1. PICK t \in Tid :
            /\ tid' = [tid EXCEPT ![j] = t]
            /\ os' = [os EXCEPT ![t] = "live"]
            /\ runs' = [runs EXCEPT ![t] = j]
            /\ detached' = [detached EXCEPT ![t] = FALSE]
      BY <1>1 DEF Spawn
    <3>2. tid[j] = None
      BY <1>1 DEF Spawn, HandlesInStep
    <3>3. CASE k = j
      BY <1>1, <3>1, <3>3 DEF Spawn, TypeOK, HandlesInStep, OwnIdKept
    <3>4. CASE k # j
      <4>1. FreshIds
        BY <3>1, <3>2 DEF FreshIds, TypeOK
      <4>2. tid[k] # t /\ tid[k] # None /\ OwnIdKept(k)
        BY <3>1, <3>4, <4>1 DEF FreshIds, FreshIdsKept, TypeOK
      <4> QED
        BY <1>1, <3>1, <3>4, <4>2 DEF Spawn, OwnIdKept, TypeOK
    <3> QED
      BY <3>3, <3>4
  <2> QED
    BY <2>1, <2>2, <2>3, <2>4, <2>5, <2>6
<1>2. ASSUME NEW j \in Job, SpawnFail(j) PROVE IInv'
  <2>1. TypeOK'
    BY <1>2 DEF SpawnFail, TypeOK, HandlesInStep, handleVars, systemVars
  <2>2. HandlesInStep'
    BY <1>2 DEF SpawnFail, TypeOK, HandlesInStep, handleVars, systemVars
  <2>3. ResultStored'
    BY <1>2 DEF SpawnFail, TypeOK, HandlesInStep, ResultStored, IdsInStep, Working, handleVars, systemVars
  <2>4. IdsInStep'
    BY <1>2 DEF SpawnFail, TypeOK, HandlesInStep, IdsInStep, WaitersJoin, Working, handleVars, systemVars
  <2>5. WaitersJoin'
    BY <1>2 DEF SpawnFail, TypeOK, HandlesInStep, IdsInStep, WaitersJoin, Working, handleVars, systemVars
  <2>6. FreshIdsKept'
    BY <1>2 DEF SpawnFail, TypeOK, HandlesInStep, IdsInStep, WaitersJoin, FreshIdsKept, FreshIds, OwnIdKept, Working, handleVars, systemVars
  <2> QED
    BY <2>1, <2>2, <2>3, <2>4, <2>5, <2>6
<1>3. ASSUME NEW j \in Job, Run(j) PROVE IInv'
  <2>1. TypeOK'
    BY <1>3 DEF Run, TypeOK, HandlesInStep, handleVars, systemVars
  <2>2. HandlesInStep'
    BY <1>3 DEF Run, TypeOK, HandlesInStep, handleVars, systemVars
  <2>3. ResultStored'
    BY <1>3 DEF Run, TypeOK, HandlesInStep, ResultStored, IdsInStep, Working, handleVars, systemVars
  <2>4. IdsInStep'
    BY <1>3 DEF Run, TypeOK, HandlesInStep, IdsInStep, WaitersJoin, Working, handleVars, systemVars
  <2>5. WaitersJoin'
    BY <1>3 DEF Run, TypeOK, HandlesInStep, IdsInStep, WaitersJoin, Working, handleVars, systemVars
  <2>6. FreshIdsKept'
    BY <1>3 DEF Run, TypeOK, HandlesInStep, IdsInStep, WaitersJoin, FreshIdsKept, FreshIds, OwnIdKept, Working, handleVars, systemVars
  <2> QED
    BY <2>1, <2>2, <2>3, <2>4, <2>5, <2>6
<1>4. ASSUME NEW j \in Job, Store(j) PROVE IInv'
  <2>1. TypeOK'
    BY <1>4 DEF Store, TypeOK, HandlesInStep, handleVars, systemVars
  <2>2. HandlesInStep'
    BY <1>4 DEF Store, TypeOK, HandlesInStep, handleVars, systemVars
  <2>3. ResultStored'
    BY <1>4 DEF Store, TypeOK, HandlesInStep, ResultStored, IdsInStep, Working, handleVars, systemVars
  <2>4. IdsInStep'
    BY <1>4 DEF Store, TypeOK, HandlesInStep, IdsInStep, WaitersJoin, Working, handleVars, systemVars
  <2>5. WaitersJoin'
    BY <1>4 DEF Store, TypeOK, HandlesInStep, IdsInStep, WaitersJoin, Working, handleVars, systemVars
  <2>6. FreshIdsKept'
    BY <1>4 DEF Store, TypeOK, HandlesInStep, IdsInStep, WaitersJoin, FreshIdsKept, FreshIds, OwnIdKept, Working, handleVars, systemVars
  <2> QED
    BY <2>1, <2>2, <2>3, <2>4, <2>5, <2>6
<1>5. ASSUME NEW j \in Job, End(j) PROVE IInv'
  <2>1. TypeOK'
    <3>1. PICK t \in Tid : IF detached[t] THEN Free(t)
                            ELSE os' = [os EXCEPT ![t] = "ended"] /\ UNCHANGED detached
      BY <1>5 DEF End
    <3>2. os' \in [Tid -> {"free", "live", "ended"}] /\ detached' \in [Tid -> BOOLEAN]
      BY <3>1, Zenon DEF Free, TypeOK
    <3> QED
      BY <1>5, <3>2 DEF End, TypeOK, handleVars
  <2>2. HandlesInStep'
    BY <1>5 DEF End, Free, TypeOK, HandlesInStep, handleVars, systemVars
  <2>3. ResultStored'
    BY <1>5 DEF End, Free, TypeOK, HandlesInStep, ResultStored, IdsInStep, Working, handleVars, systemVars
  <2>4. IdsInStep'
    BY <1>5 DEF End, Free, TypeOK, HandlesInStep, IdsInStep, WaitersJoin, Working, handleVars, systemVars
  <2>5. WaitersJoin'
    BY <1>5 DEF End, Free, TypeOK, HandlesInStep, IdsInStep, WaitersJoin, Working, handleVars, systemVars
  <2>6. FreshIdsKept'
    BY <1>5 DEF End, Free, TypeOK, HandlesInStep, IdsInStep, WaitersJoin, FreshIdsKept, FreshIds, OwnIdKept, Working, handleVars, systemVars
  <2> QED
    BY <2>1, <2>2, <2>3, <2>4, <2>5, <2>6
<1>6. ASSUME NEW j \in Job, Join(j) PROVE IInv'
  <2>1. TypeOK'
    BY <1>6 DEF Join, TypeOK, HandlesInStep, handleVars, systemVars
  <2>2. HandlesInStep'
    BY <1>6 DEF Join, TypeOK, HandlesInStep, handleVars, systemVars
  <2>3. ResultStored'
    BY <1>6 DEF Join, TypeOK, HandlesInStep, ResultStored, IdsInStep, Working, handleVars, systemVars
  <2>4. IdsInStep'
    BY <1>6 DEF Join, TypeOK, HandlesInStep, IdsInStep, WaitersJoin, Working, handleVars, systemVars
  <2>5. WaitersJoin'
    BY <1>6 DEF Join, TypeOK, HandlesInStep, IdsInStep, WaitersJoin, Working, handleVars, systemVars
  <2>6. FreshIdsKept'
    BY <1>6 DEF Join, TypeOK, HandlesInStep, IdsInStep, WaitersJoin, FreshIdsKept, FreshIds, OwnIdKept, Working, handleVars, systemVars
  <2> QED
    BY <2>1, <2>2, <2>3, <2>4, <2>5, <2>6
<1>7. ASSUME NEW j \in Job, JoinFail(j) PROVE IInv'
  <2>1. TypeOK'
    BY <1>7 DEF JoinFail, TypeOK, HandlesInStep, handleVars, systemVars
  <2>2. HandlesInStep'
    BY <1>7 DEF JoinFail, TypeOK, HandlesInStep, handleVars, systemVars
  <2>3. ResultStored'
    BY <1>7 DEF JoinFail, TypeOK, HandlesInStep, ResultStored, IdsInStep, Working, handleVars, systemVars
  <2>4. IdsInStep'
    BY <1>7 DEF JoinFail, TypeOK, HandlesInStep, IdsInStep, WaitersJoin, Working, handleVars, systemVars
  <2>5. WaitersJoin'
    BY <1>7 DEF JoinFail, TypeOK, HandlesInStep, IdsInStep, WaitersJoin, Working, handleVars, systemVars
  <2>6. FreshIdsKept'
    BY <1>7 DEF JoinFail, TypeOK, HandlesInStep, IdsInStep, WaitersJoin, FreshIdsKept, FreshIds, OwnIdKept, Working, handleVars, systemVars
  <2> QED
    BY <2>1, <2>2, <2>3, <2>4, <2>5, <2>6
<1>8. ASSUME NEW j \in Job, JoinReturn(j) PROVE IInv'
  <2>1. TypeOK'
    BY <1>8 DEF JoinReturn, Free, TypeOK, HandlesInStep, handleVars, systemVars
  <2>2. HandlesInStep'
    BY <1>8 DEF JoinReturn, Free, TypeOK, HandlesInStep, handleVars, systemVars
  <2>3. ResultStored'
    BY <1>8 DEF JoinReturn, Free, TypeOK, HandlesInStep, ResultStored, IdsInStep, Working, handleVars, systemVars
  <2>4. IdsInStep'
    BY <1>8 DEF JoinReturn, Free, TypeOK, HandlesInStep, IdsInStep, WaitersJoin, Working, handleVars, systemVars
  <2>5. WaitersJoin'
    BY <1>8 DEF JoinReturn, Free, TypeOK, HandlesInStep, IdsInStep, WaitersJoin, Working, handleVars, systemVars
  <2>6. FreshIdsKept'
    BY <1>8 DEF JoinReturn, Free, TypeOK, HandlesInStep, IdsInStep, WaitersJoin, FreshIdsKept, FreshIds, OwnIdKept, Working, handleVars, systemVars
  <2> QED
    BY <2>1, <2>2, <2>3, <2>4, <2>5, <2>6
<1>9. ASSUME NEW j \in Job, Take(j) PROVE IInv'
  <2>1. TypeOK'
    BY <1>9 DEF Take, TypeOK, HandlesInStep, handleVars, systemVars
  <2>2. HandlesInStep'
    BY <1>9 DEF Take, TypeOK, HandlesInStep, handleVars, systemVars
  <2>3. ResultStored'
    BY <1>9 DEF Take, TypeOK, HandlesInStep, ResultStored, IdsInStep, Working, handleVars, systemVars
  <2>4. IdsInStep'
    BY <1>9 DEF Take, TypeOK, HandlesInStep, IdsInStep, WaitersJoin, Working, handleVars, systemVars
  <2>5. WaitersJoin'
    BY <1>9 DEF Take, TypeOK, HandlesInStep, IdsInStep, WaitersJoin, Working, handleVars, systemVars
  <2>6. FreshIdsKept'
    BY <1>9 DEF Take, TypeOK, HandlesInStep, IdsInStep, WaitersJoin, FreshIdsKept, FreshIds, OwnIdKept, Working, handleVars, systemVars
  <2> QED
    BY <2>1, <2>2, <2>3, <2>4, <2>5, <2>6
<1>10. ASSUME NEW j \in Job, DropPacket(j) PROVE IInv'
  <2>1. TypeOK'
    BY <1>10 DEF DropPacket, TypeOK, HandlesInStep, handleVars, systemVars
  <2>2. HandlesInStep'
    BY <1>10 DEF DropPacket, TypeOK, HandlesInStep, handleVars, systemVars
  <2>3. ResultStored'
    BY <1>10 DEF DropPacket, TypeOK, HandlesInStep, ResultStored, IdsInStep, Working, handleVars, systemVars
  <2>4. IdsInStep'
    BY <1>10 DEF DropPacket, TypeOK, HandlesInStep, IdsInStep, WaitersJoin, Working, handleVars, systemVars
  <2>5. WaitersJoin'
    BY <1>10 DEF DropPacket, TypeOK, HandlesInStep, IdsInStep, WaitersJoin, Working, handleVars, systemVars
  <2>6. FreshIdsKept'
    BY <1>10 DEF DropPacket, TypeOK, HandlesInStep, IdsInStep, WaitersJoin, FreshIdsKept, FreshIds, OwnIdKept, Working, handleVars, systemVars
  <2> QED
    BY <2>1, <2>2, <2>3, <2>4, <2>5, <2>6
<1>11. ASSUME NEW j \in Job, DropThread(j) PROVE IInv'
  <2>1. TypeOK'
    BY <1>11 DEF DropThread, Free, Detach, TypeOK, HandlesInStep, handleVars, systemVars
  <2>2. HandlesInStep'
    BY <1>11 DEF DropThread, Free, Detach, TypeOK, HandlesInStep, handleVars, systemVars
  <2>3. ResultStored'
    BY <1>11 DEF DropThread, Free, Detach, TypeOK, HandlesInStep, ResultStored, IdsInStep, Working, handleVars, systemVars
  <2>4. IdsInStep'
    BY <1>11 DEF DropThread, Free, Detach, TypeOK, HandlesInStep, IdsInStep, WaitersJoin, Working, handleVars, systemVars
  <2>5. WaitersJoin'
    BY <1>11 DEF DropThread, Free, Detach, TypeOK, HandlesInStep, IdsInStep, WaitersJoin, Working, handleVars, systemVars
  <2>6. FreshIdsKept'
    BY <1>11 DEF DropThread, Free, Detach, TypeOK, HandlesInStep, IdsInStep, WaitersJoin, FreshIdsKept, FreshIds, OwnIdKept, Working, handleVars, systemVars
  <2> QED
    BY <2>1, <2>2, <2>3, <2>4, <2>5, <2>6
<1>12. CASE UNCHANGED vars
  BY <1>12 DEF vars, TypeOK, HandlesInStep, ResultStored, IdsInStep, WaitersJoin, FreshIdsKept, FreshIds, OwnIdKept, Working
<1> QED
  BY <1>1, <1>2, <1>3, <1>4, <1>5, <1>6, <1>7, <1>8, <1>9, <1>10, <1>11, <1>12 DEF Next

-----------------------------------------------------------------------------
\* Handles, workers and the table of ids stay in step in every behaviour, for
\* any jobs and ids: the inductive invariant.
THEOREM ThreadInvariant == Spec => []IInv
<1>1. IInv /\ [Next]_vars => IInv'
  BY NextIInv
<1> QED
  BY InitIInv, <1>1, PTL DEF Spec

\* A join that succeeds reads the result of its own job, which the worker has
\* finished storing, also when the id of its thread was given to other
\* threads in the meantime: join never panics.
THEOREM ThreadJoinReadsOwnResult == Spec => []JoinReadsOwnResult
<1>1. IInv => JoinReadsOwnResult
  BY DEF IInv, HandlesInStep, ResultStored, JoinReadsOwnResult
<1> QED
  BY <1>1, ThreadInvariant, PTL

\* A worker stores its result into a packet that has an owner, in whatever
\* order handle and worker end; the model is type correct.
THEOREM ThreadWorkerPacketLive == Spec => []WorkerPacketLive
<1>1. IInv => WorkerPacketLive
  <2> SUFFICES ASSUME IInv, NEW j \in Job, wpc[j] \in {"ready", "ran"}
               PROVE  strong[j] >= 1
    BY DEF IInv, WorkerPacketLive
  <2>1. hpc[j] \in {"idle", "held", "joining", "joined", "closing", "detaching", "done"}
    BY DEF IInv, TypeOK
  <2> QED
    BY <2>1 DEF IInv, HandlesInStep
<1> QED
  BY <1>1, ThreadInvariant, PTL

\* While no id was given twice, every thread that was spawned and is joined
\* yields its value, and the system keeps nothing of a thread whose handle is
\* gone: what the destructor of Thread would guarantee if it knew of the join.
THEOREM ThreadFreshReleased == Spec => []FreshThreadsReleased
<1>1. IInv => FreshThreadsReleased
  <2> SUFFICES ASSUME IInv, FreshIds PROVE
        /\ JoinsYieldValues
        /\ \A j \in Job : hpc[j] = "done" /\ wpc[j] = "ended" =>
             \A t \in Tid : runs[t] = j => os[t] # "ended"
    BY DEF FreshThreadsReleased
  <2>1. ASSUME NEW j \in Job, outcome[j] = "error" PROVE wpc[j] = "none"
    BY <2>1 DEF IInv, HandlesInStep, FreshIdsKept, OwnIdKept
  <2>2. ASSUME NEW j \in Job, hpc[j] = "done", NEW t \in Tid, runs[t] = j
        PROVE  os[t] # "ended"
    <3>1. tid[j] = t /\ tid[j] # None
      BY <2>2, NoneAssumption DEF IInv, IdsInStep
    <3> QED
      BY <2>2, <3>1 DEF IInv, IdsInStep, FreshIdsKept, OwnIdKept
  <2> QED
    BY <2>1, <2>2 DEF JoinsYieldValues
<1> QED
  BY <1>1, ThreadInvariant, PTL

-----------------------------------------------------------------------------
\* What an entry is, once its call has begun, and what the backends are given.
Entry == Thread \X Nat \X Messages
Char == Letters \cup {"h", "p", "s", "t", "n"}
Lines == Seq(Entry \X Char)

InConsole == {"locked", "close"}

\* The vector of backends, and the other variables by themselves.
LogTyped ==
  /\ level \in Levels /\ backends \in Backend
  /\ cap \in Nat /\ cap >= backends /\ cap >= Align /\ block \in Nat
  /\ adding # <<>> => backends < MaxBackends /\ backends + 1 <= cap
  /\ pc \in [Thread -> {"idle", "begin", "end", "call"} \cup InConsole]
  /\ iter \in [Thread -> [block : Nat, at : Nat, end : Nat]]
  /\ entry = [t \in Thread |-> entry[t]]
  /\ calls \in 0 .. MaxCalls /\ faults \in 0 .. MaxFaults /\ astray \in BOOLEAN
  /\ out \in [Backend -> Lines]
  /\ holder \in Thread \cup {Nobody}

\* Memory moves when the capacity grows.
MovedByGrowth == (block > 0 => cap > Align) /\ (astray = TRUE => cap > Align)

\* An iteration is at memory that was the vector's, and ends where the vector
\* did; stdout is locked for the thread that is in Console::entry.
ThreadsInStep ==
  \A t \in Thread :
    /\ iter[t].block <= block /\ iter[t].at <= iter[t].end /\ iter[t].end <= backends
    /\ pc[t] \in InConsole <=> holder = t
    /\ pc[t] \in InConsole => iter[t].at = 0 /\ iter[t].end > 0
    /\ pc[t] = "end" => iter[t].at = 0

EntriesTyped ==
  \A t \in Thread :
    /\ entry[t][1] = t /\ entry[t][2] \in 0 .. calls
    /\ pc[t] # "idle" => entry[t] \in Entry

Entries(q) == {q[i][1] : i \in DOMAIN q}
LastOf(q) == q[Len(q)]

\* How many backends a call has come to that is at p and has iteration i.
Through(p, i) == IF p \in InConsole THEN 1 ELSE IF p = "call" THEN i.at ELSE 0

\* A call that runs has given its entry to those backends, and to no other.
EntriesHeld ==
  \A t \in Thread : pc[t] # "idle" =>
    \A b \in Backend : entry[t] \in Entries(out[b]) <=> b <= Through(pc[t], iter[t])

\* No backend has an entry of a thread that comes after its last.
EntriesKnown ==
  \A b \in Backend : \A x \in Entries(out[b]) : x[2] <= entry[x[1]][2]

\* No backend has an entry that the one before it has not.
PrefixesHeld ==
  \A b \in Backend \ {1} : Entries(out[b]) \subseteq Entries(out[b - 1])

\* A call that returned without a fault gave its entry to all backends it found.
ReturnedHeld ==
  \A t \in Thread :
    pc[t] = "idle" /\ entry[t] \in Entries(out[1]) /\ faults = 0 /\ astray = FALSE =>
      \A b \in Backend : b <= iter[t].end => entry[t] \in Entries(out[b])

\* The lines of an entry are in one piece; those of an entry of Es end before
\* the next begins; the entries of a thread have the order of their numbers.
Together(q) ==
  \A i \in DOMAIN q : i > 1 /\ q[i][1] # q[i - 1][1] => \A k \in 1 .. i - 1 : q[k][1] # q[i][1]
Ended(q, Es) ==
  \A i \in DOMAIN q : i > 1 /\ q[i][1] # q[i - 1][1] /\ q[i - 1][1] \in Es => q[i - 1][2] = "n"
Ordered(q) ==
  \A i \in DOMAIN q : \A k \in 1 .. i : q[i][1][1] = q[k][1][1] => q[k][1][2] <= q[i][1][2]
InStep(q, Es) == Together(q) /\ Ended(q, Es) /\ Ordered(q)

\* The entries that must end in a newline, in the b-th backend, after f faults.
Ending(b, f) == {e \in Entry : b = 1 \/ (f = 0 /\ FileLineFits[e[3]])}

OutsInStep == \A b \in Backend : InStep(out[b], Ending(b, faults))

\* The last line of a backend ends in a newline, but while a thread prints to
\* the console: then it is of its entry.
LastLines ==
  /\ \A b \in Backend :
       out[b] # <<>> /\ (b = 1 => holder = Nobody) /\ LastOf(out[b])[1] \in Ending(b, faults)
         => LastOf(out[b])[2] = "n"
  /\ holder # Nobody => out[1] # <<>> /\ LastOf(out[1])[1] = entry[holder]

LogInv ==
  /\ LogTyped /\ MovedByGrowth /\ ThreadsInStep /\ EntriesTyped /\ EntriesHeld /\ EntriesKnown
  /\ PrefixesHeld /\ ReturnedHeld /\ OutsInStep /\ LastLines

\* A vector that is full grows.
LEMMA GrowthAbove ==
  ASSUME NEW c \in Nat
  PROVE  Growth(c) \in Nat /\ Growth(c) > c
<1> DEFINE more == IF c \div 2 > 1 THEN c \div 2 ELSE 1
           q == (c + more + Align - 1) \div Align
<1>1. Align \in Nat \ {0} /\ more \in Nat /\ more >= 1
  BY LoggerAssumption
<1>2. c + more + Align - 1 \in Nat
  BY <1>1
<1> HIDE DEF more
<1>3. q \in Nat /\ q * Align <= c + more + Align - 1 /\ c + more + Align - 1 < q * Align + Align
  BY <1>1, <1>2
<1>4. q * Align \in Nat /\ q * Align > c
  BY <1>1, <1>3
<1> QED
  BY <1>4 DEF Growth, more

\* The first backend needs the least capacity there is.
LEMMA GrowthFirst == Growth(0) = Align
<1>1. Align \in Nat \ {0}
  BY LoggerAssumption
<1>2. 0 + 1 + Align - 1 = Align /\ Align \div Align = 1
  BY <1>1
<1>3. 0 \div 2 = 0
  OBVIOUS
<1> QED
  BY <1>1, <1>2, <1>3 DEF Growth

-----------------------------------------------------------------------------
Tagged(e, s) == [i \in DOMAIN s |-> <<e, s[i]>>]

\* What is known of q \o Tagged(e, s), if e is new or the last in q.
LEMMA AppendedAt ==
  ASSUME NEW q \in Lines, NEW e \in Entry, NEW s \in Seq(Char), s # <<>>
  PROVE  LET r == q \o Tagged(e, s) IN
         /\ r \in Lines /\ Len(r) = Len(q) + Len(s) /\ r # <<>>
         /\ \A i \in 1 .. Len(q) : r[i] = q[i]
         /\ \A i \in Len(q) + 1 .. Len(r) : r[i] = <<e, s[i - Len(q)]>>
         /\ DOMAIN r = 1 .. Len(r) /\ DOMAIN q = 1 .. Len(q)
         /\ Entries(r) = Entries(q) \cup {e}
         /\ LastOf(r) = <<e, s[Len(s)]>>
<1> DEFINE z == Tagged(e, s)
           r == q \o z
<1>1. Len(s) \in Nat \ {0} /\ DOMAIN s = 1 .. Len(s) /\ \A i \in DOMAIN s : s[i] \in Char
  OBVIOUS
<1>2. z \in Lines /\ Len(z) = Len(s) /\ \A i \in 1 .. Len(s) : z[i] = <<e, s[i]>>
  BY <1>1 DEF Tagged, Lines
<1> HIDE DEF z
<1>3. /\ r \in Lines /\ Len(r) = Len(q) + Len(s) /\ Len(q) \in Nat
      /\ \A i \in 1 .. Len(q) : r[i] = q[i]
      /\ \A i \in Len(q) + 1 .. Len(r) : r[i] = z[i - Len(q)]
      /\ DOMAIN r = 1 .. Len(r) /\ DOMAIN q = 1 .. Len(q)
  <2>1. r \in Lines /\ Len(r) = Len(q) + Len(z) /\ Len(q) \in Nat /\ Len(z) \in Nat
    <3> DEFINE T == Entry \X Char
    <3>1. q \in Seq(T) /\ z \in Seq(T)
      BY <1>2 DEF Lines
    <3> HIDE DEF T
    <3>2. q \o z \in Seq(T) /\ Len(q \o z) = Len(q) + Len(z) /\ Len(q) \in Nat /\ Len(z) \in Nat
      BY <3>1
    <3> QED
      BY <3>2 DEF T, Lines
  <2>2. \A i \in 1 .. Len(q) + Len(z) : r[i] = IF i <= Len(q) THEN q[i] ELSE z[i - Len(q)]
    BY <1>2 DEF Lines
  <2>3. DOMAIN r = 1 .. Len(r) /\ DOMAIN q = 1 .. Len(q)
    BY <2>1 DEF Lines
  <2> HIDE DEF r
  <2> QED
    BY <1>1, <1>2, <2>1, <2>2, <2>3
<1> HIDE DEF r
<1>4. r # <<>> /\ \A i \in Len(q) + 1 .. Len(r) : r[i] = <<e, s[i - Len(q)]>>
  BY <1>1, <1>2, <1>3
<1>5. LastOf(r) = <<e, s[Len(s)]>>
  <2>1. Len(r) \in Len(q) + 1 .. Len(r) /\ Len(r) - Len(q) = Len(s)
    BY <1>1, <1>3
  <2> QED
    BY <2>1, <1>4 DEF LastOf
<1>6. Entries(r) = Entries(q) \cup {e}
  <2>1. ASSUME NEW i \in DOMAIN r PROVE r[i][1] \in Entries(q) \cup {e}
    <3>1. CASE i \in 1 .. Len(q)
      BY <3>1, <1>3 DEF Entries
    <3>2. CASE i \in Len(q) + 1 .. Len(r)
      BY <3>2, <1>4
    <3> QED
      BY <3>1, <3>2, <1>3
  <2>2. ASSUME NEW i \in DOMAIN q PROVE q[i][1] \in Entries(r)
    BY <1>1, <1>3 DEF Entries
  <2>3. e \in Entries(r)
    <3>1. Len(r) \in DOMAIN r /\ r[Len(r)][1] = e
      BY <1>1, <1>3, <1>5 DEF LastOf
    <3> QED
      BY <3>1 DEF Entries
  <2> QED
    BY <2>1, <2>2, <2>3 DEF Entries
<1> QED
  BY <1>3, <1>4, <1>5, <1>6 DEF r, z

\* Lines of one entry, after those of other entries, keep a backend in order.
LEMMA AppendedKeeps ==
  ASSUME NEW q \in Lines, NEW e \in Entry, NEW s \in Seq(Char), s # <<>>, NEW Es,
         InStep(q, Es),
         e \notin Entries(q) \/ (q # <<>> /\ LastOf(q)[1] = e),
         q # <<>> /\ LastOf(q)[1] # e /\ LastOf(q)[1] \in Es => LastOf(q)[2] = "n",
         \A x \in Entries(q) : x[1] = e[1] => x[2] <= e[2]
  PROVE  LET r == q \o Tagged(e, s) IN InStep(r, Es)
<1> DEFINE r == q \o Tagged(e, s)
<1>1. /\ r \in Lines /\ Len(r) = Len(q) + Len(s) /\ r # <<>>
      /\ \A i \in 1 .. Len(q) : r[i] = q[i]
      /\ \A i \in Len(q) + 1 .. Len(r) : r[i] = <<e, s[i - Len(q)]>>
      /\ DOMAIN r = 1 .. Len(r) /\ DOMAIN q = 1 .. Len(q)
  BY AppendedAt
<1> HIDE DEF r
<1>2. Len(q) \in Nat /\ Len(s) \in Nat \ {0} /\ Len(r) \in Nat
  BY <1>1 DEF Lines
<1>3. \A i \in Len(q) + 1 .. Len(r) : r[i][1] = e
  BY <1>1
<1>4. \A i \in 1 .. Len(q) : r[i][1] \in Entries(q) /\ q[i][1] \in Entries(q)
  BY <1>1 DEF Entries
<1>5. ASSUME NEW i \in DOMAIN r, i > 1, r[i][1] # r[i - 1][1]
      PROVE  \/ i \in 1 .. Len(q) /\ i - 1 \in 1 .. Len(q)
             \/ /\ i = Len(q) + 1 /\ e \notin Entries(q) /\ q # <<>>
                /\ r[i][1] = e /\ r[i - 1] = LastOf(q) /\ LastOf(q)[1] # e
  <2>1. CASE i <= Len(q)
    BY <2>1, <1>1, <1>2, <1>5
  <2>2. CASE i > Len(q) + 1
    <3>1. i \in Len(q) + 1 .. Len(r) /\ i - 1 \in Len(q) + 1 .. Len(r)
      BY <2>2, <1>1, <1>2
    <3> QED
      BY <3>1, <1>3, <1>5
  <2>3. CASE i = Len(q) + 1
    <3>1. i - 1 = Len(q) /\ Len(q) \in 1 .. Len(q) /\ i \in Len(q) + 1 .. Len(r)
      BY <2>3, <1>1, <1>2, <1>5
    <3>2. r[i][1] = e /\ r[i - 1] = LastOf(q)
      BY <3>1, <1>1, <1>3 DEF LastOf
    <3>3. q # <<>>
      BY <3>1
    <3> QED
      BY <2>3, <3>2, <3>3, <1>5
  <2> QED
    BY <2>1, <2>2, <2>3, <1>1, <1>2
<1>6. Together(r)
  <2> SUFFICES ASSUME NEW i \in DOMAIN r, i > 1, r[i][1] # r[i - 1][1], NEW k \in 1 .. i - 1
               PROVE  r[k][1] # r[i][1]
    BY DEF Together
  <2>1. CASE i \in 1 .. Len(q) /\ i - 1 \in 1 .. Len(q)
    <3>1. k \in 1 .. Len(q) /\ i \in DOMAIN q
      BY <2>1, <1>1, <1>2
    <3> QED
      BY <2>1, <3>1, <1>1 DEF Together, InStep
  <2>2. CASE i = Len(q) + 1 /\ e \notin Entries(q) /\ r[i][1] = e
    <3>1. k \in 1 .. Len(q)
      BY <2>2, <1>2
    <3> QED
      BY <2>2, <3>1, <1>4
  <2> QED
    BY <2>1, <2>2, <1>5
<1>7. Ended(r, Es)
  <2> SUFFICES ASSUME NEW i \in DOMAIN r, i > 1, r[i][1] # r[i - 1][1], r[i - 1][1] \in Es
               PROVE  r[i - 1][2] = "n"
    BY DEF Ended
  <2>1. CASE i \in 1 .. Len(q) /\ i - 1 \in 1 .. Len(q)
    BY <2>1, <1>1 DEF Ended, InStep
  <2>2. CASE i = Len(q) + 1 /\ q # <<>> /\ r[i - 1] = LastOf(q) /\ LastOf(q)[1] # e
    BY <2>2
  <2> QED
    BY <2>1, <2>2, <1>5
<1>8. Ordered(r)
  <2> SUFFICES ASSUME NEW i \in DOMAIN r, NEW k \in 1 .. i, r[i][1][1] = r[k][1][1]
               PROVE  r[k][1][2] <= r[i][1][2]
    BY DEF Ordered
  <2>1. CASE i \in 1 .. Len(q)
    <3>1. k \in 1 .. Len(q) /\ i \in DOMAIN q
      BY <2>1, <1>1, <1>2
    <3> QED
      BY <2>1, <3>1, <1>1 DEF Ordered, InStep
  <2>2. CASE i \in Len(q) + 1 .. Len(r)
    <3>1. r[i][1] = e
      BY <2>2, <1>3
    <3>2. CASE k \in 1 .. Len(q)
      BY <3>1, <3>2, <1>4
    <3>3. CASE k \in Len(q) + 1 .. Len(r)
      <4>1. r[k][1] = e /\ e[2] \in Nat
        BY <3>3, <1>3 DEF Entry
      <4> QED
        BY <3>1, <4>1
    <3> QED
      BY <3>2, <3>3, <1>1, <1>2
  <2> QED
    BY <2>1, <2>2, <1>1, <1>2
<1> QED
  BY <1>6, <1>7, <1>8 DEF r, InStep

\* A set of numbers that is not empty has a least one.
LEMMA LeastOf ==
  ASSUME NEW A \in SUBSET Nat, A # {}
  PROVE  \E i \in A : \A k \in A : i <= k
<1> DEFINE less == OpToRel(<, Nat)
<1>1. PICK i \in A : \A k \in A : <<k, i>> \notin less
  BY WFMin, NatLessThanWellFounded, Zenon
<1>2. \A k \in A : ~(k < i)
  BY <1>1 DEF OpToRel
<1> QED
  BY <1>2

\* A loop of n steps, of which the i-th makes g[x, i] of x, has a result after
\* every step.
Runs(f, S, base, n, g) ==
  f \in [0 .. n -> S] /\ f[0] = base /\ \A i \in 1 .. n : f[i] = g[<<f[i - 1], i>>]

\* There is one, for every such loop.
LEMMA RunExists ==
  ASSUME NEW S, NEW base \in S, NEW n \in Nat, NEW g \in [S \X (1 .. n) -> S]
  PROVE  \E f : Runs(f, S, base, n, g)
<1> DEFINE Upto(k) ==
      \E f \in [0 .. k -> S] : f[0] = base /\ \A i \in 1 .. k : f[i] = g[<<f[i - 1], i>>]
<1>1. Upto(0)
  <2> DEFINE f == [i \in 0 .. 0 |-> base]
  <2>1. f \in [0 .. 0 -> S] /\ f[0] = base
    OBVIOUS
  <2>2. \A i \in 1 .. 0 : f[i] = g[<<f[i - 1], i>>]
    OBVIOUS
  <2> QED
    BY <2>1, <2>2
<1>2. ASSUME NEW k \in Nat, k < n, Upto(k) PROVE Upto(k + 1)
  <2>1. PICK f \in [0 .. k -> S] : f[0] = base /\ \A i \in 1 .. k : f[i] = g[<<f[i - 1], i>>]
    BY <1>2
  <2> DEFINE h == [i \in 0 .. k + 1 |-> IF i <= k THEN f[i] ELSE g[<<f[k], k + 1>>]]
  <2>2. h \in [0 .. k + 1 -> S] /\ h[0] = base
    BY <1>2, <2>1
  <2>3. \A i \in 1 .. k + 1 : h[i] = g[<<h[i - 1], i>>]
    <3> SUFFICES ASSUME NEW i \in 1 .. k + 1 PROVE h[i] = g[<<h[i - 1], i>>]
      OBVIOUS
    <3>1. i \in 0 .. k + 1 /\ i - 1 \in 0 .. k + 1 /\ i - 1 <= k
      BY <1>2
    <3>2. h[i - 1] = f[i - 1]
      BY <3>1
    <3>3. CASE i <= k
      <4>1. h[i] = f[i] /\ i \in 1 .. k
        BY <3>1, <3>3
      <4> QED
        BY <2>1, <3>2, <4>1
    <3>4. CASE i = k + 1
      <4>1. h[i] = g[<<f[k], k + 1>>] /\ i - 1 = k
        BY <1>2, <3>1, <3>4
      <4> QED
        BY <3>2, <3>4, <4>1
    <3> QED
      BY <3>3, <3>4
  <2> QED
    BY <2>2, <2>3
<1> HIDE DEF Upto
<1>3. Upto(n)
  <2> DEFINE A == {k \in 0 .. n : ~Upto(k)}
  <2> SUFFICES ASSUME A # {} PROVE FALSE
    OBVIOUS
  <2>1. PICK k \in A : \A j \in A : k <= j
    <3> HIDE DEF A
    <3>1. A \in SUBSET Nat
      BY DEF A
    <3> QED
      BY <3>1, LeastOf
  <2>2. k # 0
    BY <1>1
  <2>3. k - 1 \in Nat /\ k - 1 < n /\ Upto(k - 1)
    BY <2>1, <2>2
  <2> QED
    BY <1>2, <2>1, <2>3
<1> QED
  BY <1>3 DEF Runs, Upto

\* What holds at the beginning, and is kept by every step, holds at the end.
LEMMA RunKeeps ==
  ASSUME NEW n \in Nat, NEW P, 0 \in P, \A i \in 1 .. n : i - 1 \in P => i \in P
  PROVE  0 .. n \subseteq P
<1> DEFINE A == {i \in 0 .. n : i \notin P}
<1> SUFFICES ASSUME A # {} PROVE FALSE
  OBVIOUS
<1>1. PICK k \in A : \A j \in A : k <= j
  <2> HIDE DEF A
  <2>1. A \in SUBSET Nat
    BY DEF A
  <2> QED
    BY <2>1, LeastOf
<1>2. k \in 1 .. n /\ k - 1 \in 0 .. n
  BY <1>1
<1> QED
  BY <1>1, <1>2

Chars == Seq(Char)

\* A buffer takes a piece whole, or not at all.
LEMMA BufferWritten ==
  ASSUME NEW buf \in Chars, NEW s \in Chars
  PROVE  /\ BufferWrite(buf, s) \in Chars
         /\ Len(BufferWrite(buf, s)) \in Nat
         /\ Len(BufferWrite(buf, s)) <= Len(buf) + Len(s)
         /\ buf # <<>> => BufferWrite(buf, s) # <<>>
         /\ Len(buf) + Len(s) < LineCap => BufferWrite(buf, s) = buf \o s
<1>1. /\ buf \o s \in Chars /\ Len(buf \o s) = Len(buf) + Len(s)
      /\ Len(buf) \in Nat /\ Len(s) \in Nat /\ LineCap \in Nat
  BY LoggerAssumption DEF Chars
<1>2. buf # <<>> => buf \o s # <<>>
  <2> SUFFICES ASSUME buf # <<>> PROVE buf \o s # <<>>
    OBVIOUS
  <2>1. Len(buf) > 0
    BY DEF Chars
  <2> QED
    BY <1>1, <2>1
<1> QED
  BY <1>1, <1>2 DEF BufferWrite

\* Text[m] is the last of what the loop over the pieces of m makes.
LEMMA TextIs ==
  ASSUME NEW m \in Messages
  PROVE  \E f \in [0 .. Len(Pieces[m]) -> Chars] :
           /\ f[0] = <<>> /\ Text[m] = f[Len(Pieces[m])]
           /\ \A i \in 1 .. Len(Pieces[m]) : f[i] = BufferWrite(f[i - 1], Pieces[m][i])
<1> DEFINE s == Pieces[m]
           n == Len(s)
           Is(f) == f = [i \in 0 .. Len(s) |-> IF i = 0 THEN <<>> ELSE BufferWrite(f[i - 1], s[i])]
           g == [x \in Chars \X (1 .. n) |-> BufferWrite(x[1], s[x[2]])]
<1>1. n \in Nat /\ \A i \in 1 .. n : s[i] \in Chars
  <2>1. s \in Seq(Seq(Letters))
    BY LoggerAssumption
  <2>2. n \in Nat /\ \A i \in 1 .. n : s[i] \in Seq(Letters)
    BY <2>1
  <2>3. Seq(Letters) \subseteq Chars
    BY DEF Chars, Char
  <2> QED
    BY <2>2, <2>3
<1>2. Text[m] = (CHOOSE f : Is(f))[n]
  BY Zenon DEF Text, Loop
<1>3. g \in [Chars \X (1 .. n) -> Chars]
  BY <1>1, BufferWritten
<1>4. <<>> \in Chars
  BY DEF Chars
<1> HIDE DEF g, n
<1>5. PICK f : Runs(f, Chars, <<>>, n, g)
  BY <1>1, <1>3, <1>4, RunExists, Zenon
<1>6. ASSUME NEW i \in 1 .. n PROVE f[i] = BufferWrite(f[i - 1], s[i])
  <2>1. <<f[i - 1], i>> \in Chars \X (1 .. n)
    BY <1>1, <1>5 DEF Runs
  <2>2. g[<<f[i - 1], i>>] = BufferWrite(f[i - 1], s[i])
    BY <2>1 DEF g
  <2> QED
    BY <1>5, <2>2 DEF Runs
<1>7. Is(f)
  <2>1. \A i \in 0 .. n : f[i] = IF i = 0 THEN <<>> ELSE BufferWrite(f[i - 1], s[i])
    BY <1>1, <1>5, <1>6 DEF Runs
  <2> QED
    BY <2>1, <1>5 DEF Runs, n
<1> DEFINE h == CHOOSE k : Is(k)
<1>8. Is(h) /\ Text[m] = h[n]
  <2>1. Is(h)
    BY <1>7
  <2> QED
    BY <1>2, <2>1 DEF n
<1> HIDE DEF h
<1>9. h[0] = <<>> /\ \A i \in 1 .. n : h[i] = BufferWrite(h[i - 1], s[i])
  <2>1. \A i \in 0 .. n : h[i] = IF i = 0 THEN <<>> ELSE BufferWrite(h[i - 1], s[i])
    BY <1>8, Zenon DEF n
  <2> QED
    BY <1>1, <2>1
<1>10. \A i \in 0 .. n : h[i] \in Chars
  <2> DEFINE P == {i \in 0 .. n : h[i] \in Chars}
  <2>1. 0 \in P
    BY <1>1, <1>4, <1>9
  <2>2. ASSUME NEW i \in 1 .. n, i - 1 \in P PROVE i \in P
    <3>1. h[i - 1] \in Chars /\ s[i] \in Chars
      BY <1>1, <2>2
    <3> QED
      BY <1>9, <3>1, BufferWritten
  <2> HIDE DEF P
  <2>3. 0 .. n \subseteq P
    BY <1>1, <2>1, <2>2, RunKeeps, Zenon
  <2> QED
    BY <2>3 DEF P
<1>11. h \in [0 .. n -> Chars]
  BY <1>8, <1>10 DEF n
<1> QED
  BY <1>8, <1>9, <1>11 DEF n

\* Sequences of one element, of two, and of n that are the same.
LEMMA ShortSeqs ==
  ASSUME NEW T, NEW c \in T, NEW d \in T, NEW n \in Nat
  PROVE  /\ <<c>> \in Seq(T) /\ Len(<<c>>) = 1
         /\ <<c, d>> \in Seq(T)
         /\ [i \in 1 .. n |-> c] \in Seq(T) /\ Len([i \in 1 .. n |-> c]) = n
OBVIOUS

\* What Console::entry makes of a character.
ConsolePut(text, c) == text \o IF c = "n" THEN <<"n", "s">> ELSE <<c>>

\* It is one character, or two.
LEMMA ConsolePutTyped ==
  ASSUME NEW text \in Chars, NEW c \in Char
  PROVE  ConsolePut(text, c) \in Chars
<1>1. "n" \in Char /\ "s" \in Char
  BY DEF Char
<1>2. <<c>> \in Chars /\ <<"n", "s">> \in Chars
  BY <1>1, ShortSeqs, 0 \in Nat, Zenon DEF Chars
<1>3. \A a, b \in Chars : a \o b \in Chars
  BY DEF Chars
<1> QED
  BY <1>2, <1>3, Zenon DEF ConsolePut

\* What File::entry makes of a character.
FilePut(buf, c) ==
  BufferWrite(IF c = "n" THEN BufferWrite(buf, [i \in 1 .. Indent |-> "s"]) ELSE buf, <<c>>)

\* A character needs one place in the buffer, and a newline those of its blanks.
LEMMA FilePutTyped ==
  ASSUME NEW buf \in Chars, NEW c \in Char
  PROVE  /\ FilePut(buf, c) \in Chars
         /\ buf # <<>> => FilePut(buf, c) # <<>>
         /\ Len(FilePut(buf, c)) <= Len(buf) + 1 + (IF c = "n" THEN Indent ELSE 0)
<1> DEFINE blanks == [i \in 1 .. Indent |-> "s"]
           b == IF c = "n" THEN BufferWrite(buf, blanks) ELSE buf
<1>a. "s" \in Char
  BY DEF Char
<1>1. blanks \in Chars /\ Len(blanks) = Indent /\ Indent \in Nat
  <2>1. Indent \in Nat
    BY LoggerAssumption
  <2> QED
    BY <1>a, <2>1, ShortSeqs DEF Chars
<1> HIDE DEF blanks
<1>2. <<c>> \in Chars /\ Len(<<c>>) = 1 /\ Len(buf) \in Nat
  <2>0. Len(buf) \in Nat
    BY DEF Chars
  <2>1. <<c>> \in Chars /\ Len(<<c>>) = 1
    BY <1>a, LoggerAssumption, ShortSeqs, Zenon DEF Chars
  <2> QED
    BY <2>0, <2>1
<1>3. /\ b \in Chars /\ Len(b) \in Nat /\ (buf # <<>> => b # <<>>)
      /\ Len(b) <= Len(buf) + (IF c = "n" THEN Indent ELSE 0)
  BY <1>1, <1>2, BufferWritten
<1> HIDE DEF b
<1>4. /\ BufferWrite(b, <<c>>) \in Chars /\ Len(BufferWrite(b, <<c>>)) \in Nat
      /\ Len(BufferWrite(b, <<c>>)) <= Len(b) + 1
      /\ b # <<>> => BufferWrite(b, <<c>>) # <<>>
  BY <1>2, <1>3, BufferWritten
<1>5. FilePut(buf, c) = BufferWrite(b, <<c>>)
  BY Zenon DEF FilePut, b, blanks
<1> QED
  BY <1>1, <1>2, <1>3, <1>4, <1>5

\* What Text[m] is.
LEMMA TextTyped == ASSUME NEW m \in Messages PROVE Text[m] \in Chars
<1>1. Len(Pieces[m]) \in Nat
  BY LoggerAssumption
<1> QED
  BY <1>1, TextIs

\* ConsoleLine[m] is the last of what the loop over the text makes.
LEMMA ConsoleLineIs ==
  ASSUME NEW m \in Messages
  PROVE  \E f \in [0 .. Len(Text[m]) -> Chars] :
           /\ f[0] = <<>> /\ ConsoleLine[m] = f[Len(Text[m])]
           /\ \A i \in 1 .. Len(Text[m]) : f[i] = ConsolePut(f[i - 1], Text[m][i])
<1> DEFINE s == Text[m]
           n == Len(s)
           Is(f) == f = [i \in 0 .. Len(s) |-> IF i = 0 THEN <<>> ELSE ConsolePut(f[i - 1], s[i])]
           g == [x \in Chars \X (1 .. n) |-> ConsolePut(x[1], s[x[2]])]
<1>1. n \in Nat /\ \A i \in 1 .. n : s[i] \in Char
  <2>1. s \in Chars
    BY TextTyped
  <2> QED
    BY <2>1 DEF Chars
<1>2. ConsoleLine[m] = (CHOOSE f : Is(f))[n]
  BY Zenon DEF ConsoleLine, Loop, ConsolePut
<1>3. g \in [Chars \X (1 .. n) -> Chars]
  BY <1>1, ConsolePutTyped
<1>4. <<>> \in Chars
  BY DEF Chars
<1> HIDE DEF g, n
<1>5. PICK f : Runs(f, Chars, <<>>, n, g)
  BY <1>1, <1>3, <1>4, RunExists, Zenon
<1>6. ASSUME NEW i \in 1 .. n PROVE f[i] = ConsolePut(f[i - 1], s[i])
  <2>1. <<f[i - 1], i>> \in Chars \X (1 .. n)
    BY <1>1, <1>5 DEF Runs
  <2>2. g[<<f[i - 1], i>>] = ConsolePut(f[i - 1], s[i])
    BY <2>1 DEF g
  <2> QED
    BY <1>5, <2>2 DEF Runs
<1>7. Is(f)
  <2>1. \A i \in 0 .. n : f[i] = IF i = 0 THEN <<>> ELSE ConsolePut(f[i - 1], s[i])
    BY <1>1, <1>5, <1>6 DEF Runs
  <2> QED
    BY <2>1, <1>5 DEF Runs, n
<1> DEFINE h == CHOOSE k : Is(k)
<1>8. Is(h) /\ ConsoleLine[m] = h[n]
  <2>1. Is(h)
    BY <1>7
  <2> QED
    BY <1>2, <2>1 DEF n
<1> HIDE DEF h
<1>9. h[0] = <<>> /\ \A i \in 1 .. n : h[i] = ConsolePut(h[i - 1], s[i])
  <2>1. \A i \in 0 .. n : h[i] = IF i = 0 THEN <<>> ELSE ConsolePut(h[i - 1], s[i])
    BY <1>8, Zenon DEF n
  <2> QED
    BY <1>1, <2>1
<1>10. \A i \in 0 .. n : h[i] \in Chars
  <2> DEFINE P == {i \in 0 .. n : h[i] \in Chars}
  <2>1. 0 \in P
    BY <1>1, <1>4, <1>9
  <2>2. ASSUME NEW i \in 1 .. n, i - 1 \in P PROVE i \in P
    <3>1. h[i - 1] \in Chars /\ s[i] \in Char
      BY <1>1, <2>2
    <3> QED
      BY <1>9, <3>1, ConsolePutTyped
  <2> HIDE DEF P
  <2>3. 0 .. n \subseteq P
    BY <1>1, <2>1, <2>2, RunKeeps, Zenon
  <2> QED
    BY <2>3 DEF P
<1>11. h \in [0 .. n -> Chars]
  BY <1>8, <1>10 DEF n
<1> QED
  BY <1>8, <1>9, <1>11 DEF n

\* The buffer of a file with the head of a line, and with the message.
Begun == BufferWrite(<<>>, <<"h">>)
Filled(m) == Loop(FilePut, Begun, Text[m])

\* There is room for the head.
LEMMA HeadTyped == Begun = <<"h">> /\ Begun \in Chars
<1>1. "h" \in Char
  BY DEF Char
<1>2. <<"h">> \in Chars /\ Len(<<"h">>) = 1
  BY <1>1, ShortSeqs DEF Chars
<1>3. LineCap > 1 /\ LineCap \in Nat
  BY LoggerAssumption
<1>4. BufferWrite(<<>>, <<"h">>) = <<>> \o <<"h">>
  <2>1. Len(<<>>) + Len(<<"h">>) = 1
    BY <1>2
  <2> QED
    BY <1>3, <2>1 DEF BufferWrite
<1>5. <<>> \o <<"h">> = <<"h">>
  BY <1>2 DEF Chars
<1> QED
  BY <1>2, <1>4, <1>5, Zenon DEF Begun

\* A line of a file ends with what the loop over the text makes, and a newline.
LEMMA FileLineIs ==
  ASSUME NEW m \in Messages
  PROVE  \E f \in [0 .. Len(Text[m]) -> Chars] :
           /\ f[0] = Begun /\ Filled(m) = f[Len(Text[m])]
           /\ \A i \in 1 .. Len(Text[m]) : f[i] = FilePut(f[i - 1], Text[m][i])
<1> DEFINE s == Text[m]
           n == Len(s)
           Is(f) == f = [i \in 0 .. Len(s) |-> IF i = 0 THEN Begun ELSE FilePut(f[i - 1], s[i])]
           g == [x \in Chars \X (1 .. n) |-> FilePut(x[1], s[x[2]])]
<1>1. n \in Nat /\ \A i \in 1 .. n : s[i] \in Char
  <2>1. s \in Chars
    BY TextTyped
  <2> QED
    BY <2>1 DEF Chars
<1>2. Filled(m) = (CHOOSE f : Is(f))[n]
  BY Zenon DEF Filled, Loop, Begun, FilePut
<1>3. g \in [Chars \X (1 .. n) -> Chars]
  BY <1>1, FilePutTyped
<1>4. Begun \in Chars
  BY HeadTyped
<1> HIDE DEF g, n
<1>5. PICK f : Runs(f, Chars, Begun, n, g)
  BY <1>1, <1>3, <1>4, RunExists, Zenon
<1>6. ASSUME NEW i \in 1 .. n PROVE f[i] = FilePut(f[i - 1], s[i])
  <2>1. <<f[i - 1], i>> \in Chars \X (1 .. n)
    BY <1>1, <1>5 DEF Runs
  <2>2. g[<<f[i - 1], i>>] = FilePut(f[i - 1], s[i])
    BY <2>1 DEF g
  <2> QED
    BY <1>5, <2>2 DEF Runs
<1>7. Is(f)
  <2>1. \A i \in 0 .. n : f[i] = IF i = 0 THEN Begun ELSE FilePut(f[i - 1], s[i])
    BY <1>1, <1>5, <1>6 DEF Runs
  <2> QED
    BY <2>1, <1>5 DEF Runs, n
<1> DEFINE h == CHOOSE k : Is(k)
<1>8. Is(h) /\ Filled(m) = h[n]
  <2>1. Is(h)
    BY <1>7
  <2> QED
    BY <1>2, <2>1 DEF n
<1> HIDE DEF h
<1>9. h[0] = Begun /\ \A i \in 1 .. n : h[i] = FilePut(h[i - 1], s[i])
  <2>1. \A i \in 0 .. n : h[i] = IF i = 0 THEN Begun ELSE FilePut(h[i - 1], s[i])
    BY <1>8, Zenon DEF n
  <2> QED
    BY <1>1, <2>1
<1>10. \A i \in 0 .. n : h[i] \in Chars
  <2> DEFINE P == {i \in 0 .. n : h[i] \in Chars}
  <2>1. 0 \in P
    BY <1>1, <1>4, <1>9
  <2>2. ASSUME NEW i \in 1 .. n, i - 1 \in P PROVE i \in P
    <3>1. h[i - 1] \in Chars /\ s[i] \in Char
      BY <1>1, <2>2
    <3> QED
      BY <1>9, <3>1, FilePutTyped
  <2> HIDE DEF P
  <2>3. 0 .. n \subseteq P
    BY <1>1, <2>1, <2>2, RunKeeps, Zenon
  <2> QED
    BY <2>3 DEF P
<1>11. h \in [0 .. n -> Chars]
  BY <1>8, <1>10 DEF n
<1> QED
  BY <1>8, <1>9, <1>11 DEF n

\* A newline more.
LEMMA NewlinesCounted ==
  ASSUME NEW s \in Chars, NEW k \in 1 .. Len(s)
  PROVE  /\ Cardinality({j \in 1 .. k : s[j] = "n"}) \in Nat
         /\ Cardinality({j \in 1 .. k - 1 : s[j] = "n"}) \in Nat
         /\ Cardinality({j \in 1 .. k : s[j] = "n"})
              = Cardinality({j \in 1 .. k - 1 : s[j] = "n"}) + (IF s[k] = "n" THEN 1 ELSE 0)
<1> DEFINE A == {j \in 1 .. k : s[j] = "n"}
           B == {j \in 1 .. k - 1 : s[j] = "n"}
<1>1. k \in Nat /\ k >= 1
  BY DEF Chars
<1>2. IsFiniteSet(B) /\ IsFiniteSet(A)
  <2>1. IsFiniteSet(1 .. k - 1) /\ IsFiniteSet(1 .. k)
    BY <1>1, FS_Interval
  <2>2. B \subseteq 1 .. k - 1 /\ A \subseteq 1 .. k
    OBVIOUS
  <2> QED
    BY <2>1, <2>2, FS_Subset
<1>3. A = IF s[k] = "n" THEN B \cup {k} ELSE B
  BY <1>1
<1>4. k \notin B
  BY <1>1
<1> HIDE DEF A, B
<1>5. Cardinality(A) \in Nat /\ Cardinality(B) \in Nat
  BY <1>2, FS_CardinalityType
<1>6. Cardinality(B \cup {k}) = Cardinality(B) + 1
  BY <1>2, <1>4, FS_AddElement
<1>7. Cardinality(A) = Cardinality(B) + (IF s[k] = "n" THEN 1 ELSE 0)
  BY <1>3, <1>5, <1>6
<1> QED
  BY <1>5, <1>7 DEF A, B

\* The buffer of a file holds no more than the head, the message, and a margin
\* for each of its newlines; and not nothing.
LEMMA FilledLength ==
  ASSUME NEW m \in Messages
  PROVE  /\ Filled(m) \in Chars /\ Filled(m) # <<>>
         /\ Len(Filled(m)) <= 1 + Len(Text[m])
              + Indent * Cardinality({i \in DOMAIN Text[m] : Text[m][i] = "n"})
<1> DEFINE s == Text[m]
           n == Len(s)
           N(k) == Cardinality({j \in 1 .. k : s[j] = "n"})
<1>1. s \in Chars /\ n \in Nat /\ DOMAIN s = 1 .. n /\ \A i \in 1 .. n : s[i] \in Char
  <2>1. s \in Chars
    BY TextTyped
  <2> QED
    BY <2>1 DEF Chars
<1>2. Indent \in Nat
  BY LoggerAssumption
<1>3. PICK f \in [0 .. n -> Chars] :
        /\ f[0] = Begun /\ Filled(m) = f[n]
        /\ \A i \in 1 .. n : f[i] = FilePut(f[i - 1], s[i])
  BY FileLineIs
<1> HIDE DEF s, n
<1> DEFINE P == {i \in 0 .. n : f[i] # <<>> /\ Len(f[i]) <= 1 + i + Indent * N(i)}
<1>4. 0 \in P
  <2>1. {j \in 1 .. 0 : s[j] = "n"} = {}
    OBVIOUS
  <2>2. N(0) = 0
    BY <2>1, FS_EmptySet
  <2>3. f[0] = <<"h">> /\ Len(<<"h">>) = 1 /\ <<"h">> # <<>>
    BY <1>3, HeadTyped
  <2> HIDE DEF N
  <2> QED
    BY <1>1, <1>2, <2>2, <2>3
<1>5. ASSUME NEW i \in 1 .. n, i - 1 \in P PROVE i \in P
  <2>1. f[i - 1] \in Chars /\ s[i] \in Char /\ f[i] = FilePut(f[i - 1], s[i]) /\ f[i] \in Chars
    BY <1>1, <1>3
  <2>2. f[i] # <<>> /\ Len(f[i]) <= Len(f[i - 1]) + 1 + (IF s[i] = "n" THEN Indent ELSE 0)
    BY <2>1, <1>5, FilePutTyped
  <2>3. N(i) \in Nat /\ N(i - 1) \in Nat /\ N(i) = N(i - 1) + (IF s[i] = "n" THEN 1 ELSE 0)
    <3>1. i \in 1 .. Len(s)
      BY DEF n
    <3> QED
      BY <1>1, <3>1, NewlinesCounted
  <2>4. Len(f[i]) \in Nat /\ Len(f[i - 1]) \in Nat
    BY <2>1 DEF Chars
  <2>5. Len(f[i - 1]) <= 1 + (i - 1) + Indent * N(i - 1)
    BY <1>5
  <2> HIDE DEF N
  <2>6. Indent * N(i) = Indent * N(i - 1) + (IF s[i] = "n" THEN Indent ELSE 0)
    BY <1>2, <2>3
  <2>7. Indent * N(i - 1) \in Nat
    BY <1>2, <2>3
  <2>8. Len(f[i]) <= 1 + i + Indent * N(i)
    <3> DEFINE before == Indent * N(i - 1)
               more == IF s[i] = "n" THEN Indent ELSE 0
               long == Len(f[i])
               short == Len(f[i - 1])
    <3>1. before \in Nat /\ more \in Nat /\ long \in Nat /\ short \in Nat /\ i \in Nat
      BY <2>4, <2>7, <1>1, <1>2
    <3>2. long <= short + 1 + more /\ short <= 1 + (i - 1) + before /\ Indent * N(i) = before + more
      BY <2>2, <2>5, <2>6
    <3> HIDE DEF before, more, long, short
    <3>3. long <= 1 + i + (before + more)
      BY <3>1, <3>2
    <3> QED
      BY <3>2, <3>3 DEF long
  <2> QED
    BY <2>2, <2>8
<1> HIDE DEF P
<1>6. 0 .. n \subseteq P
  BY <1>1, <1>4, <1>5, RunKeeps, Zenon
<1>7. n \in P
  BY <1>1, <1>6
<1>8. f[n] # <<>> /\ Len(f[n]) <= 1 + n + Indent * N(n) /\ f[n] \in Chars
  BY <1>1, <1>3, <1>7 DEF P
<1> QED
  BY <1>1, <1>3, <1>8 DEF s, n

\* A line of a file is not empty; it ends in a newline if there was room.
LEMMA FileLineTyped ==
  ASSUME NEW m \in Messages
  PROVE  /\ FileLine[m] \in Chars /\ FileLine[m] # <<>>
         /\ FileLineFits[m] => FileLine[m][Len(FileLine[m])] = "n"
<1> DEFINE b == Filled(m)
           c == Indent * Cardinality({i \in DOMAIN Text[m] : Text[m][i] = "n"})
<1>1. FileLine[m] = BufferWrite(b, <<"n">>)
  BY Zenon DEF FileLine, Filled, Begun, FilePut
<1>2. b \in Chars /\ b # <<>> /\ Len(b) <= 1 + Len(Text[m]) + c
  BY FilledLength
<1>3. <<"n">> \in Chars /\ Len(<<"n">>) = 1
  <2>1. "n" \in Char
    BY DEF Char
  <2> QED
    BY <2>1, ShortSeqs DEF Chars
<1>4. FileLineFits[m] <=> Len(Text[m]) + c + 2 < LineCap
  BY DEF FileLineFits
<1> HIDE DEF b, c
<1>5. FileLine[m] \in Chars /\ FileLine[m] # <<>>
  BY <1>1, <1>2, <1>3, BufferWritten
<1>6. ASSUME FileLineFits[m] PROVE FileLine[m][Len(FileLine[m])] = "n"
  <2>1. Len(b) \in Nat /\ Len(Text[m]) \in Nat /\ LineCap \in Nat
    BY <1>2, TextTyped, LoggerAssumption DEF Chars
  <2>2. c \in Nat
    <3> DEFINE A == {i \in DOMAIN Text[m] : Text[m][i] = "n"}
    <3>1. IsFiniteSet(1 .. Len(Text[m])) /\ A \subseteq 1 .. Len(Text[m])
      <4>1. IsFiniteSet(1 .. Len(Text[m]))
        BY <2>1, FS_Interval
      <4>2. DOMAIN Text[m] = 1 .. Len(Text[m])
        BY TextTyped DEF Chars
      <4> QED
        BY <4>1, <4>2
    <3> HIDE DEF A
    <3>2. Cardinality(A) \in Nat
      BY <3>1, FS_Subset, FS_CardinalityType
    <3> QED
      BY <3>2, LoggerAssumption DEF c, A
  <2>3. Len(b) + 1 < LineCap
    BY <1>2, <1>4, <1>6, <2>1, <2>2
  <2>4. FileLine[m] = b \o <<"n">>
    BY <1>1, <1>2, <1>3, <2>3, BufferWritten
  <2>5. Len(b \o <<"n">>) = Len(b) + 1 /\ (b \o <<"n">>)[Len(b) + 1] = "n"
    BY <1>2, <1>3, <2>1 DEF Chars
  <2> QED
    BY <2>4, <2>5
<1> QED
  BY <1>5, <1>6

\* A step of the logger that writes s to the b-th backend, for t.
Written(t, b, s) ==
  out' = [out EXCEPT ![b] = @ \o By(t, s)]

\* What such a step changes.
LEMMA WrittenIs ==
  ASSUME LogInv, NEW t \in Thread, pc[t] # "idle", NEW b \in Backend, NEW s \in Chars, Written(t, b, s)
  PROVE  /\ out' \in [Backend -> Lines]
         /\ \A c \in Backend : c # b => out'[c] = out[c]
         /\ s = <<>> => out'[b] = out[b]
         /\ s # <<>> => out'[b] = out[b] \o Tagged(entry[t], s)
<1>1. out[b] \in Lines /\ entry[t] \in Entry /\ out \in [Backend -> Lines]
  BY DEF LogInv, LogTyped, EntriesTyped
<1>2. By(t, s) = Tagged(entry[t], s)
  BY DEF By, Tagged
<1>3. out[b] \o Tagged(entry[t], s) \in Lines /\ (s = <<>> => out[b] \o Tagged(entry[t], s) = out[b])
  <2>1. CASE s # <<>>
    BY <1>1, <2>1, AppendedAt DEF Chars
  <2>2. CASE s = <<>>
    <3> DEFINE T == Entry \X Char
    <3>1. Tagged(entry[t], s) = <<>>
      BY <2>2 DEF Tagged
    <3>2. out[b] \in Seq(T)
      BY <1>1 DEF Lines
    <3> HIDE DEF T
    <3>3. out[b] \o <<>> = out[b]
      BY <3>2
    <3> QED
      BY <1>1, <3>1, <3>3, <2>2
  <2> QED
    BY <2>1, <2>2
<1>4. out' = [out EXCEPT ![b] = out[b] \o Tagged(entry[t], s)]
  BY <1>2 DEF Written
<1> QED
  BY <1>1, <1>3, <1>4

\* The steps that write, by what they write, where and for whom.
LEMMA ConsoleOpenWrites ==
  ASSUME LogInv, NEW t \in Thread, ConsoleOpen(t)
  PROVE  /\ pc[t] = "call" /\ 1 \in Backend /\ <<"p">> \in Chars /\ <<"p">> # <<>>
         /\ Written(t, 1, <<"p">>) /\ iter[t].at = 0
<1>1. "p" \in Char
  BY DEF Char
<1>2. <<"p">> \in Chars /\ Len(<<"p">>) = 1
  BY <1>1, ShortSeqs DEF Chars
<1>3. 1 \in Backend
  BY LoggerAssumption DEF Backend
<1> QED
  BY <1>2, <1>3 DEF ConsoleOpen, AtBackend, Written

\* The line of the message is written to the console, even one without a character.
LEMMA ConsoleTextWrites ==
  ASSUME LogInv, NEW t \in Thread, ConsoleText(t)
  PROVE  /\ pc[t] = "locked" /\ 1 \in Backend /\ ConsoleLine[entry[t][3]] \in Chars
         /\ Written(t, 1, ConsoleLine[entry[t][3]])
<1>1. entry[t][3] \in Messages
  BY DEF ConsoleText, LogInv, EntriesTyped, Entry
<1>2. ConsoleLine[entry[t][3]] \in Chars
  <2>1. Len(Text[entry[t][3]]) \in Nat
    BY <1>1, TextTyped DEF Chars
  <2> QED
    BY <1>1, <2>1, ConsoleLineIs
<1>3. 1 \in Backend
  BY LoggerAssumption DEF Backend
<1> QED
  BY <1>2, <1>3 DEF ConsoleText, Written

\* The end of the line is written to the console.
LEMMA ConsoleCloseWrites ==
  ASSUME LogInv, NEW t \in Thread, ConsoleClose(t)
  PROVE  /\ pc[t] = "close" /\ 1 \in Backend /\ <<"t", "n">> \in Chars /\ <<"t", "n">> # <<>>
         /\ Written(t, 1, <<"t", "n">>)
<1>1. "t" \in Char /\ "n" \in Char
  BY DEF Char
<1>2. <<"t", "n">> \in Chars /\ <<"t", "n">> # <<>>
  BY <1>1, ShortSeqs DEF Chars
<1>3. 1 \in Backend
  BY LoggerAssumption DEF Backend
<1> QED
  BY <1>2, <1>3 DEF ConsoleClose, Written

\* A file gets a line, or a part of it after which faults are counted, or nothing.
LEMMA FileEntryWrites ==
  ASSUME LogInv, NEW t \in Thread, FileEntry(t)
  PROVE  /\ pc[t] = "call" /\ iter[t].at + 1 \in Backend /\ iter[t].at + 1 <= backends
         /\ iter[t].at \in Nat \ {0} /\ out' \in [Backend -> Lines]
         /\ \/ \E s \in Chars :
                 /\ s # <<>> /\ Written(t, iter[t].at + 1, s)
                 /\ iter' = [iter EXCEPT ![t].at = @ + 1] /\ UNCHANGED pc
                 /\ \/ UNCHANGED faults /\ (FileLineFits[entry[t][3]] => s[Len(s)] = "n")
                    \/ faults' = faults + 1
            \/ faults' = faults + 1 /\ pc' = [pc EXCEPT ![t] = "idle"] /\ UNCHANGED <<out, iter>>
<1> DEFINE line == FileLine[entry[t][3]]
           b == iter[t].at + 1
<1>1. entry[t][3] \in Messages
  BY DEF FileEntry, AtBackend, LogInv, EntriesTyped, Entry
<1>2. line \in Chars /\ line # <<>> /\ (FileLineFits[entry[t][3]] => line[Len(line)] = "n")
  BY <1>1, FileLineTyped
<1>3. pc[t] = "call" /\ iter[t].at \in Nat \ {0} /\ b \in Backend /\ b <= backends
  <2>1. iter[t].at \in Nat /\ iter[t].end \in Nat /\ backends \in 1 .. MaxBackends /\ MaxBackends \in Nat
    BY LoggerAssumption DEF LogInv, LogTyped, Backend
  <2>2. iter[t].at > 0 /\ iter[t].at < backends /\ pc[t] = "call"
    BY DEF FileEntry, AtBackend
  <2> QED
    BY <2>1, <2>2 DEF Backend
<1>4. \/ Written(t, b, line) /\ iter' = [iter EXCEPT ![t].at = @ + 1] /\ UNCHANGED <<faults, pc>>
      \/ /\ \E n \in 1 .. Len(line) - 1 : Written(t, b, SubSeq(line, 1, n))
         /\ iter' = [iter EXCEPT ![t].at = @ + 1] /\ UNCHANGED pc /\ faults' = faults + 1
      \/ faults' = faults + 1 /\ pc' = [pc EXCEPT ![t] = "idle"] /\ UNCHANGED <<out, iter>>
  BY Zenon DEF FileEntry, Written
<1>5. ASSUME NEW n \in 1 .. Len(line) - 1
      PROVE  SubSeq(line, 1, n) \in Chars /\ SubSeq(line, 1, n) # <<>>
  <2> HIDE DEF line
  <2>1. Len(line) \in Nat /\ 1 \in 1 .. Len(line) /\ n \in 1 .. Len(line)
    BY <1>2 DEF Chars
  <2>2. SubSeq(line, 1, n) \in Chars /\ Len(SubSeq(line, 1, n)) = n
    BY <1>2, <2>1 DEF Chars
  <2> QED
    BY <2>1, <2>2
<1> HIDE DEF line, b
<1>6. out' \in [Backend -> Lines]
  <2>1. out \in [Backend -> Lines]
    BY DEF LogInv, LogTyped
  <2> QED
    BY <1>2, <1>3, <1>4, <1>5, <2>1, WrittenIs
<1>7. \/ \E s \in Chars :
            /\ s # <<>> /\ Written(t, b, s)
            /\ iter' = [iter EXCEPT ![t].at = @ + 1] /\ UNCHANGED pc
            /\ \/ UNCHANGED faults /\ (FileLineFits[entry[t][3]] => s[Len(s)] = "n")
               \/ faults' = faults + 1
      \/ faults' = faults + 1 /\ pc' = [pc EXCEPT ![t] = "idle"] /\ UNCHANGED <<out, iter>>
  BY <1>2, <1>4, <1>5
<1> QED
  BY <1>3, <1>6, <1>7 DEF b

\* The place of an iteration changes, or its end.
LEMMA IterTyped ==
  ASSUME NEW f \in [Thread -> [block : Nat, at : Nat, end : Nat]], NEW t \in Thread, NEW n \in Nat
  PROVE  /\ [f EXCEPT ![t].at = n] \in [Thread -> [block : Nat, at : Nat, end : Nat]]
         /\ [f EXCEPT ![t].end = n] \in [Thread -> [block : Nat, at : Nat, end : Nat]]
         /\ \A u \in Thread : u # t => [f EXCEPT ![t].at = n][u] = f[u]
         /\ [f EXCEPT ![t].at = n][t] = [block |-> f[t].block, at |-> n, end |-> f[t].end]
<1>1. f[t] \in [block : Nat, at : Nat, end : Nat]
  OBVIOUS
<1>2. [f[t] EXCEPT !.at = n] = [block |-> f[t].block, at |-> n, end |-> f[t].end]
  BY <1>1
<1>3. [f[t] EXCEPT !.end = n] = [block |-> f[t].block, at |-> f[t].at, end |-> n]
  BY <1>1
<1> QED
  BY <1>1, <1>2, <1>3

\* Every step keeps the variables in their types, the vector in its capacity,
\* and the iterations in the vector.
LEMMA CoreKept ==
  ASSUME LogInv, [LogNext]_logVars
  PROVE  LogTyped' /\ MovedByGrowth' /\ ThreadsInStep'
<1> USE LoggerAssumption DEF LogInv, InConsole, storeVars, threadVars
<1>1. ASSUME SetLevel PROVE LogTyped' /\ MovedByGrowth' /\ ThreadsInStep'
  BY <1>1 DEF SetLevel, LogTyped, MovedByGrowth, ThreadsInStep
<1>2. ASSUME NEW t \in Thread, AddReserve(t) PROVE LogTyped' /\ MovedByGrowth' /\ ThreadsInStep'
  <2>1. CASE backends + 1 <= cap
    BY <1>2, <2>1 DEF AddReserve, Backend, LogTyped, MovedByGrowth, ThreadsInStep
  <2>2. CASE ~(backends + 1 <= cap)
    <3>1. Growth(cap) \in Nat /\ Growth(cap) > cap
      BY GrowthAbove DEF LogTyped
    <3>2. cap' = Growth(cap) /\ block' = block + 1
      BY <1>2, <2>2 DEF AddReserve
    <3>3. cap' \in Nat /\ cap' > cap /\ block' \in Nat /\ cap \in Nat /\ backends \in Nat /\ Align \in Nat /\ block \in Nat
      <4>1. cap \in Nat /\ backends \in Nat /\ block \in Nat /\ Align \in Nat
        BY DEF Backend, LogTyped
      <4> DEFINE new == Growth(cap)
      <4>2. cap' = new /\ new \in Nat /\ new > cap
        BY <3>1, <3>2
      <4>3. block' \in Nat
        BY <3>2, <4>1
      <4> HIDE DEF new
      <4> QED
        BY <4>1, <4>2, <4>3
    <3>5. /\ UNCHANGED <<level, backends, pc, entry, iter, calls, holder, out, faults, astray>>
          /\ backends < MaxBackends
      BY <1>2 DEF AddReserve
    <3>9. cap >= backends /\ cap >= Align
      BY DEF LogTyped
    <3>10. backends' = backends
      BY <3>5
    <3>4. cap' >= backends' + 1 /\ cap' > Align
      BY <3>3, <3>9, <3>10
    <3>6. LogTyped'
      <4>1. cap' \in Nat /\ cap' >= backends' /\ cap' >= Align /\ block' \in Nat /\ backends' + 1 <= cap'
        BY <3>3, <3>4, <3>5
      <4> QED
        BY <3>5, <4>1 DEF LogTyped
    <3>7. MovedByGrowth'
      BY <3>4 DEF MovedByGrowth
    <3>8. ThreadsInStep'
      <4>1. \A u \in Thread : iter[u].block \in Nat
        BY DEF LogTyped
      <4>2. \A u \in Thread : iter[u].block <= block'
        BY <3>2, <3>3, <4>1 DEF ThreadsInStep
      <4> QED
        BY <3>5, <4>2 DEF ThreadsInStep
    <3> QED
      BY <3>6, <3>7, <3>8
  <2> QED
    BY <2>1, <2>2
<1>3. ASSUME NEW t \in Thread, AddCount(t) PROVE LogTyped' /\ MovedByGrowth' /\ ThreadsInStep'
  <2>1. adding # <<>>
    <3>1. <<t, "write">> # <<>>
      OBVIOUS
    <3> QED
      BY <1>3, <3>1 DEF AddCount
  <2>5. /\ backends' = backends + 1 /\ adding' = <<>>
        /\ UNCHANGED <<level, cap, block, threadVars, holder, out, faults, astray>>
    BY <1>3 DEF AddCount
  <2>6. backends < MaxBackends /\ backends + 1 <= cap /\ cap >= Align /\ cap \in Nat /\ block \in Nat
    BY <2>1 DEF LogTyped
  <2>7. backends \in Nat /\ backends >= 1 /\ MaxBackends \in Nat
    BY DEF LogTyped, Backend
  <2>2. backends' = backends + 1 /\ backends' \in Backend /\ backends' <= cap /\ backends \in Nat
    BY <2>5, <2>6, <2>7 DEF Backend
  <2>3. LogTyped' /\ MovedByGrowth'
    <3>1. level' \in Levels /\ cap' \in Nat /\ cap' >= backends' /\ cap' >= Align /\ block' \in Nat
      <4>1. level \in Levels
        BY DEF LogTyped
      <4> QED
        BY <2>2, <2>5, <2>6, <4>1
    <3>2. LogTyped'
      BY <2>2, <2>5, <3>1 DEF LogTyped
    <3>3. MovedByGrowth'
      BY <2>5 DEF MovedByGrowth
    <3> QED
      BY <3>2, <3>3
  <2>4. ThreadsInStep'
    <3>1. ASSUME NEW u \in Thread PROVE iter[u].end \in Nat /\ iter[u].end <= backends'
      <4>1. iter[u].end \in Nat
        BY DEF LogTyped
      <4>2. iter[u].end <= backends
        BY DEF ThreadsInStep
      <4> QED
        BY <2>2, <4>1, <4>2
    <3>2. UNCHANGED <<iter, pc, holder, block>>
      BY <2>5
    <3> QED
      BY <3>1, <3>2 DEF ThreadsInStep
  <2> QED
    BY <2>3, <2>4
<1>4. ASSUME NEW t \in Thread, Begin(t) PROVE LogTyped' /\ MovedByGrowth' /\ ThreadsInStep'
  <2>1. entry' = [u \in Thread |-> entry'[u]] /\ pc' \in [Thread -> {"idle", "begin", "end", "call"} \cup InConsole]
    BY <1>4 DEF Begin, LogTyped
  <2>2. calls' \in 0 .. MaxCalls
    <3>1. calls' = calls + 1 /\ calls < MaxCalls
      BY <1>4 DEF Begin
    <3>2. calls \in 0 .. MaxCalls /\ MaxCalls \in Nat
      BY LoggerAssumption DEF LogTyped
    <3> QED
      BY <3>1, <3>2
  <2>3. \A u \in Thread : (pc'[u] \in InConsole <=> pc[u] \in InConsole) /\ (pc'[u] = "end" => pc[u] = "end")
    BY <1>4 DEF Begin, LogTyped
  <2>4. LogTyped' /\ MovedByGrowth'
    BY <1>4, <2>1, <2>2 DEF Begin, LogTyped, MovedByGrowth
  <2>5. ThreadsInStep'
    BY <1>4, <2>3 DEF Begin, ThreadsInStep
  <2> QED
    BY <2>4, <2>5
<1>5. ASSUME NEW t \in Thread, IterBegin(t) PROVE LogTyped' /\ MovedByGrowth' /\ ThreadsInStep'
  <2>1. LogTyped'
    BY <1>5 DEF IterBegin, Backend, LogTyped
  <2>2. MovedByGrowth'
    BY <1>5 DEF IterBegin, Backend, LogTyped, MovedByGrowth, ThreadsInStep
  <2>3. ThreadsInStep'
    BY <1>5 DEF IterBegin, Backend, LogTyped, ThreadsInStep
  <2> QED
    BY <2>1, <2>2, <2>3
<1>6. ASSUME NEW t \in Thread, IterEnd(t) PROVE LogTyped' /\ MovedByGrowth' /\ ThreadsInStep'
  <2>1. iter' \in [Thread -> [block : Nat, at : Nat, end : Nat]]
    <3>1. backends \in Nat
      BY DEF LogTyped, Backend
    <3> QED
      BY <1>6, <3>1, IterTyped DEF IterEnd, LogTyped
  <2>2. pc' \in [Thread -> {"idle", "begin", "end", "call"} \cup InConsole]
    BY <1>6 DEF IterEnd, LogTyped
  <2>3. LogTyped' /\ MovedByGrowth'
    BY <1>6, <2>1, <2>2 DEF IterEnd, LogTyped, MovedByGrowth
  <2>4. ThreadsInStep'
    BY <1>6 DEF IterEnd, Backend, LogTyped, ThreadsInStep
  <2> QED
    BY <2>3, <2>4
<1>7. ASSUME NEW t \in Thread, IterDone(t) PROVE LogTyped' /\ MovedByGrowth' /\ ThreadsInStep'
  <2>1. LogTyped'
    BY <1>7 DEF IterDone, Backend, LogTyped
  <2>2. MovedByGrowth'
    BY <1>7 DEF IterDone, Backend, LogTyped, MovedByGrowth, ThreadsInStep
  <2>3. ThreadsInStep'
    BY <1>7 DEF IterDone, Backend, LogTyped, ThreadsInStep
  <2> QED
    BY <2>1, <2>2, <2>3
<1>8. ASSUME NEW t \in Thread, Stray(t) PROVE LogTyped' /\ MovedByGrowth' /\ ThreadsInStep'
  <2>1. LogTyped'
    BY <1>8 DEF Stray, Backend, LogTyped
  <2>2. MovedByGrowth'
    BY <1>8 DEF Stray, Backend, LogTyped, MovedByGrowth, ThreadsInStep
  <2>3. ThreadsInStep'
    BY <1>8 DEF Stray, Backend, LogTyped, ThreadsInStep
  <2> QED
    BY <2>1, <2>2, <2>3
<1>9. ASSUME NEW t \in Thread, ConsoleOpen(t) PROVE LogTyped' /\ MovedByGrowth' /\ ThreadsInStep'
  <2>1. out' \in [Backend -> Lines]
    BY <1>9, ConsoleOpenWrites, WrittenIs DEF LogTyped
  <2>2. LogTyped' /\ MovedByGrowth'
    BY <1>9, <2>1 DEF ConsoleOpen, AtBackend, LogTyped, MovedByGrowth
  <2>3. ThreadsInStep'
    BY <1>9 DEF ConsoleOpen, AtBackend, Backend, LogTyped, ThreadsInStep
  <2> QED
    BY <2>2, <2>3
<1>10. ASSUME NEW t \in Thread, ConsoleText(t) PROVE LogTyped' /\ MovedByGrowth' /\ ThreadsInStep'
  <2>1. out' \in [Backend -> Lines]
    BY <1>10, ConsoleTextWrites, WrittenIs DEF LogTyped
  <2>2. LogTyped' /\ MovedByGrowth'
    BY <1>10, <2>1 DEF ConsoleText, LogTyped, MovedByGrowth
  <2>3. ThreadsInStep'
    BY <1>10 DEF ConsoleText, Backend, LogTyped, ThreadsInStep
  <2> QED
    BY <2>2, <2>3
<1>11. ASSUME NEW t \in Thread, ConsoleClose(t) PROVE LogTyped' /\ MovedByGrowth' /\ ThreadsInStep'
  <2>1. out' \in [Backend -> Lines]
    BY <1>11, ConsoleCloseWrites, WrittenIs DEF LogTyped
  <2>2. iter' \in [Thread -> [block : Nat, at : Nat, end : Nat]]
    <3>1. iter[t].at + 1 \in Nat
      BY DEF LogTyped
    <3> QED
      BY <1>11, <3>1, IterTyped DEF ConsoleClose, LogTyped
  <2>3. pc' \in [Thread -> {"idle", "begin", "end", "call"} \cup InConsole] /\ holder' \in Thread \cup {Nobody}
    BY <1>11 DEF ConsoleClose, LogTyped
  <2>6. UNCHANGED <<level, storeVars, entry, calls, faults, astray>>
    BY <1>11 DEF ConsoleClose
  <2>7. LogTyped'
    BY <2>1, <2>2, <2>3, <2>6 DEF LogTyped
  <2>8. MovedByGrowth'
    BY <2>6 DEF MovedByGrowth
  <2>4. LogTyped' /\ MovedByGrowth'
    BY <2>7, <2>8
  <2>5. ThreadsInStep'
    <3>1. pc[t] = "close" /\ holder' = Nobody /\ iter' = [iter EXCEPT ![t].at = @ + 1] /\ pc' = [pc EXCEPT ![t] = "call"]
      BY <1>11 DEF ConsoleClose
    <3>2. holder = t /\ iter[t].at = 0 /\ iter[t].end > 0 /\ iter[t].end \in Nat
      BY <3>1 DEF ThreadsInStep, LogTyped
    <3>3. iter'[t].at = 1 /\ iter'[t].end = iter[t].end /\ iter'[t].block = iter[t].block /\ pc'[t] = "call"
      BY <3>1, <3>2, IterTyped DEF LogTyped
    <3>4. \A u \in Thread \ {t} : iter'[u] = iter[u] /\ pc'[u] = pc[u]
      BY <3>1 DEF LogTyped
    <3>5. \A u \in Thread \ {t} : pc[u] \notin InConsole
      BY <3>2 DEF ThreadsInStep
    <3>6. ASSUME NEW u \in Thread
          PROVE  /\ iter'[u].block <= block' /\ iter'[u].at <= iter'[u].end /\ iter'[u].end <= backends'
                 /\ pc'[u] \notin InConsole /\ u # holder'
                 /\ pc'[u] = "end" => iter'[u].at = 0
      <4>1. CASE u = t
        BY <2>6, <3>1, <3>2, <3>3, <4>1 DEF ThreadsInStep
      <4>2. CASE u # t
        BY <2>6, <3>1, <3>4, <3>5, <4>2 DEF ThreadsInStep
      <4> QED
        BY <4>1, <4>2
    <3> QED
      BY <3>6 DEF ThreadsInStep
  <2> QED
    BY <2>4, <2>5
<1>12. ASSUME NEW t \in Thread, FileEntry(t) PROVE LogTyped' /\ MovedByGrowth' /\ ThreadsInStep'
  <2>1. out' \in [Backend -> Lines]
    BY <1>12, FileEntryWrites DEF LogTyped
  <2>2. /\ \/ iter' = [iter EXCEPT ![t].at = @ + 1] /\ pc' = pc
           \/ iter' = iter /\ pc' = [pc EXCEPT ![t] = "idle"]
        /\ pc[t] = "call" /\ iter[t].at < iter[t].end
    BY <1>12 DEF FileEntry, AtBackend
  <2>3. iter' \in [Thread -> [block : Nat, at : Nat, end : Nat]]
    <3>1. iter[t].at + 1 \in Nat
      BY DEF LogTyped
    <3>2. iter' = iter \/ iter' = [iter EXCEPT ![t].at = iter[t].at + 1]
      BY <2>2
    <3>3. iter \in [Thread -> [block : Nat, at : Nat, end : Nat]]
      BY DEF LogTyped
    <3>4. [iter EXCEPT ![t].at = iter[t].at + 1] \in [Thread -> [block : Nat, at : Nat, end : Nat]]
      BY <3>1, <3>3, IterTyped, Zenon
    <3> QED
      BY <3>2, <3>3, <3>4
  <2>4. pc' \in [Thread -> {"idle", "begin", "end", "call"} \cup InConsole]
    BY <2>2 DEF LogTyped
  <2>5. faults' \in 0 .. MaxFaults
    <3>1. faults' = faults \/ (faults < MaxFaults /\ faults' = faults + 1)
      BY <1>12 DEF FileEntry
    <3> QED
      BY <3>1 DEF LogTyped
  <2>6. LogTyped' /\ MovedByGrowth'
    BY <1>12, <2>1, <2>3, <2>4, <2>5 DEF FileEntry, LogTyped, MovedByGrowth
  <2>7. ThreadsInStep'
    <3>1. UNCHANGED <<backends, block, holder>>
      BY <1>12 DEF FileEntry
    <3>2. iter[t].at \in Nat /\ iter[t].end \in Nat
      BY DEF LogTyped
    <3>3. \A u \in Thread :
           /\ iter'[u].block = iter[u].block /\ iter'[u].end = iter[u].end
           /\ iter'[u] = iter[u] \/ (u = t /\ iter'[u].at = iter[u].at + 1)
           /\ pc'[u] \in InConsole <=> pc[u] \in InConsole
           /\ pc[t] \notin InConsole
           /\ pc'[u] = "end" => pc[u] = "end" /\ u # t
      <4>1. pc[t] = "call" /\ iter[t] \in [block : Nat, at : Nat, end : Nat]
        BY <2>2 DEF LogTyped
      <4>2. \A u \in Thread \ {t} : iter'[u] = iter[u] /\ pc'[u] = pc[u]
        BY <2>2 DEF LogTyped
      <4>3. \/ iter'[t] = iter[t]
            \/ iter'[t].at = iter[t].at + 1 /\ iter'[t].end = iter[t].end /\ iter'[t].block = iter[t].block
        <5>1. iter' = iter \/ iter' = [iter EXCEPT ![t].at = iter[t].at + 1]
          BY <2>2
        <5>4. iter \in [Thread -> [block : Nat, at : Nat, end : Nat]]
          BY DEF LogTyped
        <5>2. iter[t].at + 1 \in Nat
          BY <3>2
        <5>3. [iter EXCEPT ![t].at = iter[t].at + 1][t]
                = [block |-> iter[t].block, at |-> iter[t].at + 1, end |-> iter[t].end]
          <6> DEFINE n == iter[t].at + 1
          <6>1. n \in Nat
            BY <5>2
          <6> HIDE DEF n
          <6>2. [iter EXCEPT ![t].at = n][t] = [block |-> iter[t].block, at |-> n, end |-> iter[t].end]
            BY <5>4, <6>1, IterTyped
          <6> QED
            BY <6>2 DEF n
        <5>5. CASE iter' = iter
          BY <5>5
        <5>6. CASE iter' = [iter EXCEPT ![t].at = iter[t].at + 1]
          BY <5>3, <5>6
        <5> QED
          BY <5>1, <5>5, <5>6
      <4>4. pc'[t] \in {"call", "idle"}
        BY <2>2, <4>1 DEF LogTyped
      <4>5. pc[t] \notin InConsole /\ pc'[t] \notin InConsole /\ pc'[t] # "end"
        BY <4>1, <4>4
      <4> QED
        BY <4>2, <4>3, <4>5
    <3>4. ASSUME NEW u \in Thread PROVE iter'[u].at <= iter'[u].end /\ iter'[u].end = iter[u].end
      <4>1. CASE iter'[u] = iter[u]
        BY <4>1 DEF ThreadsInStep
      <4>2. CASE u = t /\ iter'[u].at = iter[u].at + 1
        BY <2>2, <3>2, <3>3, <4>2
      <4> QED
        BY <3>3, <4>1, <4>2
    <3>5. ASSUME NEW u \in Thread, pc'[u] \in InConsole PROVE iter'[u].at = 0 /\ iter'[u].end > 0
      <4>1. u # t /\ pc[u] \in InConsole
        BY <3>3, <3>5
      <4>2. iter'[u] = iter[u]
        BY <3>3, <4>1
      <4> QED
        BY <4>1, <4>2 DEF ThreadsInStep
    <3>6. ASSUME NEW u \in Thread, pc'[u] = "end" PROVE iter'[u].at = 0
      <4>1. pc[u] = "end" /\ iter'[u] = iter[u]
        BY <3>3, <3>6
      <4> QED
        BY <4>1 DEF ThreadsInStep
    <3> QED
      BY <3>1, <3>3, <3>4, <3>5, <3>6 DEF ThreadsInStep
  <2> QED
    BY <2>6, <2>7
<1>13. CASE UNCHANGED logVars
  BY <1>13 DEF logVars, LogTyped, MovedByGrowth, ThreadsInStep
<1> QED
  BY <1>1, <1>2, <1>3, <1>4, <1>5, <1>6, <1>7, <1>8, <1>9, <1>10, <1>11, <1>12, <1>13 DEF LogNext, Proceed

EntriesInStep ==
  /\ EntriesTyped /\ EntriesHeld /\ EntriesKnown /\ PrefixesHeld /\ ReturnedHeld /\ OutsInStep /\ LastLines

\* After a fault no more lines have to end.
LEMMA EndingShrinks ==
  ASSUME NEW q, NEW b, NEW f \in Nat, NEW g \in Nat, g >= f, InStep(q, Ending(b, f))
  PROVE  InStep(q, Ending(b, g)) /\ Ending(b, g) \subseteq Ending(b, f)
<1>1. Ending(b, g) \subseteq Ending(b, f)
  BY DEF Ending
<1> QED
  BY <1>1 DEF InStep, Ended

\* A step that writes nothing, begins no entry, and leaves stdout locked or not:
\* a call that goes on has come to the same backends, and one that returns has
\* come to all, unless there was a fault.
Quiet ==
  /\ UNCHANGED <<out, entry, holder>> /\ calls' >= calls /\ faults' >= faults
  /\ astray = TRUE => astray' = TRUE
  /\ \A u \in Thread : pc'[u] # "idle" =>
       pc[u] # "idle" /\ Through(pc'[u], iter'[u]) = Through(pc[u], iter[u])
  /\ \A u \in Thread : pc'[u] = "idle" =>
       \/ pc[u] = "idle" /\ iter'[u] = iter[u]
       \/ faults' > 0 \/ astray' = TRUE
       \/ pc[u] # "idle" /\ iter'[u].end <= Through(pc[u], iter[u])

\* It keeps what is known of the entries.
LEMMA QuietKept ==
  ASSUME LogInv, LogTyped', Quiet
  PROVE  EntriesInStep'
<1> USE DEF LogInv, Quiet
<1>1. /\ calls \in Nat /\ calls' \in Nat /\ faults \in Nat /\ faults' \in Nat
      /\ astray \in BOOLEAN /\ astray' \in BOOLEAN
  BY DEF LogTyped
<1>2. EntriesTyped'
  BY <1>1 DEF EntriesTyped
<1>3. EntriesHeld'
  BY DEF EntriesHeld
<1>4. EntriesKnown' /\ PrefixesHeld'
  BY DEF EntriesKnown, PrefixesHeld
<1>5. ReturnedHeld'
  <2> SUFFICES ASSUME NEW u \in Thread, pc'[u] = "idle", entry[u] \in Entries(out[1]), faults' = 0, astray' = FALSE,
                      NEW b \in Backend, b <= iter'[u].end
               PROVE  entry[u] \in Entries(out[b])
    BY DEF ReturnedHeld
  <2>1. faults = 0 /\ astray = FALSE
    BY <1>1
  <2>2. CASE pc[u] = "idle" /\ iter'[u] = iter[u]
    BY <2>1, <2>2 DEF ReturnedHeld
  <2>3. CASE pc[u] # "idle" /\ iter'[u].end <= Through(pc[u], iter[u])
    <3>3. iter[u].at \in Nat /\ iter'[u].end \in Nat
      BY DEF LogTyped
    <3>4. b \in Nat
      BY DEF Backend
    <3>5. Through(pc[u], iter[u]) \in Nat
      BY <3>3 DEF Through
    <3>1. b \in Nat /\ iter'[u].end \in Nat /\ Through(pc[u], iter[u]) \in Nat
      BY <3>3, <3>4, <3>5
    <3>2. b <= Through(pc[u], iter[u])
      BY <2>3, <3>1
    <3> QED
      BY <2>3, <3>2 DEF EntriesHeld
  <2> QED
    BY <1>1, <2>2, <2>3
<1>6. OutsInStep' /\ LastLines'
  <2>1. \A b \in Backend : InStep(out[b], Ending(b, faults')) /\ Ending(b, faults') \subseteq Ending(b, faults)
    BY <1>1, EndingShrinks DEF OutsInStep
  <2>2. OutsInStep'
    BY <2>1 DEF OutsInStep
  <2>3. LastLines'
    BY <2>1 DEF LastLines
  <2> QED
    BY <2>2, <2>3
<1> QED
  BY <1>2, <1>3, <1>4, <1>5, <1>6 DEF EntriesInStep

\* A call begins, with an entry that no backend has.
LEMMA BeginKept ==
  ASSUME LogInv, LogTyped', NEW t \in Thread, Begin(t), pc'[t] # "idle"
  PROVE  EntriesInStep'
<1> USE DEF LogInv
<1>1. PICK m \in Messages :
        /\ entry' = [entry EXCEPT ![t] = <<t, calls + 1, m>>] /\ pc' = [pc EXCEPT ![t] = "begin"]
        /\ calls' = calls + 1 /\ pc[t] = "idle"
        /\ UNCHANGED <<iter, holder, out, faults, astray>>
  BY DEF Begin
<1>2. calls \in Nat /\ DOMAIN entry = Thread /\ DOMAIN pc = Thread
  BY DEF LogTyped
<1>3. /\ entry'[t] = <<t, calls + 1, m>> /\ entry'[t] \in Entry /\ pc'[t] = "begin"
      /\ \A u \in Thread : u # t => entry'[u] = entry[u] /\ pc'[u] = pc[u]
  BY <1>1, <1>2 DEF Entry
<1>4. EntriesTyped'
  BY <1>1, <1>2, <1>3 DEF EntriesTyped
<1>5. \A b \in Backend : \A x \in Entries(out[b]) : x[1] \in Thread /\ x[2] \in Nat /\ x[2] <= calls /\ x # entry'[t]
  <2> SUFFICES ASSUME NEW b \in Backend, NEW x \in Entries(out[b])
               PROVE  x[1] \in Thread /\ x[2] \in Nat /\ x[2] <= calls /\ x # entry'[t]
    OBVIOUS
  <2>1. x \in Entry
    <3> DEFINE T == Entry \X Char
    <3>1. out[b] \in Seq(T)
      BY DEF LogTyped, Lines
    <3> HIDE DEF T
    <3>2. PICK i \in DOMAIN out[b] : x = out[b][i][1]
      BY DEF Entries
    <3>3. out[b][i] \in T
      BY <3>1
    <3> QED
      BY <3>2, <3>3 DEF T
  <2>2. x[1] \in Thread /\ x[2] \in Nat /\ x[2] <= entry[x[1]][2]
    BY <2>1 DEF Entry, EntriesKnown
  <2>3. entry[x[1]][2] \in 0 .. calls
    BY <2>2 DEF EntriesTyped
  <2> QED
    BY <1>2, <1>3, <2>2, <2>3
<1>6. EntriesHeld'
  <2>1. Through(pc'[t], iter[t]) = 0
    BY <1>3 DEF Through, InConsole
  <2>2. \A b \in Backend : entry'[t] \notin Entries(out[b]) /\ ~(b <= 0)
    BY <1>5 DEF Backend
  <2> QED
    BY <1>1, <1>3, <2>1, <2>2 DEF EntriesHeld
<1>7. EntriesKnown' /\ PrefixesHeld'
  <2>1. \A b \in Backend : \A x \in Entries(out[b]) : x[2] <= entry'[x[1]][2]
    BY <1>2, <1>3, <1>5 DEF EntriesKnown
  <2> QED
    BY <1>1, <2>1 DEF EntriesKnown, PrefixesHeld
<1>8. ReturnedHeld'
  BY <1>1, <1>3 DEF ReturnedHeld
<1>9. OutsInStep' /\ LastLines'
  <2>1. holder \in Thread => pc[holder] # "idle" /\ holder # t
    BY <1>1 DEF ThreadsInStep, InConsole
  <2>2. LastLines'
    BY <1>1, <1>3, <2>1 DEF LastLines, LogTyped
  <2> QED
    BY <1>1, <2>2 DEF OutsInStep
<1> QED
  BY <1>4, <1>6, <1>7, <1>8, <1>9 DEF EntriesInStep

\* A line is written: to the next backend that the call comes to, or to the
\* console that it has locked.
Writes(t, b, s) ==
  /\ s # <<>> /\ Written(t, b, s) /\ UNCHANGED <<entry, calls>> /\ pc[t] # "idle" /\ pc'[t] # "idle"
  /\ \A u \in Thread : u # t => pc'[u] = pc[u] /\ iter'[u] = iter[u]
  /\ astray' = astray /\ faults' >= faults
  /\ \A c \in Backend : c <= Through(pc'[t], iter'[t]) <=> c <= Through(pc[t], iter[t]) \/ c = b
  /\ b = 1 \/ b - 1 <= Through(pc[t], iter[t])
  /\ ~(b <= Through(pc[t], iter[t])) \/ (b = 1 /\ holder = t)
  /\ b = 1 => /\ holder \in {Nobody, t}
              /\ holder' = t \/ (holder' = Nobody /\ s[Len(s)] = "n")
  /\ b # 1 => /\ UNCHANGED holder
              /\ faults' > 0 \/ (FileLineFits[entry[t][3]] => s[Len(s)] = "n")

\* It keeps what is known of the entries, too.
LEMMA WriteKept ==
  ASSUME LogInv, LogTyped', NEW t \in Thread, NEW b \in Backend, NEW s \in Chars, Writes(t, b, s)
  PROVE  EntriesInStep'
<1> USE DEF LogInv, Writes
<1> DEFINE e == entry[t]
<1>1. /\ calls \in Nat /\ faults \in Nat /\ faults' \in Nat /\ b \in Nat
      /\ e \in Entry /\ e[1] = t /\ e[2] \in Nat /\ Nobody \notin Thread
      /\ \A c \in Backend : out[c] \in Lines
  <2>1. calls \in Nat /\ faults \in Nat /\ faults' \in Nat /\ b \in Nat /\ Nobody \notin Thread
    BY LoggerAssumption DEF LogTyped, Backend
  <2>2. e \in Entry /\ e[1] = t /\ e[2] \in Nat
    BY <2>1 DEF EntriesTyped
  <2>3. \A c \in Backend : out[c] \in Lines
    BY DEF LogTyped
  <2> QED
    BY <2>1, <2>2, <2>3
<1>2. /\ out' \in [Backend -> Lines]
      /\ \A c \in Backend : c # b => out'[c] = out[c]
      /\ out'[b] = out[b] \o Tagged(e, s)
  BY WrittenIs
<1>3. /\ out'[b] # <<>> /\ Entries(out'[b]) = Entries(out[b]) \cup {e}
      /\ LastOf(out'[b]) = <<e, s[Len(s)]>>
  <2>1. out[b] \in Lines /\ s \in Seq(Char)
    BY <1>1 DEF Chars
  <2> HIDE DEF e
  <2>2. LET r == out[b] \o Tagged(e, s) IN
          r # <<>> /\ Entries(r) = Entries(out[b]) \cup {e} /\ LastOf(r) = <<e, s[Len(s)]>>
    BY <1>1, <2>1, AppendedAt
  <2> QED
    BY <1>2, <2>2
<1>4. \A c \in Backend : Entries(out[c]) \subseteq Entries(out'[c]) /\ Entries(out'[c]) \subseteq Entries(out[c]) \cup {e}
  BY <1>2, <1>3
<1>5. \A u \in Thread : u # t => entry[u] # e
  BY <1>1 DEF EntriesTyped
<1>6. EntriesTyped'
  BY DEF EntriesTyped
<1>7. EntriesHeld'
  <2> SUFFICES ASSUME NEW u \in Thread, pc'[u] # "idle", NEW c \in Backend
               PROVE  entry[u] \in Entries(out'[c]) <=> c <= Through(pc'[u], iter'[u])
    BY DEF EntriesHeld
  <2>1. CASE u # t
    <3>1. entry[u] \in Entries(out'[c]) <=> entry[u] \in Entries(out[c])
      BY <1>4, <1>5, <2>1
    <3>2. pc'[u] = pc[u] /\ iter'[u] = iter[u]
      BY <2>1
    <3> QED
      BY <3>1, <3>2 DEF EntriesHeld
  <2>2. CASE u = t
    <3>1. e \in Entries(out[c]) <=> c <= Through(pc[t], iter[t])
      BY DEF EntriesHeld
    <3>2. e \in Entries(out'[c]) <=> e \in Entries(out[c]) \/ c = b
      BY <1>2, <1>3
    <3> QED
      BY <2>2, <3>1, <3>2
  <2> QED
    BY <2>1, <2>2
<1>8. EntriesKnown'
  <2> SUFFICES ASSUME NEW c \in Backend, NEW x \in Entries(out'[c]) PROVE x[2] <= entry[x[1]][2]
    BY DEF EntriesKnown
  <2>1. CASE x = e
    BY <1>1, <2>1
  <2>2. CASE x \in Entries(out[c])
    BY <2>2 DEF EntriesKnown
  <2> QED
    BY <1>4, <2>1, <2>2
<1>9. PrefixesHeld'
  <2> SUFFICES ASSUME NEW c \in Backend \ {1}, NEW x \in Entries(out'[c]) PROVE x \in Entries(out'[c - 1])
    BY DEF PrefixesHeld
  <2>1. c - 1 \in Backend
    BY LoggerAssumption DEF Backend
  <2>2. CASE x \in Entries(out[c])
    BY <1>4, <2>1, <2>2 DEF PrefixesHeld
  <2>3. CASE x \notin Entries(out[c])
    <3>1. c = b /\ x = e
      BY <1>2, <1>3, <2>3
    <3>2. e \in Entries(out[c - 1])
      BY <2>1, <3>1 DEF EntriesHeld
    <3> QED
      BY <1>4, <2>1, <3>1, <3>2
  <2> QED
    BY <2>2, <2>3
<1>10. ReturnedHeld'
  <2> SUFFICES ASSUME NEW u \in Thread, pc'[u] = "idle", entry[u] \in Entries(out'[1]), faults' = 0, astray' = FALSE,
                      NEW c \in Backend, c <= iter'[u].end
               PROVE  entry[u] \in Entries(out'[c])
    BY DEF ReturnedHeld
  <2>1. u # t /\ pc[u] = "idle" /\ iter'[u] = iter[u] /\ faults = 0 /\ astray = FALSE
    BY <1>1
  <2>2. entry[u] \in Entries(out[1])
    <3>1. 1 \in Backend
      BY LoggerAssumption DEF Backend
    <3> QED
      BY <1>4, <1>5, <2>1, <3>1
  <2>3. entry[u] \in Entries(out[c])
    BY <2>1, <2>2 DEF ReturnedHeld
  <2> QED
    BY <1>4, <2>3
<1>11. \A c \in Backend : InStep(out[c], Ending(c, faults')) /\ Ending(c, faults') \subseteq Ending(c, faults)
  BY <1>1, EndingShrinks DEF OutsInStep
<1>12. OutsInStep'
  <2>1. InStep(out'[b], Ending(b, faults'))
    <3>1. e \notin Entries(out[b]) \/ (out[b] # <<>> /\ LastOf(out[b])[1] = e)
      BY <1>1 DEF EntriesHeld, LastLines
    <3>2. out[b] # <<>> /\ LastOf(out[b])[1] # e /\ LastOf(out[b])[1] \in Ending(b, faults') => LastOf(out[b])[2] = "n"
      BY <1>1, <1>11 DEF LastLines
    <3>3. \A x \in Entries(out[b]) : x[1] = e[1] => x[2] <= e[2]
      BY <1>1 DEF EntriesKnown
    <3> HIDE DEF e
    <3>4. s \in Seq(Char)
      BY DEF Chars
    <3>5. InStep(out[b] \o Tagged(e, s), Ending(b, faults'))
      BY <1>1, <1>11, <3>1, <3>2, <3>3, <3>4, AppendedKeeps
    <3> QED
      BY <1>2, <3>5
  <2> QED
    BY <1>2, <1>11, <2>1 DEF OutsInStep
<1>13. LastLines'
  <2>1. ASSUME NEW c \in Backend, out'[c] # <<>>, c = 1 => holder' = Nobody, LastOf(out'[c])[1] \in Ending(c, faults')
        PROVE  LastOf(out'[c])[2] = "n"
    <3>1. CASE c # b
      <4>1. out'[c] = out[c] /\ LastOf(out[c])[1] \in Ending(c, faults)
        BY <1>2, <1>11, <2>1, <3>1
      <4>2. c = 1 => holder = Nobody
        BY <2>1, <3>1
      <4> QED
        BY <2>1, <4>1, <4>2 DEF LastLines
    <3>2. CASE c = b /\ b = 1
      BY <1>1, <1>3, <2>1, <3>2
    <3>3. CASE c = b /\ b # 1
      <4>1. faults' = 0 /\ FileLineFits[e[3]]
        BY <1>3, <2>1, <3>3 DEF Ending
      <4> QED
        BY <1>3, <3>3, <4>1
    <3> QED
      BY <3>1, <3>2, <3>3
  <2>2. ASSUME holder' # Nobody PROVE out'[1] # <<>> /\ LastOf(out'[1])[1] = entry[holder']
    <3>1. CASE b = 1
      BY <1>3, <2>2, <3>1
    <3>2. CASE b # 1
      <4>1. 1 \in Backend
        BY LoggerAssumption DEF Backend
      <4>2. out'[1] = out[1] /\ holder' = holder
        BY <1>2, <3>2, <4>1
      <4> QED
        BY <2>2, <4>2 DEF LastLines
    <3> QED
      BY <3>1, <3>2
  <2> QED
    BY <2>1, <2>2 DEF LastLines
<1> QED
  BY <1>6, <1>7, <1>8, <1>9, <1>10, <1>12, <1>13 DEF EntriesInStep

\* The logger at its beginning.
LEMMA InitLogInv == LogInit => LogInv
<1> SUFFICES ASSUME LogInit PROVE LogInv
  OBVIOUS
<1> USE LoggerAssumption DEF LogInit
<1>1. cap = Align /\ cap \in Nat \ {0} /\ 1 \in Backend /\ Nobody \notin Thread
  BY GrowthFirst DEF Backend
<1>2. \A b \in Backend : out[b] = <<>> /\ Entries(out[b]) = {} /\ out[b] \in Lines
  BY DEF Entries, Lines
<1>3. LogTyped
  <2>1. out \in [Backend -> Lines] /\ entry = [t \in Thread |-> entry[t]]
    BY <1>2
  <2>2. pc \in [Thread -> {"idle", "begin", "end", "call"} \cup InConsole]
    OBVIOUS
  <2>3. iter \in [Thread -> [block : Nat, at : Nat, end : Nat]]
    OBVIOUS
  <2>4. cap >= 1 /\ cap >= Align /\ adding = <<>> /\ holder = Nobody /\ level \in Levels /\ backends = 1 /\ block = 0
    BY <1>1
  <2>5. calls \in 0 .. MaxCalls /\ faults \in 0 .. MaxFaults /\ astray \in BOOLEAN
    <3>1. calls = 0 /\ faults = 0 /\ MaxCalls \in Nat /\ MaxFaults \in Nat
      OBVIOUS
    <3>2. astray \in BOOLEAN
      OBVIOUS
    <3> QED
      BY <3>1, <3>2
  <2> QED
    BY <1>1, <2>1, <2>2, <2>3, <2>4, <2>5 DEF LogTyped
<1>4. MovedByGrowth /\ ThreadsInStep /\ EntriesTyped /\ EntriesHeld
  BY <1>1, <1>2 DEF MovedByGrowth, ThreadsInStep, EntriesTyped, EntriesHeld, InConsole
<1>5. EntriesKnown /\ ReturnedHeld
  BY <1>1, <1>2 DEF EntriesKnown, ReturnedHeld
<1>6. PrefixesHeld
  BY <1>1, <1>2 DEF PrefixesHeld
<1>7. OutsInStep
  <2>1. \A Es : InStep(<<>>, Es)
    BY DEF InStep, Together, Ended, Ordered
  <2> QED
    BY <1>2, <2>1 DEF OutsInStep
<1>8. LastLines
  BY <1>1, <1>2 DEF LastLines
<1> QED
  BY <1>3, <1>4, <1>5, <1>6, <1>7, <1>8 DEF LogInv

\* Every step of every thread keeps what is known of the entries.
LEMMA EntriesKept ==
  ASSUME LogInv, [LogNext]_logVars
  PROVE  EntriesInStep'
<1>1. LogTyped /\ LogTyped' /\ ThreadsInStep /\ ThreadsInStep'
  BY CoreKept DEF LogInv
<1>2. /\ calls \in Nat /\ faults \in Nat /\ DOMAIN pc = Thread /\ DOMAIN iter = Thread
      /\ Nobody \notin Thread /\ \A u \in Thread : iter[u] \in [block : Nat, at : Nat, end : Nat]
  BY <1>1, LoggerAssumption DEF LogTyped
<1>3. calls' = calls /\ faults' = faults /\ astray' = astray /\ UNCHANGED <<pc, iter, out, entry, holder>> => Quiet
  BY <1>2 DEF Quiet
<1>4. Quiet => EntriesInStep'
  BY <1>1, QuietKept
<1> USE DEF InConsole, storeVars, threadVars
<1>5. ASSUME SetLevel PROVE EntriesInStep'
  BY <1>3, <1>4, <1>5 DEF SetLevel
<1>6. ASSUME NEW t \in Thread, AddReserve(t) PROVE EntriesInStep'
  BY <1>3, <1>4, <1>6 DEF AddReserve
<1>7. ASSUME NEW t \in Thread, AddCount(t) PROVE EntriesInStep'
  BY <1>3, <1>4, <1>7 DEF AddCount
<1>8. ASSUME NEW t \in Thread, Begin(t) PROVE EntriesInStep'
  <2>1. CASE pc'[t] # "idle"
    BY <1>1, <1>8, <2>1, BeginKept
  <2>2. CASE pc'[t] = "idle"
    <3>1. UNCHANGED <<entry, pc, iter, holder, out, faults, astray>> /\ calls' = calls + 1
      BY <1>2, <1>8, <2>2 DEF Begin
    <3>2. Quiet
      BY <1>2, <3>1 DEF Quiet
    <3> QED
      BY <1>4, <3>2
  <2> QED
    BY <2>1, <2>2
<1>9. ASSUME NEW t \in Thread, IterBegin(t) PROVE EntriesInStep'
  <2>1. /\ pc[t] = "begin" /\ pc'[t] = "end" /\ UNCHANGED <<out, entry, holder, calls, faults, astray>>
        /\ \A u \in Thread : u # t => pc'[u] = pc[u] /\ iter'[u] = iter[u]
    BY <1>2, <1>9 DEF IterBegin
  <2>2. Quiet
    BY <1>2, <2>1 DEF Quiet, Through
  <2> QED
    BY <1>4, <2>2
<1>10. ASSUME NEW t \in Thread, IterEnd(t) PROVE EntriesInStep'
  <2>1. /\ pc[t] = "end" /\ pc'[t] = "call" /\ UNCHANGED <<out, entry, holder, calls, faults, astray>>
        /\ \A u \in Thread : u # t => pc'[u] = pc[u] /\ iter'[u] = iter[u]
        /\ iter'[t].at = iter[t].at /\ iter[t].at = 0
    BY <1>1, <1>2, <1>10 DEF IterEnd, ThreadsInStep
  <2>2. Quiet
    BY <1>2, <2>1 DEF Quiet, Through
  <2> QED
    BY <1>4, <2>2
<1>11. ASSUME NEW t \in Thread, IterDone(t) PROVE EntriesInStep'
  <2>1. /\ pc[t] = "call" /\ pc'[t] = "idle" /\ UNCHANGED <<iter, out, entry, holder, calls, faults, astray>>
        /\ \A u \in Thread : u # t => pc'[u] = pc[u]
        /\ iter[t].end <= iter[t].at
    BY <1>2, <1>11 DEF IterDone
  <2>2. Quiet
    BY <1>2, <2>1 DEF Quiet, Through
  <2> QED
    BY <1>4, <2>2
<1>12. ASSUME NEW t \in Thread, Stray(t) PROVE EntriesInStep'
  <2>1. /\ pc[t] = "call" /\ pc'[t] = "idle" /\ UNCHANGED <<iter, out, entry, holder, calls, faults>> /\ astray' = TRUE
        /\ \A u \in Thread : u # t => pc'[u] = pc[u]
    BY <1>2, <1>12 DEF Stray
  <2>2. Quiet
    BY <1>2, <2>1 DEF Quiet, Through
  <2> QED
    BY <1>4, <2>2
<1>13. ASSUME NEW t \in Thread, ConsoleOpen(t) PROVE EntriesInStep'
  <2>1. /\ pc[t] = "call" /\ 1 \in Backend /\ <<"p">> \in Chars /\ <<"p">> # <<>>
        /\ Written(t, 1, <<"p">>) /\ iter[t].at = 0
    BY <1>13, ConsoleOpenWrites
  <2>2. /\ UNCHANGED <<entry, calls, iter, astray, faults>> /\ pc'[t] = "locked" /\ holder = Nobody /\ holder' = t
        /\ \A u \in Thread : u # t => pc'[u] = pc[u]
    BY <1>2, <1>13 DEF ConsoleOpen
  <2>3. Through(pc[t], iter[t]) = 0 /\ Through(pc'[t], iter'[t]) = 1
    BY <2>1, <2>2 DEF Through
  <2>4. \A c \in Backend : c <= Through(pc'[t], iter'[t]) <=> c <= Through(pc[t], iter[t]) \/ c = 1
    BY <2>3 DEF Backend
  <2>5. Writes(t, 1, <<"p">>)
    BY <1>2, <2>1, <2>2, <2>3, <2>4 DEF Writes
  <2> QED
    BY <1>1, <2>1, <2>5, WriteKept
<1>14. ASSUME NEW t \in Thread, ConsoleText(t) PROVE EntriesInStep'
  <2> DEFINE s == ConsoleLine[entry[t][3]]
  <2>1. pc[t] = "locked" /\ 1 \in Backend /\ s \in Chars /\ Written(t, 1, s)
    BY <1>14, ConsoleTextWrites
  <2>2. /\ UNCHANGED <<entry, calls, iter, astray, faults, holder>> /\ pc'[t] = "close" /\ holder = t
        /\ \A u \in Thread : u # t => pc'[u] = pc[u]
    BY <1>1, <1>2, <1>14 DEF ConsoleText, ThreadsInStep
  <2> HIDE DEF s
  <2>3. Through(pc[t], iter[t]) = 1 /\ Through(pc'[t], iter'[t]) = 1
    BY <2>1, <2>2 DEF Through
  <2>4. CASE s # <<>>
    <3>1. \A c \in Backend : c <= Through(pc'[t], iter'[t]) <=> c <= Through(pc[t], iter[t]) \/ c = 1
      BY <2>3
    <3> QED
      BY <1>1, <1>2, <2>1, <2>2, <2>3, <2>4, <3>1, WriteKept DEF Writes
  <2>5. CASE s = <<>>
    <3>1. out' = out
      <4>1. out \in [Backend -> Lines] /\ out' \in [Backend -> Lines] /\ \A c \in Backend : out'[c] = out[c]
        BY <1>1, <2>1, <2>5, WrittenIs DEF LogTyped
      <4> QED
        BY <4>1
    <3>2. Quiet
      BY <1>2, <2>1, <2>2, <2>3, <3>1 DEF Quiet
    <3> QED
      BY <1>4, <3>2
  <2> QED
    BY <2>4, <2>5
<1>15. ASSUME NEW t \in Thread, ConsoleClose(t) PROVE EntriesInStep'
  <2> DEFINE s == <<"t", "n">>
  <2>1. pc[t] = "close" /\ 1 \in Backend /\ s \in Chars /\ s # <<>> /\ Written(t, 1, s)
    BY <1>15, ConsoleCloseWrites
  <2>2. /\ UNCHANGED <<entry, calls, astray, faults>> /\ pc'[t] = "call" /\ holder = t /\ holder' = Nobody
        /\ iter[t].at = 0 /\ iter'[t].at = iter[t].at + 1
        /\ \A u \in Thread : u # t => pc'[u] = pc[u] /\ iter'[u] = iter[u]
    BY <1>1, <1>2, <1>15 DEF ConsoleClose, ThreadsInStep
  <2>3. s[Len(s)] = "n"
    OBVIOUS
  <2> HIDE DEF s
  <2>4. Through(pc[t], iter[t]) = 1 /\ Through(pc'[t], iter'[t]) = 1
    BY <2>1, <2>2 DEF Through
  <2>5. \A c \in Backend : c <= Through(pc'[t], iter'[t]) <=> c <= Through(pc[t], iter[t]) \/ c = 1
    BY <2>4
  <2>6. Writes(t, 1, s)
    BY <1>2, <2>1, <2>2, <2>3, <2>4, <2>5 DEF Writes
  <2> QED
    BY <1>1, <2>1, <2>6, WriteKept
<1>16. ASSUME NEW t \in Thread, FileEntry(t) PROVE EntriesInStep'
  <2> DEFINE b == iter[t].at + 1
  <2>1. /\ pc[t] = "call" /\ b \in Backend /\ iter[t].at \in Nat \ {0}
        /\ \/ \E s \in Chars :
                /\ s # <<>> /\ Written(t, b, s)
                /\ iter' = [iter EXCEPT ![t].at = @ + 1] /\ UNCHANGED pc
                /\ \/ UNCHANGED faults /\ (FileLineFits[entry[t][3]] => s[Len(s)] = "n")
                   \/ faults' = faults + 1
           \/ faults' = faults + 1 /\ pc' = [pc EXCEPT ![t] = "idle"] /\ UNCHANGED <<out, iter>>
    BY <1>16, FileEntryWrites
  <2>2. UNCHANGED <<entry, calls, astray, holder>>
    BY <1>16 DEF FileEntry
  <2>3. CASE faults' = faults + 1 /\ pc' = [pc EXCEPT ![t] = "idle"] /\ UNCHANGED <<out, iter>>
    <3>1. pc'[t] = "idle" /\ faults' > 0 /\ \A u \in Thread : u # t => pc'[u] = pc[u]
      BY <1>2, <2>3
    <3>2. Quiet
      BY <1>2, <2>2, <2>3, <3>1 DEF Quiet
    <3> QED
      BY <1>4, <3>2
  <2>4. ASSUME NEW s \in Chars, s # <<>>, Written(t, b, s),
               iter' = [iter EXCEPT ![t].at = @ + 1], UNCHANGED pc,
               \/ UNCHANGED faults /\ (FileLineFits[entry[t][3]] => s[Len(s)] = "n")
               \/ faults' = faults + 1
        PROVE  EntriesInStep'
    <3>1. /\ iter'[t].at = iter[t].at + 1 /\ \A u \in Thread : u # t => pc'[u] = pc[u] /\ iter'[u] = iter[u]
          /\ pc'[t] = "call" /\ faults' >= faults
          /\ faults' > 0 \/ (FileLineFits[entry[t][3]] => s[Len(s)] = "n")
      BY <1>2, <2>1, <2>4
    <3>2. Through(pc[t], iter[t]) = b - 1 /\ Through(pc'[t], iter'[t]) = b /\ b # 1 /\ b \in Nat /\ b - 1 \in Nat
      BY <2>1, <3>1 DEF Through
    <3> HIDE DEF b
    <3>3. \A c \in Backend : c <= Through(pc'[t], iter'[t]) <=> c <= Through(pc[t], iter[t]) \/ c = b
      BY <3>2 DEF Backend
    <3>4. /\ b - 1 <= Through(pc[t], iter[t]) /\ ~(b <= Through(pc[t], iter[t]))
          /\ pc[t] # "idle" /\ pc'[t] # "idle"
      BY <2>1, <3>1, <3>2
    <3>5. Writes(t, b, s)
      BY <2>2, <2>4, <3>1, <3>2, <3>3, <3>4 DEF Writes
    <3> QED
      BY <1>1, <2>1, <2>4, <3>5, WriteKept
  <2> QED
    BY <2>1, <2>3, <2>4
<1>17. CASE UNCHANGED logVars
  BY <1>3, <1>4, <1>17 DEF logVars
<1> QED
  BY <1>5, <1>6, <1>7, <1>8, <1>9, <1>10, <1>11, <1>12, <1>13, <1>14, <1>15, <1>16, <1>17 DEF LogNext, Proceed

\* What the console shows of an entry, line by line.
Keep(e, text, x) == text \o IF x[1] = e /\ x[2] \notin {"p", "s", "t"} THEN <<x[2]>> ELSE <<>>
Kept(e, q) == LET Op(text, x) == Keep(e, text, x) IN Loop(Op, <<>>, q)

\* It is one character, or nothing.
LEMMA KeepTyped ==
  ASSUME NEW e, NEW text \in Chars, NEW x \in Entry \X Char
  PROVE  Keep(e, text, x) \in Chars
<1>1. <<x[2]>> \in Chars /\ <<>> \in Chars
  BY ShortSeqs, 0 \in Nat DEF Chars
<1>2. \A a, b \in Chars : a \o b \in Chars
  BY DEF Chars
<1> QED
  BY <1>1, <1>2, Zenon DEF Keep

\* What is shown after every line.
Shows(f, e, q) ==
  /\ f[0] = <<>> /\ Kept(e, q) = f[Len(q)]
  /\ \A i \in 1 .. Len(q) : f[i] = Keep(e, f[i - 1], q[i])

\* It is shown by a loop.
LEMMA KeptIs ==
  ASSUME NEW e, NEW q \in Lines
  PROVE  \E f \in [0 .. Len(q) -> Chars] : Shows(f, e, q)
<1> DEFINE s == q
           n == Len(s)
           Is(f) == f = [i \in 0 .. Len(s) |-> IF i = 0 THEN <<>> ELSE Keep(e, f[i - 1], s[i])]
           g == [x \in Chars \X (1 .. n) |-> Keep(e, x[1], s[x[2]])]
<1>1. n \in Nat /\ \A i \in 1 .. n : s[i] \in Entry \X Char
  BY DEF Lines
<1>2. Kept(e, q) = (CHOOSE f : Is(f))[n]
  BY Zenon DEF Kept, Loop, Keep
<1>3. g \in [Chars \X (1 .. n) -> Chars]
  BY <1>1, KeepTyped
<1>4. <<>> \in Chars
  BY DEF Chars
<1> HIDE DEF g, n
<1>5. PICK f : Runs(f, Chars, <<>>, n, g)
  BY <1>1, <1>3, <1>4, RunExists, Zenon
<1>6. ASSUME NEW i \in 1 .. n PROVE f[i] = Keep(e, f[i - 1], s[i])
  <2>1. <<f[i - 1], i>> \in Chars \X (1 .. n)
    BY <1>1, <1>5 DEF Runs
  <2>2. g[<<f[i - 1], i>>] = Keep(e, f[i - 1], s[i])
    BY <2>1 DEF g
  <2> QED
    BY <1>5, <2>2 DEF Runs
<1>7. Is(f)
  <2>1. \A i \in 0 .. n : f[i] = IF i = 0 THEN <<>> ELSE Keep(e, f[i - 1], s[i])
    BY <1>1, <1>5, <1>6 DEF Runs
  <2> QED
    BY <2>1, <1>5 DEF Runs, n
<1> DEFINE h == CHOOSE k : Is(k)
<1>8. Is(h) /\ Kept(e, q) = h[n]
  <2>1. Is(h)
    BY <1>7
  <2> QED
    BY <1>2, <2>1 DEF n
<1> HIDE DEF h
<1>9. h[0] = <<>> /\ \A i \in 1 .. n : h[i] = Keep(e, h[i - 1], s[i])
  <2>1. \A i \in 0 .. n : h[i] = IF i = 0 THEN <<>> ELSE Keep(e, h[i - 1], s[i])
    BY <1>8, Zenon DEF n
  <2> QED
    BY <1>1, <2>1
<1>10. \A i \in 0 .. n : h[i] \in Chars
  <2> DEFINE P == {i \in 0 .. n : h[i] \in Chars}
  <2>1. 0 \in P
    BY <1>1, <1>4, <1>9
  <2>2. ASSUME NEW i \in 1 .. n, i - 1 \in P PROVE i \in P
    <3>1. h[i - 1] \in Chars /\ s[i] \in Entry \X Char
      BY <1>1, <2>2
    <3> QED
      BY <1>9, <3>1, KeepTyped
  <2> HIDE DEF P
  <2>3. 0 .. n \subseteq P
    BY <1>1, <2>1, <2>2, RunKeeps, Zenon
  <2> QED
    BY <2>3 DEF P
<1>11. h \in [0 .. n -> Chars]
  BY <1>8, <1>10 DEF n
<1>12. Shows(h, e, q)
  BY <1>8, <1>9 DEF n, Shows
<1> QED
  BY <1>11, <1>12 DEF n

\* Texts are joined in any order.
LEMMA JoinedTexts ==
  ASSUME NEW a \in Chars, NEW b \in Chars, NEW c \in Chars
  PROVE  /\ a \o (b \o c) = (a \o b) \o c /\ a \o b \in Chars
         /\ a \o <<>> = a /\ <<>> \o a = a
BY DEF Chars

\* What is added to text by x does not depend on text.
LEMMA KeepAdds ==
  ASSUME NEW e, NEW a \in Chars, NEW b \in Chars, NEW x \in Entry \X Char
  PROVE  Keep(e, a \o b, x) = a \o Keep(e, b, x)
<1> DEFINE c == IF x[1] = e /\ x[2] \notin {"p", "s", "t"} THEN <<x[2]>> ELSE <<>>
<1>1. c \in Chars
  BY ShortSeqs, 0 \in Nat DEF Chars
<1>2. \A u \in Chars : a \o (b \o u) = (a \o b) \o u
  BY DEF Chars
<1>3. a \o (b \o c) = (a \o b) \o c
  BY <1>1, <1>2, Zenon
<1> QED
  BY <1>3, Zenon DEF Keep

\* What is shown of q and then z is what is shown of both.
LEMMA KeptJoined ==
  ASSUME NEW e, NEW q \in Lines, NEW z \in Lines
  PROVE  Kept(e, q \o z) = Kept(e, q) \o Kept(e, z)
<1> DEFINE r == q \o z
           n == Len(q)
           k == Len(z)
<1>1. n \in Nat /\ k \in Nat
  BY DEF Lines
<1>2. /\ r \in Lines /\ Len(r) = n + k
      /\ \A i \in 1 .. n : r[i] = q[i]
      /\ \A j \in 1 .. k : r[n + j] = z[j]
      /\ \A i \in 1 .. n : q[i] \in Entry \X Char
      /\ \A j \in 1 .. k : z[j] \in Entry \X Char
  <2> DEFINE T == Entry \X Char
  <2>1. q \in Seq(T) /\ z \in Seq(T)
    BY DEF Lines
  <2> HIDE DEF T
  <2>2. /\ r \in Seq(T) /\ Len(r) = n + k
        /\ \A i \in 1 .. n : q[i] \in T
        /\ \A j \in 1 .. k : z[j] \in T
    BY <2>1
  <2>3. \A i \in 1 .. n + k : r[i] = IF i <= n THEN q[i] ELSE z[i - n]
    BY <2>1
  <2>4. \A i \in 1 .. n : r[i] = q[i]
    BY <1>1, <2>3
  <2>5. ASSUME NEW j \in 1 .. k PROVE r[n + j] = z[j]
    <3>1. n + j \in 1 .. n + k /\ ~(n + j <= n) /\ (n + j) - n = j
      BY <1>1
    <3> HIDE DEF n, k, r
    <3> QED
      BY <2>3, <3>1
  <2> QED
    BY <2>2, <2>4, <2>5 DEF T, Lines
<1> HIDE DEF r, n, k
<1>3. PICK f \in [0 .. n + k -> Chars] :
        f[0] = <<>> /\ Kept(e, r) = f[n + k] /\ \A i \in 1 .. n + k : f[i] = Keep(e, f[i - 1], r[i])
  <2>1. \E x \in [0 .. Len(r) -> Chars] : Shows(x, e, r)
    BY <1>2, KeptIs, Zenon
  <2> QED
    BY <1>2, <2>1 DEF Shows
<1>4. PICK g \in [0 .. n -> Chars] :
        g[0] = <<>> /\ Kept(e, q) = g[n] /\ \A i \in 1 .. n : g[i] = Keep(e, g[i - 1], q[i])
  <2>1. \E x \in [0 .. Len(q) -> Chars] : Shows(x, e, q)
    BY KeptIs, Zenon
  <2> QED
    BY <2>1 DEF n, Shows
<1>5. PICK h \in [0 .. k -> Chars] :
        h[0] = <<>> /\ Kept(e, z) = h[k] /\ \A i \in 1 .. k : h[i] = Keep(e, h[i - 1], z[i])
  <2>1. \E x \in [0 .. Len(z) -> Chars] : Shows(x, e, z)
    BY KeptIs, Zenon
  <2> QED
    BY <2>1 DEF k, Shows
<1>6. f[n] = g[n]
  <2> DEFINE P == {i \in 0 .. n : f[i] = g[i]}
  <2>1. 0 \in P
    BY <1>1, <1>3, <1>4
  <2>2. ASSUME NEW i \in 1 .. n, i - 1 \in P PROVE i \in P
    <3>1. i \in 1 .. n + k
      BY <1>1
    <3>2. f[i] = Keep(e, f[i - 1], r[i]) /\ g[i] = Keep(e, g[i - 1], q[i]) /\ r[i] = q[i] /\ f[i - 1] = g[i - 1]
      BY <1>2, <1>3, <1>4, <2>2, <3>1
    <3> QED
      BY <3>2
  <2> HIDE DEF P
  <2>3. 0 .. n \subseteq P
    BY <1>1, <2>1, <2>2, RunKeeps, Zenon
  <2>4. n \in 0 .. n
    BY <1>1
  <2> QED
    BY <2>3, <2>4 DEF P
<1>7. g[n] \in Chars
  BY <1>1, <1>4
<1>8. f[n + k] = g[n] \o h[k]
  <2> DEFINE P == {j \in 0 .. k : f[n + j] = g[n] \o h[j]}
  <2>1. 0 \in P
    <3>1. n + 0 = n /\ 0 \in 0 .. k
      BY <1>1
    <3> QED
      BY <1>5, <1>6, <1>7, <3>1, JoinedTexts
  <2>2. ASSUME NEW j \in 1 .. k, j - 1 \in P PROVE j \in P
    <3>1. n + j \in 1 .. n + k /\ (n + j) - 1 = n + (j - 1) /\ j - 1 \in 0 .. k /\ j \in 0 .. k
      BY <1>1
    <3>2. f[n + j] = Keep(e, f[(n + j) - 1], r[n + j])
      BY <1>3, <3>1
    <3>3. f[n + (j - 1)] = g[n] \o h[j - 1] /\ r[n + j] = z[j]
      BY <1>2, <2>2
    <3>4. h[j] = Keep(e, h[j - 1], z[j]) /\ h[j - 1] \in Chars /\ z[j] \in Entry \X Char
      BY <1>2, <1>5, <3>1
    <3>5. Keep(e, g[n] \o h[j - 1], z[j]) = g[n] \o Keep(e, h[j - 1], z[j])
      BY <1>7, <3>4, KeepAdds
    <3> QED
      BY <3>1, <3>2, <3>3, <3>4, <3>5
  <2> HIDE DEF P
  <2>3. 0 .. k \subseteq P
    BY <1>1, <2>1, <2>2, RunKeeps, Zenon
  <2>4. k \in 0 .. k
    BY <1>1
  <2> QED
    BY <2>3, <2>4 DEF P
<1> QED
  BY <1>3, <1>4, <1>5, <1>8 DEF r

\* Nothing is shown of an entry that has no lines.
LEMMA KeptOthers ==
  ASSUME NEW e, NEW q \in Lines, e \notin Entries(q)
  PROVE  Kept(e, q) = <<>>
<1>1. PICK f \in [0 .. Len(q) -> Chars] : Shows(f, e, q)
  BY KeptIs, Zenon
<1>2. /\ Len(q) \in Nat /\ f[0] = <<>> /\ Kept(e, q) = f[Len(q)]
      /\ \A i \in 1 .. Len(q) : f[i] = Keep(e, f[i - 1], q[i]) /\ q[i][1] # e
  BY <1>1 DEF Shows, Lines, Entries
<1> DEFINE n == Len(q)
           P == {i \in 0 .. n : f[i] = <<>>}
<1> HIDE DEF n
<1>3. n \in Nat /\ 0 \in P
  BY <1>2 DEF n
<1>4. ASSUME NEW i \in 1 .. n, i - 1 \in P PROVE i \in P
  <2>1. f[i] = Keep(e, <<>>, q[i]) /\ q[i][1] # e
    BY <1>2, <1>4 DEF n
  <2>2. Keep(e, <<>>, q[i]) = <<>>
    BY <2>1 DEF Keep
  <2> QED
    BY <1>3, <2>1, <2>2
<1> HIDE DEF P
<1>5. 0 .. n \subseteq P
  BY <1>3, <1>4, RunKeeps, Zenon
<1>6. n \in P
  BY <1>3, <1>5
<1> QED
  BY <1>2, <1>6 DEF P, n

\* The lines of one character.
LEMMA TaggedOne ==
  ASSUME NEW e \in Entry, NEW c \in Char
  PROVE  Tagged(e, <<c>>) = <<<<e, c>>>> /\ Tagged(e, <<c>>) \in Lines
<1>1. Tagged(e, <<c>>) = <<<<e, c>>>>
  BY DEF Tagged
<1> DEFINE T == Entry \X Char
<1>2. <<e, c>> \in T
  OBVIOUS
<1> HIDE DEF T
<1>3. <<<<e, c>>>> \in Seq(T)
  BY <1>2, ShortSeqs
<1> QED
  BY <1>1, <1>3 DEF Lines, T

\* What a joined sequence is.
LEMMA JoinedIs ==
  ASSUME NEW T, NEW a \in Seq(T), NEW b \in Seq(T), NEW c \in Seq(T), Len(c) = Len(a) + Len(b),
         \A i \in 1 .. Len(a) + Len(b) : c[i] = IF i <= Len(a) THEN a[i] ELSE b[i - Len(a)]
  PROVE  c = a \o b
<1> DEFINE d == a \o b
<1>1. d \in Seq(T) /\ Len(d) = Len(c) /\ \A i \in 1 .. Len(d) : d[i] = c[i]
  OBVIOUS
<1> HIDE DEF d
<1>2. c = [i \in 1 .. Len(c) |-> c[i]] /\ d = [i \in 1 .. Len(d) |-> d[i]]
  BY <1>1
<1>3. c = d
  BY <1>1, <1>2
<1> QED
  BY <1>3 DEF d

\* The lines of two texts.
LEMMA TaggedJoined ==
  ASSUME NEW e \in Entry, NEW r \in Chars, NEW s \in Chars
  PROVE  /\ Tagged(e, r \o s) = Tagged(e, r) \o Tagged(e, s)
         /\ Tagged(e, r) \in Lines /\ Tagged(e, s) \in Lines
<1> DEFINE T == Entry \X Char
<1>1. ASSUME NEW z \in Chars
      PROVE  /\ Tagged(e, z) \in Seq(T) /\ Len(Tagged(e, z)) = Len(z) /\ Len(z) \in Nat
             /\ \A i \in 1 .. Len(z) : Tagged(e, z)[i] = <<e, z[i]>>
  <2>1. Len(z) \in Nat /\ \A i \in 1 .. Len(z) : z[i] \in Char
    BY DEF Chars
  <2>2. Tagged(e, z) = [i \in 1 .. Len(z) |-> <<e, z[i]>>]
    BY DEF Tagged, Chars
  <2>3. \A i \in 1 .. Len(z) : <<e, z[i]>> \in T
    BY <2>1
  <2> HIDE DEF T
  <2> QED
    BY <2>1, <2>2, <2>3
<1>2. r \o s \in Chars /\ Len(r \o s) = Len(r) + Len(s)
      /\ \A i \in 1 .. Len(r \o s) : (r \o s)[i] = IF i <= Len(r) THEN r[i] ELSE s[i - Len(r)]
  BY DEF Chars
<1> HIDE DEF T
<1> DEFINE a == Tagged(e, r)
           b == Tagged(e, s)
           c == Tagged(e, r \o s)
<1>3. /\ a \in Seq(T) /\ b \in Seq(T) /\ c \in Seq(T)
      /\ Len(a) = Len(r) /\ Len(b) = Len(s) /\ Len(c) = Len(a) + Len(b) /\ Len(a) \in Nat /\ Len(b) \in Nat
      /\ \A i \in 1 .. Len(a) : a[i] = <<e, r[i]>>
      /\ \A i \in 1 .. Len(b) : b[i] = <<e, s[i]>>
      /\ \A i \in 1 .. Len(a) + Len(b) : c[i] = <<e, (r \o s)[i]>>
  <2>1. a \in Seq(T) /\ Len(a) = Len(r) /\ Len(a) \in Nat /\ \A i \in 1 .. Len(r) : a[i] = <<e, r[i]>>
    BY <1>1
  <2>2. b \in Seq(T) /\ Len(b) = Len(s) /\ Len(b) \in Nat /\ \A i \in 1 .. Len(s) : b[i] = <<e, s[i]>>
    BY <1>1
  <2>3. c \in Seq(T) /\ Len(c) = Len(r \o s) /\ \A i \in 1 .. Len(r \o s) : c[i] = <<e, (r \o s)[i]>>
    BY <1>1, <1>2
  <2> HIDE DEF a, b, c
  <2> QED
    BY <1>2, <2>1, <2>2, <2>3
<1> HIDE DEF a, b, c
<1>4. \A i \in 1 .. Len(a) + Len(b) : c[i] = IF i <= Len(a) THEN a[i] ELSE b[i - Len(a)]
  <2> SUFFICES ASSUME NEW i \in 1 .. Len(a) + Len(b)
               PROVE  c[i] = IF i <= Len(a) THEN a[i] ELSE b[i - Len(a)]
    OBVIOUS
  <2>1. c[i] = <<e, IF i <= Len(a) THEN r[i] ELSE s[i - Len(a)]>>
    BY <1>2, <1>3
  <2>2. i <= Len(a) => a[i] = <<e, r[i]>>
    BY <1>3
  <2>3. ~(i <= Len(a)) => b[i - Len(a)] = <<e, s[i - Len(a)]>>
    <3>1. ~(i <= Len(a)) => i - Len(a) \in 1 .. Len(b)
      BY <1>3
    <3> QED
      BY <1>3, <3>1
  <2> QED
    BY <2>1, <2>2, <2>3
<1>5. c = a \o b
  BY <1>3, <1>4, JoinedIs, Zenon
<1> QED
  BY <1>3, <1>5 DEF a, b, c, T, Lines

\* What is shown of one character.
LEMMA KeptOne ==
  ASSUME NEW e \in Entry, NEW c \in Char
  PROVE  Kept(e, Tagged(e, <<c>>)) = IF c \in {"p", "s", "t"} THEN <<>> ELSE <<c>>
<1> DEFINE q == <<<<e, c>>>>
<1>1. q \in Lines /\ Tagged(e, <<c>>) = q
  BY TaggedOne
<1>2. Len(q) = 1 /\ q[1] = <<e, c>>
  OBVIOUS
<1> HIDE DEF q
<1>3. PICK f \in [0 .. Len(q) -> Chars] : Shows(f, e, q)
  BY <1>1, KeptIs, Zenon
<1>4. f[0] = <<>> /\ Kept(e, q) = f[1] /\ f[1] = Keep(e, f[1 - 1], q[1])
  BY <1>2, <1>3 DEF Shows
<1>5. Kept(e, q) = Keep(e, <<>>, <<e, c>>)
  BY <1>2, <1>4
<1>6. Keep(e, <<>>, <<e, c>>) = IF c \in {"p", "s", "t"} THEN <<>> ELSE <<c>>
  BY DEF Keep
<1> QED
  BY <1>1, <1>5, <1>6

\* What is shown of two.
LEMMA KeptTwo ==
  ASSUME NEW e \in Entry, NEW c \in Char, NEW d \in Char
  PROVE  Kept(e, Tagged(e, <<c, d>>)) = Kept(e, Tagged(e, <<c>>)) \o Kept(e, Tagged(e, <<d>>))
<1>1. <<c>> \in Chars /\ <<d>> \in Chars /\ <<c, d>> = <<c>> \o <<d>>
  <2>1. <<c>> \in Chars /\ <<d>> \in Chars
    BY ShortSeqs, 0 \in Nat DEF Chars
  <2>2. <<c, d>> = <<c>> \o <<d>>
    <3> DEFINE a == <<c>>
               b == <<d>>
               z == <<c, d>>
    <3>1. z \in Chars
      BY ShortSeqs, 0 \in Nat DEF Chars
    <3>2. Len(a) = 1 /\ Len(b) = 1 /\ Len(z) = 2 /\ z[1] = a[1] /\ z[2] = b[1]
      OBVIOUS
    <3> HIDE DEF a, b, z
    <3>3. \A i \in 1 .. Len(a) + Len(b) : z[i] = IF i <= Len(a) THEN a[i] ELSE b[i - Len(a)]
      BY <3>2
    <3>4. a \in Seq(Char) /\ b \in Seq(Char) /\ z \in Seq(Char) /\ Len(z) = Len(a) + Len(b)
      BY <2>1, <3>1, <3>2 DEF a, b, Chars
    <3>5. z = a \o b
      BY <3>3, <3>4, JoinedIs, Zenon
    <3> QED
      BY <3>5 DEF a, b, z
  <2> QED
    BY <2>1, <2>2
<1>2. Tagged(e, <<c, d>>) = Tagged(e, <<c>>) \o Tagged(e, <<d>>) /\ Tagged(e, <<c>>) \in Lines /\ Tagged(e, <<d>>) \in Lines
  BY <1>1, TaggedJoined, Zenon
<1> QED
  BY <1>2, KeptJoined, Zenon

\* The text of a message has the characters of messages.
LEMMA TextLettered ==
  ASSUME NEW m \in Messages
  PROVE  Text[m] \in Seq(Letters) /\ Text[m] \in Chars /\ Len(Text[m]) \in Nat
<1>1. PICK f \in [0 .. Len(Pieces[m]) -> Chars] :
        /\ f[0] = <<>> /\ Text[m] = f[Len(Pieces[m])]
        /\ \A i \in 1 .. Len(Pieces[m]) : f[i] = BufferWrite(f[i - 1], Pieces[m][i])
  BY TextIs
<1> DEFINE n == Len(Pieces[m])
           P == {i \in 0 .. n : f[i] \in Seq(Letters)}
<1>2. n \in Nat /\ \A i \in 1 .. n : Pieces[m][i] \in Seq(Letters)
  BY LoggerAssumption
<1> HIDE DEF n
<1>3. 0 \in P
  <2>1. <<>> \in Seq(Letters) /\ 0 \in 0 .. n
    BY <1>2
  <2> QED
    BY <1>1, <2>1
<1>4. ASSUME NEW i \in 1 .. n, i - 1 \in P PROVE i \in P
  <2>1. f[i] = BufferWrite(f[i - 1], Pieces[m][i]) /\ f[i - 1] \in Seq(Letters) /\ Pieces[m][i] \in Seq(Letters)
    BY <1>1, <1>2, <1>4 DEF n
  <2>2. f[i] \in Seq(Letters)
    <3>1. \A u, v \in Seq(Letters) : BufferWrite(u, v) \in Seq(Letters)
      BY DEF BufferWrite
    <3> QED
      BY <2>1, <3>1
  <2> QED
    BY <1>2, <2>2
<1> HIDE DEF P
<1>5. 0 .. n \subseteq P
  BY <1>2, <1>3, <1>4, RunKeeps, Zenon
<1>6. n \in P
  BY <1>2, <1>5
<1> QED
  BY <1>1, <1>6, TextTyped DEF P, n

\* A text grows by a character.
LEMMA Prefixed ==
  ASSUME NEW T, NEW s \in Seq(T), NEW i \in 1 .. Len(s)
  PROVE  SubSeq(s, 1, i) = SubSeq(s, 1, i - 1) \o <<s[i]>>
OBVIOUS

\* Console::entry's line of a message shows the message.
LEMMA KeptLine ==
  ASSUME NEW e \in Entry, NEW m \in Messages
  PROVE  Kept(e, Tagged(e, ConsoleLine[m])) = Text[m]
<1> DEFINE s == Text[m]
           n == Len(s)
<1>1. s \in Seq(Letters) /\ s \in Chars /\ n \in Nat
  BY TextLettered
<1>2. PICK f \in [0 .. n -> Chars] :
        /\ f[0] = <<>> /\ ConsoleLine[m] = f[n]
        /\ \A i \in 1 .. n : f[i] = ConsolePut(f[i - 1], s[i])
  BY ConsoleLineIs
<1> DEFINE P == {i \in 0 .. n : Kept(e, Tagged(e, f[i])) = SubSeq(s, 1, i)}
<1> HIDE DEF s, n
<1>3. 0 \in P
  <2>1. Tagged(e, <<>>) = <<>> /\ <<>> \in Lines /\ e \notin Entries(<<>>)
    BY DEF Tagged, Lines, Entries
  <2>2. Kept(e, <<>>) = <<>>
    BY <2>1, KeptOthers, Zenon
  <2>3. SubSeq(s, 1, 0) = <<>> /\ 0 \in 0 .. n
    BY <1>1
  <2> QED
    BY <1>2, <2>1, <2>2, <2>3
<1>4. ASSUME NEW i \in 1 .. n, i - 1 \in P PROVE i \in P
  <2> DEFINE c == s[i]
             z == IF c = "n" THEN <<"n", "s">> ELSE <<c>>
  <2>1. c \in Letters /\ c \in Char /\ c \notin {"p", "s", "t"} /\ "n" \in Char /\ "s" \in Char /\ "n" \notin {"p", "s", "t"}
    <3>1. c \in Letters
      BY <1>1 DEF n
    <3> QED
      BY <3>1, LoggerAssumption DEF Char
  <2>2. f[i - 1] \in Chars /\ f[i] = f[i - 1] \o z
    <3>1. f[i] = ConsolePut(f[i - 1], c) /\ f[i - 1] \in Chars
      BY <1>1, <1>2
    <3> QED
      BY <3>1 DEF ConsolePut
  <2>3. <<c>> \in Chars /\ <<"n", "s">> \in Chars
    BY <2>1, ShortSeqs, 0 \in Nat DEF Chars
  <2> HIDE DEF c
  <2>4. z \in Chars /\ Kept(e, Tagged(e, z)) = <<c>>
    <3>1. Kept(e, Tagged(e, <<c>>)) = <<c>>
      <4>1. Kept(e, Tagged(e, <<c>>)) = IF c \in {"p", "s", "t"} THEN <<>> ELSE <<c>>
        BY <2>1, KeptOne, Zenon
      <4> QED
        BY <2>1, <4>1
    <3>2. Kept(e, Tagged(e, <<"n", "s">>)) = <<"n">>
      <4>1. Kept(e, Tagged(e, <<"n", "s">>)) = Kept(e, Tagged(e, <<"n">>)) \o Kept(e, Tagged(e, <<"s">>))
        BY <2>1, KeptTwo, Zenon
      <4>2. Kept(e, Tagged(e, <<"n">>)) = IF "n" \in {"p", "s", "t"} THEN <<>> ELSE <<"n">>
        BY <2>1, KeptOne, Zenon
      <4>3. Kept(e, Tagged(e, <<"s">>)) = IF "s" \in {"p", "s", "t"} THEN <<>> ELSE <<"s">>
        BY <2>1, KeptOne, Zenon
      <4>4. <<"n">> \o <<>> = <<"n">>
        OBVIOUS
      <4> QED
        BY <2>1, <4>1, <4>2, <4>3, <4>4
    <3> QED
      BY <2>3, <3>1, <3>2
  <2> HIDE DEF z
  <2>5. /\ Tagged(e, f[i]) = Tagged(e, f[i - 1]) \o Tagged(e, z)
        /\ Tagged(e, f[i - 1]) \in Lines /\ Tagged(e, z) \in Lines
    BY <2>2, <2>4, TaggedJoined, Zenon
  <2>6. Kept(e, Tagged(e, f[i])) = Kept(e, Tagged(e, f[i - 1])) \o Kept(e, Tagged(e, z))
    BY <2>5, KeptJoined, Zenon
  <2>7. SubSeq(s, 1, i) = SubSeq(s, 1, i - 1) \o <<c>>
    <3>1. i \in 1 .. Len(s)
      BY DEF n
    <3> QED
      BY <1>1, <3>1, Prefixed, Zenon DEF c
  <2>8. Kept(e, Tagged(e, f[i - 1])) = SubSeq(s, 1, i - 1)
    BY <1>4
  <2>9. i \in 0 .. n
    BY <1>1
  <2> QED
    BY <2>4, <2>6, <2>7, <2>8, <2>9
<1> HIDE DEF P
<1>5. 0 .. n \subseteq P
  BY <1>1, <1>3, <1>4, RunKeeps, Zenon
<1>6. n \in P
  BY <1>1, <1>5
<1>7. SubSeq(s, 1, n) = s
  BY <1>1 DEF n, Chars
<1> QED
  BY <1>2, <1>6, <1>7 DEF P, s

\* The console shows of the entry of a thread what the thread has printed.
ShownInStep ==
  \A t \in Thread : entry[t] \in Entries(out[1]) =>
    Kept(entry[t], out[1]) =
      IF pc[t] = "locked" THEN <<>>
      ELSE IF pc[t] = "close" THEN Text[entry[t][3]] ELSE Text[entry[t][3]] \o <<"n">>

\* A step that prints nothing, and in which threads begin entries that are not
\* on the console, or return.
Aside ==
  /\ out'[1] = out[1]
  /\ \A u \in Thread : pc'[u] \in InConsole \/ pc[u] \in InConsole => pc'[u] = pc[u]
  /\ \A u \in Thread : entry'[u] = entry[u] \/ entry'[u] \notin Entries(out[1])

\* It changes nothing that is shown.
LEMMA AsideKept == ASSUME ShownInStep, Aside PROVE ShownInStep'
<1> SUFFICES ASSUME NEW u \in Thread, entry'[u] \in Entries(out'[1])
             PROVE  Kept(entry'[u], out'[1]) =
                      IF pc'[u] = "locked" THEN <<>>
                      ELSE IF pc'[u] = "close" THEN Text[entry'[u][3]] ELSE Text[entry'[u][3]] \o <<"n">>
  BY DEF ShownInStep
<1>1. out'[1] = out[1] /\ entry'[u] = entry[u] /\ entry[u] \in Entries(out[1])
  BY DEF Aside
<1>2. pc'[u] = "locked" <=> pc[u] = "locked"
  BY DEF Aside, InConsole
<1>3. pc'[u] = "close" <=> pc[u] = "close"
  BY DEF Aside, InConsole
<1> QED
  BY <1>1, <1>2, <1>3 DEF ShownInStep

\* A thread prints: what is shown of its entry grows by what the printed text
\* shows, and nothing else does.
Prints(t, s) ==
  /\ Written(t, 1, s) /\ pc[t] # "idle" /\ UNCHANGED entry /\ 1 \in Backend
  /\ \A u \in Thread : u # t => pc'[u] = pc[u]

\* What is shown is a text.
LEMMA KeptTyped == ASSUME NEW e, NEW q \in Lines PROVE Kept(e, q) \in Chars
<1>1. PICK f \in [0 .. Len(q) -> Chars] : Shows(f, e, q)
  BY KeptIs, Zenon
<1>2. Len(q) \in 0 .. Len(q)
  BY DEF Lines
<1> QED
  BY <1>1, <1>2 DEF Shows

\* What is on the console then.
LEMMA PrintedIs ==
  ASSUME LogInv, NEW t \in Thread, NEW s \in Chars, Prints(t, s)
  PROVE  /\ out[1] \in Lines /\ Tagged(entry[t], s) \in Lines /\ entry[t] \in Entry
         /\ out'[1] = out[1] \o Tagged(entry[t], s)
         /\ Entries(out'[1]) \subseteq Entries(out[1]) \cup {entry[t]}
<1>1. 1 \in Backend /\ Written(t, 1, s) /\ pc[t] # "idle"
  BY DEF Prints
<1>2. out[1] \in Lines /\ entry[t] \in Entry
  BY <1>1 DEF LogInv, LogTyped, EntriesTyped
<1>3. Tagged(entry[t], s) \in Lines /\ Tagged(entry[t], s \o s) = Tagged(entry[t], s) \o Tagged(entry[t], s)
  BY <1>2, TaggedJoined, Zenon
<1>4. /\ s = <<>> => out'[1] = out[1]
      /\ s # <<>> => out'[1] = out[1] \o Tagged(entry[t], s)
  BY <1>1, WrittenIs
<1>5. CASE s = <<>>
  <2>1. Tagged(entry[t], s) = <<>>
    BY <1>5 DEF Tagged
  <2>2. out[1] \o <<>> = out[1]
    BY <1>2 DEF Lines
  <2> QED
    BY <1>2, <1>3, <1>4, <1>5, <2>1, <2>2
<1>6. CASE s # <<>>
  <2> DEFINE e == entry[t]
             q == out[1]
  <2>1. q \in Lines /\ e \in Entry /\ s \in Seq(Char)
    BY <1>2 DEF Chars
  <2> HIDE DEF e, q
  <2>2. LET r == q \o Tagged(e, s) IN Entries(r) = Entries(q) \cup {e}
    BY <1>6, <2>1, AppendedAt
  <2> QED
    BY <1>2, <1>3, <1>4, <1>6, <2>2 DEF e, q
<1> QED
  BY <1>5, <1>6

\* What is shown then.
PrintsSo(t, s) ==
  /\ Kept(entry[t], out'[1]) = Kept(entry[t], out[1]) \o Kept(entry[t], Tagged(entry[t], s))
  /\ \A u \in Thread : u # t /\ entry[u] \in Entries(out'[1]) =>
       /\ entry[u] \in Entries(out[1]) /\ entry'[u] = entry[u] /\ pc'[u] = pc[u]
       /\ Kept(entry[u], out'[1]) = Kept(entry[u], out[1])

\* The printed text shows, and nothing else changes.
LEMMA PrintKept ==
  ASSUME LogInv, ShownInStep, NEW t \in Thread, NEW s \in Chars, Prints(t, s)
  PROVE  PrintsSo(t, s)
<1> DEFINE q == out[1]
           z == Tagged(entry[t], s)
<1>1. q \in Lines /\ z \in Lines /\ entry[t] \in Entry /\ out'[1] = q \o z /\ Entries(out'[1]) \subseteq Entries(q) \cup {entry[t]}
  BY PrintedIs
<1>2. \A x \in Entries(z) : x = entry[t]
  BY DEF Tagged, Entries
<1> HIDE DEF q, z
<1>3. ASSUME NEW u \in Thread, u # t, entry[u] \in Entries(out'[1])
      PROVE  /\ entry[u] \in Entries(q) /\ entry'[u] = entry[u] /\ pc'[u] = pc[u]
             /\ Kept(entry[u], out'[1]) = Kept(entry[u], q)
  <2>1. entry[u][1] = u /\ entry[t][1] = t
    BY DEF LogInv, EntriesTyped
  <2>2. entry[u] # entry[t] /\ entry[u] \notin Entries(z)
    BY <1>2, <1>3, <2>1
  <2>3. Kept(entry[u], z) = <<>>
    BY <1>1, <2>2, KeptOthers, Zenon
  <2>4. Kept(entry[u], q \o z) = Kept(entry[u], q) \o Kept(entry[u], z)
    BY <1>1, KeptJoined, Zenon
  <2>5. Kept(entry[u], q) \in Chars
    BY <1>1, KeptTyped, Zenon
  <2>6. Kept(entry[u], q) \o <<>> = Kept(entry[u], q)
    BY <2>5, JoinedTexts, Zenon
  <2>7. entry[u] \in Entries(q) /\ entry'[u] = entry[u] /\ pc'[u] = pc[u]
    BY <1>1, <1>3, <2>2 DEF Prints
  <2> QED
    BY <1>1, <2>3, <2>4, <2>6, <2>7
<1>4. Kept(entry[t], q \o z) = Kept(entry[t], q) \o Kept(entry[t], z)
  BY <1>1, KeptJoined, Zenon
<1> QED
  BY <1>1, <1>3, <1>4 DEF q, z, PrintsSo

\* A text without what was put after it.
LEMMA TakenBack ==
  ASSUME NEW T, NEW z \in Seq(T), NEW c \in T
  PROVE  SubSeq(z \o <<c>>, 1, Len(z \o <<c>>) - 1) = z
OBVIOUS

\* Nothing is on the console at first.
LEMMA InitShown == LogInit => ShownInStep
<1> SUFFICES ASSUME LogInit PROVE ShownInStep
  OBVIOUS
<1>1. 1 \in Backend
  BY LoggerAssumption DEF Backend
<1>2. out[1] = <<>>
  BY <1>1 DEF LogInit
<1> QED
  BY <1>2 DEF ShownInStep, Entries

\* Every step of every thread keeps what is known of the console.
LEMMA ShownKept ==
  ASSUME LogInv, ShownInStep, [LogNext]_logVars
  PROVE  ShownInStep'
<1>1. LogTyped /\ LogTyped' /\ EntriesInStep'
  BY CoreKept, EntriesKept DEF LogInv
<1>2. /\ DOMAIN pc = Thread /\ DOMAIN entry = Thread /\ 1 \in Backend /\ Nobody \notin Thread
      /\ out \in [Backend -> Lines] /\ \A u \in Thread : iter[u] \in [block : Nat, at : Nat, end : Nat]
  <2>1. DOMAIN pc = Thread /\ DOMAIN entry = Thread
    BY <1>1 DEF LogTyped
  <2>2. 1 \in Backend /\ Nobody \notin Thread
    BY LoggerAssumption DEF Backend
  <2>3. out \in [Backend -> Lines] /\ \A u \in Thread : iter[u] \in [block : Nat, at : Nat, end : Nat]
    BY <1>1 DEF LogTyped
  <2> QED
    BY <2>1, <2>2, <2>3
<1>3. UNCHANGED <<pc, out, entry>> => Aside
  BY <1>2 DEF Aside
<1>4. Aside => ShownInStep'
  BY AsideKept
<1> USE DEF InConsole, storeVars, threadVars
<1>5. ASSUME SetLevel PROVE ShownInStep'
  BY <1>3, <1>4, <1>5 DEF SetLevel
<1>6. ASSUME NEW t \in Thread, AddReserve(t) \/ AddCount(t) PROVE ShownInStep'
  BY <1>3, <1>4, <1>6 DEF AddReserve, AddCount
<1>7. ASSUME NEW t \in Thread, Begin(t) PROVE ShownInStep'
  <2>1. /\ out' = out /\ pc[t] = "idle" /\ \A u \in Thread : u # t => pc'[u] = pc[u] /\ entry'[u] = entry[u]
        /\ (pc'[t] = "idle" /\ entry'[t] = entry[t]) \/ pc'[t] = "begin"
    BY <1>2, <1>7 DEF Begin
  <2>2. pc'[t] = "begin" => entry'[t] \notin Entries(out[1])
    <3>1. pc'[t] = "begin" => ~(1 <= Through(pc'[t], iter'[t]))
      BY DEF Through
    <3> QED
      BY <1>1, <1>2, <2>1, <3>1 DEF EntriesInStep, EntriesHeld
  <2>3. Aside
    BY <2>1, <2>2 DEF Aside
  <2> QED
    BY <1>4, <2>3
<1>8. ASSUME NEW t \in Thread, IterBegin(t) \/ IterEnd(t) \/ IterDone(t) \/ Stray(t) PROVE ShownInStep'
  <2>1. /\ UNCHANGED <<out, entry>> /\ pc[t] \notin InConsole /\ pc'[t] \notin InConsole
        /\ \A u \in Thread : u # t => pc'[u] = pc[u]
    BY <1>2, <1>8 DEF IterBegin, IterEnd, IterDone, Stray
  <2>2. Aside
    BY <2>1 DEF Aside
  <2> QED
    BY <1>4, <2>2
<1>9. ASSUME NEW t \in Thread, ConsoleOpen(t) PROVE ShownInStep'
  <2>1. pc[t] = "call" /\ <<"p">> \in Chars /\ Written(t, 1, <<"p">>) /\ iter[t].at = 0
    BY <1>9, ConsoleOpenWrites
  <2>2. entry' = entry /\ pc'[t] = "locked" /\ \A u \in Thread : u # t => pc'[u] = pc[u]
    BY <1>2, <1>9 DEF ConsoleOpen
  <2>3. Prints(t, <<"p">>)
    BY <1>2, <2>1, <2>2 DEF Prints
  <2>4. PrintsSo(t, <<"p">>)
    BY <2>1, <2>3, PrintKept, Zenon DEF PrintsSo
  <2>5. Kept(entry[t], out[1]) = <<>>
    <3>1. ~(1 <= Through(pc[t], iter[t]))
      BY <2>1 DEF Through
    <3>2. entry[t] \notin Entries(out[1]) /\ out[1] \in Lines
      BY <1>2, <2>1, <3>1 DEF LogInv, EntriesHeld
    <3> QED
      BY <3>2, KeptOthers, Zenon
  <2>6. Kept(entry[t], Tagged(entry[t], <<"p">>)) = <<>>
    <3>1. entry[t] \in Entry /\ "p" \in Char
      BY <2>1 DEF LogInv, EntriesTyped, Char
    <3>2. Kept(entry[t], Tagged(entry[t], <<"p">>)) = IF "p" \in {"p", "s", "t"} THEN <<>> ELSE <<"p">>
      BY <3>1, KeptOne, Zenon
    <3> QED
      BY <3>2
  <2>7. <<>> \o <<>> = <<>>
    OBVIOUS
  <2>8. Kept(entry'[t], out'[1]) = <<>>
    BY <2>2, <2>4, <2>5, <2>6, <2>7 DEF PrintsSo
  <2> QED
    BY <2>2, <2>4, <2>8 DEF PrintsSo, ShownInStep
<1>10. ASSUME NEW t \in Thread, ConsoleText(t) PROVE ShownInStep'
  <2> DEFINE s == ConsoleLine[entry[t][3]]
             m == entry[t][3]
  <2>1. pc[t] = "locked" /\ s \in Chars /\ Written(t, 1, s)
    BY <1>10, ConsoleTextWrites
  <2>2. entry' = entry /\ pc'[t] = "close" /\ \A u \in Thread : u # t => pc'[u] = pc[u]
    BY <1>2, <1>10 DEF ConsoleText
  <2>3. Prints(t, s)
    BY <1>2, <2>1, <2>2 DEF Prints
  <2>4. PrintsSo(t, s)
    BY <2>1, <2>3, PrintKept, Zenon DEF PrintsSo
  <2>5. Kept(entry[t], out[1]) = <<>>
    <3>1. 1 <= Through(pc[t], iter[t])
      BY <2>1 DEF Through
    <3>2. entry[t] \in Entries(out[1])
      BY <1>2, <2>1, <3>1 DEF LogInv, EntriesHeld
    <3> QED
      BY <2>1, <3>2 DEF ShownInStep
  <2>6. entry[t] \in Entry /\ m \in Messages
    BY <2>1 DEF LogInv, EntriesTyped, Entry
  <2>7. Kept(entry[t], Tagged(entry[t], s)) = Text[m]
    BY <2>6, KeptLine, Zenon
  <2>8. <<>> \o Text[m] = Text[m]
    BY <2>6, TextTyped DEF Chars
  <2>9. Kept(entry'[t], out'[1]) = Text[entry'[t][3]]
    BY <2>2, <2>4, <2>5, <2>7, <2>8 DEF PrintsSo
  <2> QED
    BY <2>2, <2>4, <2>9 DEF PrintsSo, ShownInStep
<1>11. ASSUME NEW t \in Thread, ConsoleClose(t) PROVE ShownInStep'
  <2> DEFINE m == entry[t][3]
  <2>1. pc[t] = "close" /\ <<"t", "n">> \in Chars /\ Written(t, 1, <<"t", "n">>)
    BY <1>11, ConsoleCloseWrites
  <2>2. entry' = entry /\ pc'[t] = "call" /\ \A u \in Thread : u # t => pc'[u] = pc[u]
    BY <1>2, <1>11 DEF ConsoleClose
  <2>3. Prints(t, <<"t", "n">>)
    BY <1>2, <2>1, <2>2 DEF Prints
  <2>4. PrintsSo(t, <<"t", "n">>)
    BY <2>1, <2>3, PrintKept, Zenon DEF PrintsSo
  <2>5. Kept(entry[t], out[1]) = Text[m]
    <3>1. 1 <= Through(pc[t], iter[t])
      BY <2>1 DEF Through
    <3>2. entry[t] \in Entries(out[1])
      BY <1>2, <2>1, <3>1 DEF LogInv, EntriesHeld
    <3> QED
      BY <2>1, <3>2 DEF ShownInStep
  <2>6. Kept(entry[t], Tagged(entry[t], <<"t", "n">>)) = <<"n">>
    <3>1. entry[t] \in Entry /\ "t" \in Char /\ "n" \in Char
      BY <2>1 DEF LogInv, EntriesTyped, Char
    <3>2. Kept(entry[t], Tagged(entry[t], <<"t">>)) = IF "t" \in {"p", "s", "t"} THEN <<>> ELSE <<"t">>
      BY <3>1, KeptOne, Zenon
    <3>3. Kept(entry[t], Tagged(entry[t], <<"n">>)) = IF "n" \in {"p", "s", "t"} THEN <<>> ELSE <<"n">>
      BY <3>1, KeptOne, Zenon
    <3>4. Kept(entry[t], Tagged(entry[t], <<"t", "n">>))
            = Kept(entry[t], Tagged(entry[t], <<"t">>)) \o Kept(entry[t], Tagged(entry[t], <<"n">>))
      BY <3>1, KeptTwo, Zenon
    <3>5. <<>> \o <<"n">> = <<"n">>
      OBVIOUS
    <3> QED
      BY <3>2, <3>3, <3>4, <3>5
  <2>7. Kept(entry'[t], out'[1]) = Text[entry'[t][3]] \o <<"n">>
    BY <2>2, <2>4, <2>5, <2>6 DEF PrintsSo
  <2> QED
    BY <2>2, <2>4, <2>7 DEF PrintsSo, ShownInStep
<1>12. ASSUME NEW t \in Thread, FileEntry(t) PROVE ShownInStep'
  <2>1. /\ out'[1] = out[1] /\ entry' = entry /\ pc[t] = "call" /\ pc'[t] \in {"call", "idle"}
        /\ \A u \in Thread : u # t => pc'[u] = pc[u]
    <3> DEFINE b == iter[t].at + 1
    <3>1. /\ pc[t] = "call" /\ b \in Backend /\ b # 1
          /\ \/ (\E s \in Chars : Written(t, b, s)) /\ UNCHANGED pc
             \/ pc' = [pc EXCEPT ![t] = "idle"] /\ UNCHANGED out
      BY <1>2, <1>12, FileEntryWrites
    <3>2. entry' = entry
      BY <1>12 DEF FileEntry
    <3> HIDE DEF b
    <3>3. ASSUME NEW s \in Chars, Written(t, b, s) PROVE out'[1] = out[1]
      BY <1>2, <3>1, <3>3, WrittenIs
    <3> QED
      BY <1>2, <3>1, <3>2, <3>3
  <2>2. Aside
    BY <2>1 DEF Aside
  <2> QED
    BY <1>4, <2>2
<1>13. ASSUME UNCHANGED logVars PROVE ShownInStep'
  BY <1>3, <1>4, <1>13 DEF logVars
<1> QED
  BY <1>5, <1>6, <1>7, <1>8, <1>9, <1>10, <1>11, <1>12, <1>13 DEF LogNext, Proceed

\* What a thread has logged is shown when its call has returned.
LEMMA ReturnedShown ==
  ASSUME LogInv, ShownInStep, NEW t \in Thread, Returned(t)
  PROVE  entry[t] \in Entry /\ Shown(entry[t]) = Text[entry[t][3]]
<1> DEFINE e == entry[t]
           m == entry[t][3]
<1>1. pc[t] = "idle" /\ e \in Entries(out[1]) /\ out[1] \in Lines
  <2>1. 1 \in Backend
    BY LoggerAssumption DEF Backend
  <2> QED
    BY <2>1 DEF Returned, Got, Entries, LogInv, LogTyped
<1>2. e \in Entry /\ m \in Messages
  BY <1>1 DEF Entries, Lines, Entry
<1>3. Kept(e, out[1]) = Text[m] \o <<"n">>
  BY <1>1 DEF ShownInStep
<1>4. Shown(e) = SubSeq(Kept(e, out[1]), 1, Len(Kept(e, out[1])) - 1)
  BY Zenon DEF Shown, Kept, Keep
<1>5. \A z \in Chars : SubSeq(z \o <<"n">>, 1, Len(z \o <<"n">>) - 1) = z
  <2> SUFFICES ASSUME NEW z \in Chars
               PROVE  SubSeq(z \o <<"n">>, 1, Len(z \o <<"n">>) - 1) = z
    OBVIOUS
  <2>1. z \in Seq(Char) /\ "n" \in Char
    BY DEF Chars, Char
  <2> QED
    BY <2>1, TakenBack
<1> QED
  BY <1>2, <1>3, <1>4, <1>5, TextTyped

\* Texts one after another, when every one is put after those before it.
LEMMA FlattenIs ==
  ASSUME NEW n \in Nat, NEW f \in [0 .. n -> Chars], NEW s \in Seq(Chars), Len(s) <= n,
         f[0] = <<>>, \A i \in 1 .. Len(s) : f[i] = f[i - 1] \o s[i]
  PROVE  FlattenSeq(s) = f[Len(s)]
<1> DEFINE k == Len(s)
<1>1. k \in Nat /\ \A i \in 0 .. k : f[i] \in Chars
  OBVIOUS
<1>2. CASE k = 0
  <2>1. s = <<>> /\ FlattenSeq(s) = s
    BY <1>2 DEF FlattenSeq
  <2> QED
    BY <1>2, <2>1
<1>3. CASE k # 0
  <2> DEFINE Is(h) == h = [i \in 1 .. Len(s) |-> IF i = 1 THEN s[i] ELSE h[i - 1] \o s[i]]
             g == [i \in 1 .. k |-> f[i]]
             h == CHOOSE x : Is(x)
  <2>1. FlattenSeq(s) = h[k]
    <3>1. Len(s) # 0
      BY <1>3
    <3> QED
      BY <3>1, Zenon DEF FlattenSeq
  <2>2. f[1] = s[1]
    <3>1. f[1] = f[1 - 1] \o s[1] /\ s[1] \in Chars
      <4>1. 1 \in 1 .. Len(s)
        BY <1>1, <1>3
      <4>2. s[1] \in Chars
        BY <4>1
      <4> QED
        BY <4>1, <4>2, Zenon
    <3>2. 1 - 1 = 0
      OBVIOUS
    <3> QED
      BY <3>1, <3>2, JoinedTexts
  <2>3. Is(g)
    <3>1. ASSUME NEW i \in 1 .. k PROVE g[i] = IF i = 1 THEN s[i] ELSE g[i - 1] \o s[i]
      <4>1. CASE i = 1
        BY <2>2, <4>1
      <4>2. CASE i # 1
        <5>1. i - 1 \in 1 .. k
          BY <1>1, <4>2
        <5> QED
          BY <4>2, <5>1
      <4> QED
        BY <4>1, <4>2
    <3> QED
      BY <3>1
  <2>4. Is(h)
    BY <2>3
  <2> HIDE DEF h, g
  <2>5. \A i \in 1 .. k : h[i] = IF i = 1 THEN s[i] ELSE h[i - 1] \o s[i]
    BY <2>4, Zenon
  <2> DEFINE P == {i \in 0 .. k : i = 0 \/ h[i] = f[i]}
  <2>6. 0 \in P
    BY <1>1
  <2>7. ASSUME NEW i \in 1 .. k, i - 1 \in P PROVE i \in P
    <3>1. CASE i = 1
      BY <2>2, <2>5, <3>1
    <3>2. CASE i # 1
      <4>1. h[i] = h[i - 1] \o s[i] /\ h[i - 1] = f[i - 1] /\ i \in 0 .. k
        <5>1. h[i] = h[i - 1] \o s[i]
          BY <2>5, <3>2
        <5>2. i - 1 # 0 /\ i \in 0 .. k
          BY <1>1, <3>2
        <5> QED
          BY <2>7, <5>1, <5>2
      <4>2. f[i] = f[i - 1] \o s[i]
        OBVIOUS
      <4> QED
        BY <4>1, <4>2
    <3> QED
      BY <3>1, <3>2
  <2> HIDE DEF P
  <2>8. 0 .. k \subseteq P
    BY <1>1, <2>6, <2>7, RunKeeps, Zenon
  <2>9. k \in 0 .. k
    BY <1>1
  <2> QED
    BY <1>3, <2>1, <2>8, <2>9 DEF P
<1> QED
  BY <1>2, <1>3

\* The text of a message is made of whole pieces, of which those are left out
\* that did not fit when their turn came.
LEMMA TextWhole == ASSUME NEW m \in Messages PROVE Text[m] \in WholePieces[m]
<1> DEFINE s == Pieces[m]
           n == Len(s)
<1>1. n \in Nat /\ DOMAIN s = 1 .. n /\ \A i \in 1 .. n : s[i] \in Chars
  <2>1. s \in Seq(Seq(Letters))
    BY LoggerAssumption
  <2>2. n \in Nat /\ DOMAIN s = 1 .. n /\ \A i \in 1 .. n : s[i] \in Seq(Letters)
    BY <2>1
  <2>3. Seq(Letters) \subseteq Chars
    BY DEF Chars, Char
  <2> QED
    BY <2>2, <2>3
<1>2. PICK f \in [0 .. n -> Chars] :
        /\ f[0] = <<>> /\ Text[m] = f[n]
        /\ \A i \in 1 .. n : f[i] = BufferWrite(f[i - 1], s[i])
  BY TextIs
<1> DEFINE done == {i \in 1 .. n : Len(f[i - 1]) + Len(s[i]) < LineCap}
           Part(k) == [i \in 1 .. k |-> IF i \in done THEN s[i] ELSE <<>>]
           Upto(k) == FlattenSeq(Part(k))
<1> HIDE DEF n, s
<1>3. \A i \in 1 .. n : f[i] = f[i - 1] \o IF i \in done THEN s[i] ELSE <<>>
  <2> SUFFICES ASSUME NEW i \in 1 .. n PROVE f[i] = f[i - 1] \o IF i \in done THEN s[i] ELSE <<>>
    OBVIOUS
  <2>1. f[i] = BufferWrite(f[i - 1], s[i]) /\ f[i - 1] \in Chars /\ s[i] \in Chars
    BY <1>1, <1>2
  <2>2. Len(f[i - 1]) \in Nat /\ Len(s[i]) \in Nat /\ LineCap \in Nat /\ f[i - 1] \o <<>> = f[i - 1]
    BY <2>1, LoggerAssumption DEF Chars
  <2>3. f[i] = IF Len(f[i - 1]) + Len(s[i]) >= LineCap THEN f[i - 1] ELSE f[i - 1] \o s[i]
    BY <2>1 DEF BufferWrite
  <2>4. i \in done <=> ~(Len(f[i - 1]) + Len(s[i]) >= LineCap)
    <3>1. i \in done <=> Len(f[i - 1]) + Len(s[i]) < LineCap
      OBVIOUS
    <3> HIDE DEF done
    <3>2. \A a, b, c \in Nat : a + b < c <=> ~(a + b >= c)
      OBVIOUS
    <3>3. Len(f[i - 1]) + Len(s[i]) < LineCap <=> ~(Len(f[i - 1]) + Len(s[i]) >= LineCap)
      BY <2>2, <3>2, Zenon
    <3> QED
      BY <3>1, <3>3, Zenon
  <2> HIDE DEF done
  <2>5. CASE i \in done
    BY <2>3, <2>4, <2>5
  <2>6. CASE i \notin done
    BY <2>2, <2>3, <2>4, <2>6
  <2> QED
    BY <2>5, <2>6
<1> HIDE DEF done
<1>4. ASSUME NEW k \in 0 .. n PROVE Upto(k) = f[k]
  <2>1. /\ Part(k) \in Seq(Chars) /\ Len(Part(k)) = k /\ k \in Nat /\ k <= n
        /\ \A i \in 1 .. k : Part(k)[i] = IF i \in done THEN s[i] ELSE <<>>
    <3>1. \A i \in 1 .. k : (IF i \in done THEN s[i] ELSE <<>>) \in Chars
      <4>1. <<>> \in Chars /\ \A i \in 1 .. k : i \in 1 .. n
        BY <1>1 DEF Chars
      <4> QED
        BY <1>1, <4>1
    <3>2. k \in Nat /\ k <= n
      BY <1>1
    <3> HIDE DEF Chars
    <3> QED
      BY <3>1, <3>2
  <2>2. \A i \in 1 .. Len(Part(k)) : f[i] = f[i - 1] \o Part(k)[i]
    <3>1. \A i \in 1 .. k : i \in 1 .. n
      BY <1>1
    <3> QED
      BY <1>3, <2>1, <3>1
  <2> HIDE DEF Part
  <2> QED
    BY <1>1, <1>2, <2>1, <2>2, FlattenIs
<1>5. \A k \in 1 .. n : k \in done <=> Len(Upto(k - 1)) + Len(s[k]) < LineCap
  <2> SUFFICES ASSUME NEW k \in 1 .. n PROVE k \in done <=> Len(Upto(k - 1)) + Len(s[k]) < LineCap
    OBVIOUS
  <2>1. Upto(k - 1) = f[k - 1]
    <3>1. k - 1 \in 0 .. n
      BY <1>1
    <3> HIDE DEF Upto
    <3> QED
      BY <1>4, <3>1
  <2> QED
    BY <2>1 DEF done
<1>6. Upto(n) = Text[m]
  <2>1. n \in 0 .. n
    BY <1>1
  <2> HIDE DEF Upto
  <2> QED
    BY <1>2, <1>4, <2>1
<1>7. done \in SUBSET DOMAIN s
  BY <1>1 DEF done
<1> QED
  BY <1>1, <1>5, <1>6, <1>7, Zenon DEF WholePieces, s, n

\* The inductive invariant: LogInv, of the entries in all backends, and what
\* the console shows.
LogIInv == LogInv /\ ShownInStep

\* Every step keeps it.
LEMMA NextLogIInv == LogIInv /\ [LogNext]_logVars => LogIInv'
<1> SUFFICES ASSUME LogInv, ShownInStep, [LogNext]_logVars PROVE LogInv' /\ ShownInStep'
  BY DEF LogIInv
<1>1. LogTyped' /\ MovedByGrowth' /\ ThreadsInStep'
  BY CoreKept
<1>2. EntriesInStep'
  BY EntriesKept
<1>3. ShownInStep'
  BY ShownKept
<1> QED
  BY <1>1, <1>2, <1>3 DEF LogInv, EntriesInStep

\* It holds in every state.
LEMMA LogInvariant == LogSpec => []LogIInv
<1>1. LogInit => LogIInv
  BY InitLogInv, InitShown DEF LogIInv
<1> QED
  BY <1>1, NextLogIInv, PTL DEF LogSpec

\* The iterations of Logger::write: none uses memory that holds no backend,
\* however threads log while another adds backends, until the vector grows
\* beyond its first capacity.
THEOREM LogIterationsInMemory == LogSpec => []IterationsInMemory
<1>1. LogIInv => IterationsInMemory
  <2> SUFFICES ASSUME LogInv PROVE IterationsInMemory
    BY DEF LogIInv
  <2> USE DEF LogInv
  <2>1. backends \in Backend /\ cap >= backends /\ block \in Nat /\ level \in Levels
    BY DEF LogTyped
  <2>2. calls \in 0 .. MaxCalls /\ faults \in 0 .. MaxFaults /\ astray \in BOOLEAN
    BY DEF LogTyped
  <2>3. pc \in [Thread -> {"idle", "begin", "end", "call", "locked", "close"}]
    BY DEF LogTyped, InConsole
  <2>4. holder = Nobody \/ pc[holder] \in {"locked", "close"}
    BY DEF LogTyped, ThreadsInStep, InConsole
  <2>5. astray => cap > Align
    <3>1. astray = TRUE => cap > Align
      BY DEF MovedByGrowth
    <3> QED
      BY <2>2, <3>1, Zenon
  <2> QED
    BY <2>1, <2>2, <2>3, <2>4, <2>5 DEF IterationsInMemory, LogTypeOK
<1> QED
  BY <1>1, LogInvariant, PTL

\* Logger::write and the entries of its backends: the lines of an entry are in
\* one piece in every backend, and the next entry begins on a line of its own.
THEOREM LogLinesSeparate == LogSpec => []LinesSeparate
<1>1. LogIInv => LinesSeparate
  <2> SUFFICES ASSUME LogInv, NEW b \in Backend, NEW i \in DOMAIN out[b], i > 1, out[b][i][1] # out[b][i - 1][1]
               PROVE  /\ \A k \in 1 .. i - 1 : out[b][k][1] # out[b][i][1]
                      /\ b = 1 \/ (faults = 0 /\ FileLineFits[out[b][i - 1][1][3]]) => out[b][i - 1][2] = "n"
    BY DEF LogIInv, LinesSeparate
  <2>1. InStep(out[b], Ending(b, faults))
    BY DEF LogInv, OutsInStep
  <2>2. out[b][i - 1][1] \in Entry
    <3> DEFINE T == Entry \X Char
    <3>1. out[b] \in Seq(T)
      BY DEF LogInv, LogTyped, Lines
    <3> HIDE DEF T
    <3>2. out[b][i - 1] \in T
      BY <3>1
    <3> QED
      BY <3>2 DEF T
  <2> QED
    BY <2>1, <2>2 DEF InStep, Together, Ended, Ending
<1> QED
  BY <1>1, LogInvariant, PTL

\* Logger::write and its iteration over the backends: the entries of a thread
\* come to each backend in order, none that an earlier backend has not got,
\* and to every backend that the call found; when it has returned, the console
\* shows the message in whole pieces.
THEOREM LogEntriesDelivered == LogSpec => []EntriesDelivered
<1>1. LogIInv => EntriesDelivered
  <2> SUFFICES ASSUME LogInv, ShownInStep PROVE EntriesDelivered
    BY DEF LogIInv
  <2>1. \A b \in Backend : Got(b) = Entries(out[b])
    BY DEF Got, Entries
  <2>2. 1 \in Backend /\ \A c \in Backend \ {1} : c - 1 \in Backend
    BY LoggerAssumption DEF Backend
  <2>3. ASSUME NEW b \in Backend, NEW i \in DOMAIN out[b], NEW k \in 1 .. i, out[b][i][1][1] = out[b][k][1][1]
        PROVE  out[b][k][1][2] <= out[b][i][1][2]
    BY <2>3 DEF LogInv, OutsInStep, InStep, Ordered
  <2>4. \A b \in Backend \ {1} : Got(b) \subseteq Got(b - 1)
    BY <2>1, <2>2 DEF LogInv, PrefixesHeld
  <2>5. ASSUME NEW t \in Thread, Returned(t), NEW b \in 1 .. iter[t].end PROVE entry[t] \in Got(b)
    <3>1. iter[t].end \in Nat /\ iter[t].end <= backends /\ backends \in Backend /\ astray \in BOOLEAN
      BY DEF LogInv, LogTyped, ThreadsInStep
    <3>2. b \in Backend /\ b <= iter[t].end
      BY <3>1, LoggerAssumption DEF Backend
    <3>3. pc[t] = "idle" /\ entry[t] \in Entries(out[1]) /\ faults = 0 /\ astray = FALSE
      <4>1. ~astray
        BY <2>5 DEF Returned
      <4>2. astray = FALSE
        BY <3>1, <4>1, Zenon
      <4> QED
        BY <2>1, <2>2, <2>5, <4>2 DEF Returned
    <3> QED
      BY <2>1, <3>2, <3>3 DEF LogInv, ReturnedHeld
  <2>6. EntriesInOrder
    BY <2>3, <2>4, <2>5 DEF EntriesInOrder
  <2>7. ASSUME NEW t \in Thread, Returned(t) PROVE Shown(entry[t]) \in WholePieces[entry[t][3]]
    <3>1. entry[t] \in Entry /\ Shown(entry[t]) = Text[entry[t][3]]
      BY <2>7, ReturnedShown
    <3>2. entry[t][3] \in Messages
      BY <3>1 DEF Entry
    <3> QED
      BY <3>1, <3>2, TextWhole
  <2> QED
    BY <2>6, <2>7 DEF EntriesDelivered
<1> QED
  BY <1>1, LogInvariant, PTL

(***************************************************************************)
(* Stderr                                                                  *)
(***************************************************************************)

\* Who writes to stderr has the mutex; and once an eprint has ended, returned or
\* thrown, somebody has it who does not write, and never unlocks it.
StderrInv ==
  /\ errHolder \in Thread \cup {Nobody}
  /\ errPc \in [Thread -> {"idle", "lock", "print", "panic", "write", "unwind"}]
  /\ \A t \in Thread : errPc[t] \in {"print", "write", "unwind"} => errHolder = t
  /\ kept => errHolder # Nobody /\ \A t \in Thread : errPc[t] \notin {"print", "write", "unwind"}

\* Every step of a thread at stderr preserves it.
LEMMA StderrKeeps == StderrInv /\ [E!Next]_errVars => StderrInv'
<1> SUFFICES ASSUME StderrInv, [E!Next]_errVars PROVE StderrInv'
  OBVIOUS
<1>1. Nobody \notin Thread
  BY StderrConstants DEF E!StderrAssumption
<1>2. CASE UNCHANGED errVars
  BY <1>2 DEF StderrInv, errVars
<1>3. ASSUME NEW t \in Thread, E!Begin(t) PROVE StderrInv'
  BY <1>3 DEF StderrInv, E!Begin
<1>4. ASSUME NEW t \in Thread, E!Lock(t) PROVE StderrInv'
  BY <1>1, <1>4 DEF StderrInv, E!Lock
<1>5. ASSUME NEW t \in Thread, E!PrintPiece(t) PROVE StderrInv'
  BY <1>5 DEF StderrInv, E!PrintPiece
<1>6. ASSUME NEW t \in Thread, E!PrintReturn(t) PROVE StderrInv'
  BY <1>1, <1>6 DEF StderrInv, E!PrintReturn
<1>7. ASSUME NEW t \in Thread, E!LockPiece(t) PROVE StderrInv'
  BY <1>1, <1>7 DEF StderrInv, E!LockPiece
<1>8. ASSUME NEW t \in Thread, E!UnlockPiece(t) PROVE StderrInv'
  BY <1>1, <1>8 DEF StderrInv, E!UnlockPiece
<1>9. ASSUME NEW t \in Thread, E!PanicThrow(t) PROVE StderrInv'
  BY <1>9 DEF StderrInv, E!PanicThrow
<1>10. ASSUME NEW t \in Thread, E!PrintFails(t) PROVE StderrInv'
  BY <1>1, <1>10 DEF StderrInv, E!PrintFails
<1>11. ASSUME NEW t \in Thread, E!PieceFails(t) PROVE StderrInv'
  BY <1>1, <1>11 DEF StderrInv, E!PieceFails
<1> QED
  BY <1>2, <1>3, <1>4, <1>5, <1>6, <1>7, <1>8, <1>9, <1>10, <1>11 DEF E!Next, E!Proceed

\* Once an eprint has ended, returned or thrown, nothing goes out to stderr, and
\* nobody gets the mutex, whatever the threads print or panic and whichever of
\* their writes fail (~Lock, io/stdio.cc:118).
THEOREM StderrEprintIsLast == ReportsSpec => E!EprintIsLast
<1>1. E!Init => StderrInv
  BY DEF E!Init, StderrInv
<1>2. [ReportsNext]_<<component, logVars, errVars>> => [E!Next]_errVars
  BY DEF ReportsNext, errVars
<1>3. StderrInv /\ [E!Next]_errVars => [kept => UNCHANGED <<errOut, errHolder>>]_errVars
  <2> SUFFICES ASSUME StderrInv, kept, E!Next PROVE UNCHANGED <<errOut, errHolder>>
    BY DEF errVars
  <2>1. PICK t \in Thread : E!Begin(t) \/ E!Proceed(t)
    BY DEF E!Next
  <2>2. errHolder # Nobody /\ errPc[t] \notin {"print", "write", "unwind"}
    BY DEF StderrInv
  <2> QED
    BY <2>1, <2>2 DEF E!Proceed, E!Begin, E!Lock, E!PrintPiece, E!PrintFails, E!PrintReturn, E!LockPiece,
       E!PieceFails, E!UnlockPiece, E!PanicThrow
<1>4. ReportsSpec => [][kept => UNCHANGED <<errOut, errHolder>>]_errVars
  BY <1>1, <1>2, <1>3, StderrKeeps, PTL DEF ReportsSpec, ReportsInit
<1> QED
  BY <1>4 DEF E!EprintIsLast, E!vars, errVars
=============================================================================
