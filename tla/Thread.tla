------------------------------- MODULE Thread -------------------------------
(***************************************************************************)
(* thread::spawn, JoinHandle and Thread (src/sfc/thread/thread.h and       *)
(* src/sfc/thread/imp/unix.cc) over POSIX threads, which are modelled from *)
(* how that code uses them.                                                *)
(*                                                                         *)
(* A job is one call of spawn: the handle it returns and the worker thread *)
(* that runs its closure are two processes that share the packet, an       *)
(* Arc<Option<T>>, and the kernel's table of thread ids.  What module Arc  *)
(* shows of the packet's counter is used here: its steps are atomic.       *)
(* The closures are assumed to return: an exception that left one would    *)
(* leave the start routine of the thread and end the program.              *)
(***************************************************************************)
EXTENDS Naturals, FiniteSets

CONSTANTS
  Job,        \* the calls of spawn
  Tid,        \* the thread ids of the system
  None        \* no job, no id

ASSUME NoneAssumption == None \notin Job \cup Tid

VARIABLES
  hpc,        \* hpc[j]: where the owner of j's JoinHandle is
  outcome,    \* outcome[j]: how spawn or join ended for the owner of j
  wpc,        \* wpc[j]: where the worker of j is
  tid,        \* tid[j]: Thread::_thr of j's handle
  packet,     \* packet[j]: the Option<T> in j's packet
  strong,     \* strong[j]: the owners of j's packet
  os,         \* os[t]: what the system knows of thread id t
  runs,       \* runs[t]: the job of the thread that has, or last had, id t
  detached,   \* detached[t]: nobody is going to join t
  waiter      \* waiter[t]: the job whose owner is blocked in pthread_join(t)

handleVars == <<hpc, outcome>>
systemVars == <<os, runs, detached, waiter>>
vars == <<hpc, outcome, wpc, tid, packet, strong, os, runs, detached, waiter>>

Init ==
  /\ hpc = [j \in Job |-> "idle"]
  /\ outcome = [j \in Job |-> "none"]
  /\ wpc = [j \in Job |-> "none"]
  /\ tid = [j \in Job |-> None]
  /\ packet = [j \in Job |-> "NONE"]
  /\ strong = [j \in Job |-> 0]
  /\ os = [t \in Tid |-> "free"]
  /\ runs = [t \in Tid |-> None]
  /\ detached = [t \in Tid |-> FALSE]
  /\ waiter = [t \in Tid |-> None]

(***************************************************************************)
(* The system: thread ids                                                  *)
(***************************************************************************)

\* An id the system may give to a new thread: also one it has given before.
Available(t) == os[t] = "free"

\* An id nobody refers to any more goes back to the system.
Free(t) ==
  /\ os' = [os EXCEPT ![t] = "free"]
  /\ detached' = [detached EXCEPT ![t] = FALSE]

\* pthread_detach: a running thread will release its id when it ends, an
\* ended one does now; a thread that is being joined, is detached already or
\* does not exist stays as it is (the error is ignored by ~Thread).
Detach(t) ==
  \/ /\ os[t] = "live" /\ ~detached[t] /\ waiter[t] = None
     /\ detached' = [detached EXCEPT ![t] = TRUE]
     /\ UNCHANGED os
  \/ /\ os[t] = "ended" /\ waiter[t] = None
     /\ Free(t)
  \/ /\ os[t] = "free" \/ detached[t] \/ waiter[t] # None
     /\ UNCHANGED <<os, detached>>

(***************************************************************************)
(* Faulty forms of the operations below, no part of Next: what each of the *)
(* properties at the end of the module must notice.                        *)
(***************************************************************************)

\* The closure captures the packet without owning it.
SpawnBorrows(j) ==
  /\ hpc[j] = "idle"
  /\ \E t \in Tid :
       /\ Available(t)
       /\ tid' = [tid EXCEPT ![j] = t]
       /\ os' = [os EXCEPT ![t] = "live"]
       /\ runs' = [runs EXCEPT ![t] = j]
       /\ detached' = [detached EXCEPT ![t] = FALSE]
  /\ strong' = [strong EXCEPT ![j] = 1]
  /\ hpc' = [hpc EXCEPT ![j] = "held"]
  /\ wpc' = [wpc EXCEPT ![j] = "ready"]
  /\ UNCHANGED <<outcome, packet, waiter>>

\* The packet is read without waiting for the worker.
JoinReturnNoWait(j) ==
  /\ hpc[j] = "joining"
  /\ hpc' = [hpc EXCEPT ![j] = "joined"]
  /\ waiter' = [waiter EXCEPT ![tid[j]] = None]
  /\ UNCHANGED <<outcome, wpc, tid, packet, strong, os, runs, detached>>

\* The destructor of the handle neither joins nor detaches.
DropThreadLeaks(j) ==
  /\ hpc[j] = "detaching"
  /\ hpc' = [hpc EXCEPT ![j] = "done"]
  /\ UNCHANGED <<outcome, wpc, tid, packet, strong, systemVars>>

\* The worker returns without storing the result.
StoreNothing(j) ==
  /\ wpc[j] = "ran"
  /\ wpc' = [wpc EXCEPT ![j] = "stored"]
  /\ UNCHANGED <<handleVars, tid, packet, strong, systemVars>>

(***************************************************************************)
(* spawn                                                                   *)
(***************************************************************************)

\* spawn: the packet Arc{NONE}, its copy in the boxed closure, and
\* pthread_create, after which the new thread runs on its own.
Spawn(j) ==
  /\ hpc[j] = "idle"
  /\ \E t \in Tid :
       /\ Available(t)
       /\ tid' = [tid EXCEPT ![j] = t]
       /\ os' = [os EXCEPT ![t] = "live"]
       /\ runs' = [runs EXCEPT ![t] = j]
       /\ detached' = [detached EXCEPT ![t] = FALSE]
  /\ strong' = [strong EXCEPT ![j] = 2]
  /\ hpc' = [hpc EXCEPT ![j] = "held"]
  /\ wpc' = [wpc EXCEPT ![j] = "ready"]
  /\ UNCHANGED <<outcome, packet, waiter>>

\* pthread_create fails: xnew throws.  ~Box<void()> frees the closure without
\* destroying what it captured, so the packet keeps one owner.
SpawnFail(j) ==
  /\ hpc[j] = "idle"
  /\ strong' = [strong EXCEPT ![j] = 1]
  /\ hpc' = [hpc EXCEPT ![j] = "done"]
  /\ outcome' = [outcome EXCEPT ![j] = "error"]
  /\ UNCHANGED <<wpc, tid, packet, systemVars>>

(***************************************************************************)
(* The worker: _thread_callback                                            *)
(***************************************************************************)

\* f()
Run(j) ==
  /\ wpc[j] = "ready"
  /\ wpc' = [wpc EXCEPT ![j] = "ran"]
  /\ UNCHANGED <<handleVars, tid, packet, strong, systemVars>>

\* ptr::replace(&*p, {SOME, x})
Store(j) ==
  /\ wpc[j] = "ran"
  /\ packet' = [packet EXCEPT ![j] = "SOME"]
  /\ wpc' = [wpc EXCEPT ![j] = "stored"]
  /\ UNCHANGED <<handleVars, tid, strong, systemVars>>

\* The Box of the callback frees the closure (not the Arc it captured), and
\* the callback returns: the id is released now if the thread is detached.
End(j) ==
  /\ wpc[j] = "stored"
  /\ wpc' = [wpc EXCEPT ![j] = "ended"]
  /\ \E t \in Tid :
       /\ runs[t] = j /\ os[t] = "live"
       /\ IF detached[t] THEN Free(t)
          ELSE os' = [os EXCEPT ![t] = "ended"] /\ UNCHANGED detached
  /\ UNCHANGED <<handleVars, tid, packet, strong, runs, waiter>>

(***************************************************************************)
(* The handle: JoinHandle::join, ~JoinHandle                               *)
(***************************************************************************)

\* join() calls pthread_join, which blocks; one thread may wait for an id.
Join(j) ==
  /\ hpc[j] = "held"
  /\ os[tid[j]] # "free" /\ ~detached[tid[j]] /\ waiter[tid[j]] = None
  /\ hpc' = [hpc EXCEPT ![j] = "joining"]
  /\ waiter' = [waiter EXCEPT ![tid[j]] = j]
  /\ UNCHANGED <<outcome, wpc, tid, packet, strong, os, runs, detached>>

\* pthread_join refuses a thread that is detached, joined by another, or not
\* there (the standard leaves that open, the system's library answers with an
\* error): Thread::join throws, and the unwinding destroys the handle.
JoinFail(j) ==
  /\ hpc[j] = "held"
  /\ os[tid[j]] = "free" \/ detached[tid[j]] \/ waiter[tid[j]] # None
  /\ hpc' = [hpc EXCEPT ![j] = "closing"]
  /\ outcome' = [outcome EXCEPT ![j] = "error"]
  /\ UNCHANGED <<wpc, tid, packet, strong, systemVars>>

\* The thread with that id has ended: pthread_join releases the id.
\* Thread::join does not clear _owned.
JoinReturn(j) ==
  /\ hpc[j] = "joining"
  /\ os[tid[j]] = "ended"
  /\ hpc' = [hpc EXCEPT ![j] = "joined"]
  /\ Free(tid[j])
  /\ waiter' = [waiter EXCEPT ![tid[j]] = None]
  /\ UNCHANGED <<outcome, wpc, tid, packet, strong, runs>>

\* mem::take(*_packet).unwrap(): take moves the value out of the Option, which
\* keeps its tag, as no Option is trivially constructible.
Take(j) ==
  /\ hpc[j] = "joined"
  /\ outcome' = [outcome EXCEPT ![j] = IF packet[j] = "SOME" THEN "value" ELSE "panic"]
  /\ hpc' = [hpc EXCEPT ![j] = "closing"]
  /\ UNCHANGED <<wpc, tid, packet, strong, systemVars>>

\* ~JoinHandle: the packet goes first.  A handle may be dropped unjoined.
DropPacket(j) ==
  /\ hpc[j] \in {"held", "closing"}
  /\ strong' = [strong EXCEPT ![j] = @ - 1]
  /\ hpc' = [hpc EXCEPT ![j] = "detaching"]
  /\ UNCHANGED <<outcome, wpc, tid, packet, systemVars>>

\* ~Thread: _owned is still true, whether or not join was called.
DropThread(j) ==
  /\ hpc[j] = "detaching"
  /\ hpc' = [hpc EXCEPT ![j] = "done"]
  /\ Detach(tid[j])
  /\ UNCHANGED <<outcome, wpc, tid, packet, strong, runs, waiter>>

Next ==
  \E j \in Job :
    \/ Spawn(j)
    \/ SpawnFail(j)
    \/ Run(j)
    \/ Store(j)
    \/ End(j)
    \/ Join(j)
    \/ JoinFail(j)
    \/ JoinReturn(j)
    \/ Take(j)
    \/ DropPacket(j)
    \/ DropThread(j)

\* Workers run and terminate (the closures are assumed to), and a thread that
\* is in join, or in a destructor, proceeds; nobody has to spawn or to join.
Fairness ==
  \A j \in Job :
    /\ WF_vars(Run(j) \/ Store(j) \/ End(j))
    /\ WF_vars(JoinReturn(j) \/ Take(j))
    /\ WF_vars(DropThread(j))

Spec == Init /\ [][Next]_vars

FairSpec == Spec /\ Fairness
-----------------------------------------------------------------------------
\* The types of the variables; the packet never has more than two owners,
\* and never fewer than none.
TypeOK ==
  /\ hpc \in [Job -> {"idle", "held", "joining", "joined", "closing", "detaching", "done"}]
  /\ outcome \in [Job -> {"none", "value", "error", "panic"}]
  /\ wpc \in [Job -> {"none", "ready", "ran", "stored", "ended"}]
  /\ tid \in [Job -> Tid \cup {None}]
  /\ packet \in [Job -> {"NONE", "SOME"}]
  /\ strong \in [Job -> 0 .. 2]
  /\ os \in [Tid -> {"free", "live", "ended"}]
  /\ runs \in [Tid -> Job \cup {None}]
  /\ detached \in [Tid -> BOOLEAN]
  /\ waiter \in [Tid -> Job \cup {None}]

\* A join that succeeds returns the result of its own job, and never reads
\* the packet while the worker writes it, even when ids are given again.
JoinReadsOwnResult ==
  \A j \in Job :
    /\ hpc[j] = "joined" => wpc[j] \in {"stored", "ended"} /\ packet[j] = "SOME"
    /\ outcome[j] # "panic"

\* A worker that still has its result to store finds the packet alive,
\* whatever happened to the handle in the meantime, and the owners of a packet
\* are counted right (TypeOK).
WorkerPacketLive ==
  TypeOK /\ \A j \in Job : wpc[j] \in {"ready", "ran"} => strong[j] >= 1

\* The test test/sfc/thread/mod.cxx joins two threads and logs what each
\* returns: a thread that was spawned and is joined yields its value.
JoinsYieldValues ==
  \A j \in Job : outcome[j] = "error" => wpc[j] = "none"

\* No id was given twice so far.
FreshIds ==
  \A j, k \in Job : j # k /\ tid[j] # None => tid[j] # tid[k]

\* While the system has given no id twice: a thread that was spawned and is
\* joined yields its value, and once the handle is gone and the worker has
\* ended, the system keeps nothing of the thread, as every thread is joined or
\* detached.
FreshThreadsReleased ==
  FreshIds => JoinsYieldValues /\ \A j \in Job : hpc[j] = "done" /\ wpc[j] = "ended" =>
    \A t \in Tid : runs[t] = j => os[t] # "ended"

\* A join that has begun ends, with the value of the job.
JoinReturns ==
  \A j \in Job : hpc[j] = "joining" ~> outcome[j] = "value"
=============================================================================
