-------------------------- MODULE SharedOwnership --------------------------
(***************************************************************************)
(* What sync::Arc / sync::Weak (src/sfc/sync/arc.h) promise to the program *)
(* that uses them, without counters: a value owned by a set of handles,    *)
(* destroyed once when nobody owns it any more, in a block of memory freed *)
(* once when, besides, nobody watches it.                                  *)
(***************************************************************************)
CONSTANT Handle     \* the Arc and Weak objects of the program

VARIABLES
  owners,    \* handles through which the value may be used
  watchers,  \* weak handles: they keep the block, not the value
  leaked,    \* TRUE once an owner was forgotten: nobody will release it
  value,     \* "unborn", "live" or "destroyed"
  block      \* "unborn", "held" or "freed"

vars == <<owners, watchers, leaked, value, block>>

Init ==
  /\ owners = {}
  /\ watchers = {}
  /\ leaked = FALSE
  /\ value = "unborn"
  /\ block = "unborn"

Create ==
  /\ value = "unborn"
  /\ \E h \in Handle, W \in SUBSET Handle :
       /\ h \notin W
       /\ owners' = {h}
       /\ watchers' = W
  /\ value' = "live"
  /\ block' = "held"
  /\ UNCHANGED leaked

\* A copy adds an owner, a move replaces one.
Share ==
  /\ \E h \in owners, g \in Handle \ (owners \cup watchers) :
       owners' \in {owners \cup {g}, (owners \ {h}) \cup {g}}
  /\ UNCHANGED <<watchers, leaked, value, block>>

Watch ==
  /\ \E h \in watchers, g \in Handle \ (owners \cup watchers) :
       watchers' \in {watchers \cup {g}, (watchers \ {h}) \cup {g}}
  /\ UNCHANGED <<owners, leaked, value, block>>

Release ==
  /\ \E h \in owners : owners' = owners \ {h}
  /\ UNCHANGED <<watchers, leaked, value, block>>

Unwatch ==
  /\ \E h \in watchers : watchers' = watchers \ {h}
  /\ UNCHANGED <<owners, leaked, value, block>>

Forget ==
  /\ \E h \in owners : owners' = owners \ {h}
  /\ leaked' = TRUE
  /\ UNCHANGED <<watchers, value, block>>

Destroy ==
  /\ owners = {}
  /\ ~leaked
  /\ value = "live"
  /\ value' = "destroyed"
  /\ UNCHANGED <<owners, watchers, leaked, block>>

Free ==
  /\ watchers = {}
  /\ value = "destroyed"
  /\ block = "held"
  /\ block' = "freed"
  /\ UNCHANGED <<owners, watchers, leaked, value>>

Next == Create \/ Share \/ Watch \/ Release \/ Unwatch \/ Forget \/ Destroy \/ Free

Safe == Init /\ [][Next]_vars

Spec == Safe /\ WF_vars(Destroy) /\ WF_vars(Free)
=============================================================================
