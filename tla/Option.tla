-------------------------------- MODULE Option --------------------------------
(***************************************************************************)
(* Option and Result (src/sfc/core/option.h, result.h): who owns what is   *)
(* in them.  A T holds a resource of which there may be several owners, or *)
(* nothing after it was moved from; the union that keeps it has no         *)
(* destructor, so that tag and value must agree about what to destroy.     *)
(***************************************************************************)
EXTENDS Integers, FiniteSets

CONSTANTS
  Slot,      \* the objects of the program that are Options or Results
  Resource   \* what a T owns; Husk is a T that owns nothing
Husk == "husk"

VARIABLES
  slot,      \* slot[s]: tag and value; "absent" where there is no object
  hand,      \* a T that the caller has in a variable
  owners     \* owners[r]: copies made of the owner of r, less those destroyed

optionVars == <<slot, hand, owners>>

Slotted(tag, val) == [tag |-> tag, val |-> val]
Absent == Slotted("absent", Husk)
None == Slotted("None", Husk)
Err == Slotted("Err", Husk)

Init ==
  /\ slot = [s \in Slot |-> Absent]
  /\ hand = Husk
  /\ owners = [r \in Resource |-> 0]

Holds(x) == x.tag \in {"Some", "Ok"}
IsOption(s) == slot[s].tag \in {"None", "Some"}
IsResult(s) == slot[s].tag \in {"Err", "Ok"}

\* T's copy constructor (n = 1) and destructor (n = -1); a husk has neither.
Owned(val, n) ==
  owners' = [r \in Resource |-> owners[r] + IF r = val THEN n ELSE 0]

\* The caller makes a T, or destroys the one it has.
New == \E r \in Resource :
  hand = Husk /\ owners[r] = 0 /\ hand' = r /\ Owned(r, 1) /\ UNCHANGED slot
DropHand == hand # Husk /\ hand' = Husk /\ Owned(hand, -1) /\ UNCHANGED slot

(***************************************************************************)
(* Construction and destruction                                            *)
(***************************************************************************)

\* Option(), Option(SOME, t), Result(OK, t), Result(ERR, e): t is moved in.
Make(s) ==
  /\ slot[s] = Absent
  /\ \/ \E x \in {None, Err} : slot' = [slot EXCEPT ![s] = x] /\ UNCHANGED hand
     \/ /\ \E tag \in {"Some", "Ok"} : slot' = [slot EXCEPT ![s] = Slotted(tag, hand)]
        /\ hand' = Husk
  /\ UNCHANGED owners

Copy(s, k) ==
  /\ slot[s] # Absent /\ slot[k] = Absent
  /\ slot' = [slot EXCEPT ![k] = slot[s]]
  /\ Owned(slot[s].val, 1)
  /\ UNCHANGED hand

\* Faulty form of Move: the value is copied bit by bit.
MoveBits(s, k) ==
  /\ slot[s] # Absent /\ slot[k] = Absent
  /\ slot' = [slot EXCEPT ![k] = slot[s]]
  /\ UNCHANGED <<hand, owners>>

\* The move constructor, and mem::take: what was moved from keeps its tag, and
\* has a husk.
Move(s, k) ==
  /\ slot[s] # Absent /\ slot[k] = Absent
  /\ slot' = [slot EXCEPT ![k] = slot[s], ![s].val = Husk]
  /\ UNCHANGED <<hand, owners>>

Drop(s) ==
  /\ slot[s] # Absent
  /\ slot' = [slot EXCEPT ![s] = Absent]
  /\ Owned(IF Holds(slot[s]) THEN slot[s].val ELSE Husk, -1)
  /\ UNCHANGED hand

(***************************************************************************)
(* Taking the value                                                        *)
(***************************************************************************)

\* unwrap and expect; without a value they panic, and nothing has happened.
Unwrap(s) ==
  /\ Holds(slot[s]) /\ hand = Husk
  /\ hand' = slot[s].val
  /\ slot' = [slot EXCEPT ![s].val = Husk]
  /\ UNCHANGED owners

\* unwrap_or: the default is moved in, and out again or destroyed.
UnwrapOr(s) ==
  /\ slot[s] # Absent
  /\ IF Holds(slot[s])
     THEN /\ hand' = slot[s].val
          /\ slot' = [slot EXCEPT ![s].val = Husk]
          /\ Owned(hand, -1)
     ELSE UNCHANGED optionVars

\* map, and operator|: f gives back what it was given.
MapInto(s, k) ==
  /\ slot[s] # Absent /\ slot[k] = Absent
  /\ slot' = IF Holds(slot[s]) THEN [slot EXCEPT ![k] = slot[s], ![s].val = Husk]
             ELSE [slot EXCEPT ![k] = slot[s]]
  /\ UNCHANGED <<hand, owners>>

\* and_then: f gives back what it was given, or destroys it.
AndThen(s, k) ==
  /\ IsOption(s) /\ slot[k] = Absent
  /\ \/ MapInto(s, k)
     \/ /\ Holds(slot[s])
        /\ slot' = [slot EXCEPT ![k] = None, ![s].val = Husk]
        /\ Owned(slot[s].val, -1)
        /\ UNCHANGED hand

\* or_else: f gives the T of the caller.
OrElse(s, k) ==
  /\ IsOption(s) /\ slot[k] = Absent
  /\ IF Holds(slot[s]) THEN MapInto(s, k)
     ELSE /\ slot' = [slot EXCEPT ![k] = Slotted("Some", hand)]
          /\ hand' = Husk
          /\ UNCHANGED owners

\* Result::ok
Ok(s, k) ==
  /\ IsResult(s) /\ slot[k] = Absent
  /\ slot' = IF Holds(slot[s])
             THEN [slot EXCEPT ![k] = Slotted("Some", slot[s].val), ![s].val = Husk]
             ELSE [slot EXCEPT ![k] = None]
  /\ UNCHANGED <<hand, owners>>

(***************************************************************************)
(* Two Options; what is taken by value is moved in, and destroyed at the   *)
(* end of the call unless it was moved out                                 *)
(***************************************************************************)

\* operator&& takes the second by value.
And(s, o, k) ==
  /\ IsOption(s) /\ IsOption(o) /\ s # o /\ slot[k] = Absent
  /\ slot' = [slot EXCEPT ![o].val = Husk, ![k] = IF Holds(slot[s]) THEN slot[o] ELSE None]
  /\ Owned(IF Holds(slot[s]) THEN Husk ELSE slot[o].val, -1)
  /\ UNCHANGED hand

\* operator|| takes both, and gives the second whatever the first is.
Or(s, o, k) ==
  /\ IsOption(s) /\ IsOption(o) /\ s # o /\ slot[k] = Absent
  /\ slot' = [slot EXCEPT ![s].val = Husk, ![o].val = Husk, ![k] = slot[o]]
  /\ Owned(slot[s].val, -1)
  /\ UNCHANGED hand

Next ==
  \/ New \/ DropHand
  \/ \E s \in Slot : Make(s) \/ Drop(s) \/ Unwrap(s) \/ UnwrapOr(s)
  \/ \E s, k \in Slot : Copy(s, k) \/ Move(s, k) \/ MapInto(s, k) \/ AndThen(s, k) \/ OrElse(s, k) \/ Ok(s, k)
  \/ \E s, o, k \in Slot : And(s, o, k) \/ Or(s, o, k)
-----------------------------------------------------------------------------
\* A resource has as many owners as there are Options, Results and variables
\* that have it: nothing that was moved from, mapped, chained or thrown away
\* is destroyed twice, or never.
OwnersCounted ==
  \A r \in Resource :
    owners[r] = Cardinality({s \in Slot : slot[s].val = r}) + (IF hand = r THEN 1 ELSE 0)

\* Only an object whose tag says so has a value to destroy.
TagsTell == \A s \in Slot : slot[s].val # Husk => Holds(slot[s])
===============================================================================
