---------------------------- MODULE PriorityQueue ----------------------------
(***************************************************************************)
(* What a priority queue promises: a bag of values, of which pop takes one *)
(* of the least.                                                           *)
(***************************************************************************)
EXTENDS Naturals

CONSTANTS Value, NoValue

VARIABLES
  items,      \* items[v]: how often the queue holds v
  out         \* the value that the last operation took out, or NoValue

Init == items = [v \in Value |-> 0] /\ out = NoValue

Push ==
  \E v \in Value : items' = [items EXCEPT ![v] = @ + 1] /\ out' = NoValue

Pop ==
  \E v \in Value :
    /\ items[v] > 0
    /\ \A w \in Value : items[w] > 0 => v <= w
    /\ items' = [items EXCEPT ![v] = @ - 1]
    /\ out' = v

Next == Push \/ Pop

Spec == Init /\ [][Next]_<<items, out>>
=============================================================================
