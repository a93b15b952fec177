-------------------------------- MODULE Deque --------------------------------
(***************************************************************************)
(* What a double-ended queue promises: a sequence of values, and after     *)
(* each operation the values that left it.                                 *)
(***************************************************************************)
EXTENDS Naturals, Sequences

CONSTANT Value

VARIABLES
  contents,   \* the values, front to back
  out         \* the values that the last operation took out, in order

Init == contents = <<>> /\ out = <<>>

PushBack == \E v \in Value : contents' = Append(contents, v) /\ out' = <<>>

PushFront == \E v \in Value : contents' = <<v>> \o contents /\ out' = <<>>

PopFront ==
  /\ contents # <<>>
  /\ contents' = Tail(contents)
  /\ out' = <<Head(contents)>>

PopBack ==
  /\ contents # <<>>
  /\ contents' = SubSeq(contents, 1, Len(contents) - 1)
  /\ out' = <<contents[Len(contents)]>>

\* Popping an empty queue yields nothing, and changes nothing.
PopEmpty == contents = <<>> /\ out' = <<>> /\ UNCHANGED contents

Clear == contents' = <<>> /\ out' = contents

Next == PushBack \/ PushFront \/ PopFront \/ PopBack \/ PopEmpty \/ Clear

Spec == Init /\ [][Next]_<<contents, out>>
=============================================================================
