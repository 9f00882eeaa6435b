------------------------------ MODULE PileStore ------------------------------
(***************************************************************************)
(* What the list code promises its callers: a pile is a value.  A copy is  *)
(* equal to its source when it is made and independent of it ever after.   *)
(***************************************************************************)
EXTENDS Naturals, Sequences

CONSTANTS List, Text, NULL

\* A define that did not fit its buffer is stored as NULL.
Entry == Text \cup {NULL}

VARIABLE pile   \* [List -> Seq(Entry)]

Init == pile = [l \in List |-> <<>>]

Append1(l, t) == pile' = [pile EXCEPT ![l] = Append(@, t)]
Copy(l, m)    == pile' = [pile EXCEPT ![m] = pile[l]]
Clear(l)      == pile' = [pile EXCEPT ![l] = <<>>]

\* A pile grows at its end, empties, or an empty pile takes another's contents.
Next ==
    \/ \E l \in List, t \in Entry : Append1(l, t)
    \/ \E l, m \in List : pile[m] = <<>> /\ Copy(l, m)
    \/ \E l \in List : Clear(l)

Spec == Init /\ [][Next]_pile
=============================================================================
