------------------------------- MODULE Admission -------------------------------
(***************************************************************************)
(* What a bounded gate promises the code behind it: never more than Slots  *)
(* callers are inside at once, a caller enters and leaves by turns, and    *)
(* whoever entered leaves.  HashGate implements it (auth.hashSlots).       *)
(***************************************************************************)
EXTENDS Naturals, FiniteSets

CONSTANTS Callers, Slots

VARIABLE inside

Init == inside = {}

Enter(c) ==
    /\ c \notin inside /\ Cardinality(inside) < Slots
    /\ inside' = inside \cup {c}

Leave(c) ==
    /\ c \in inside
    /\ inside' = inside \ {c}

Next == \E c \in Callers : Enter(c) \/ Leave(c)

Spec == Init /\ [][Next]_inside /\ \A c \in Callers : WF_inside(Leave(c))
=============================================================================
