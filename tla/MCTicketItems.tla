---------------------------- MODULE MCTicketItems ----------------------------
(* The instance of TicketItems for TLC: a feature with a task at the start.  *)
EXTENDS TicketItems, TLC

CONSTANTS feature, task, subtask
GivenTree == [t \in {feature, task} |-> IF t = task THEN feature ELSE None]

Symmetry == Permutations(Requests) \cup Permutations(Files)
=============================================================================
