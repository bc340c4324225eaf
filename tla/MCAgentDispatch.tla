--------------------------- MODULE MCAgentDispatch ---------------------------
(* The instance of AgentDispatch for TLC: two tickets, t1 of the higher      *)
(* priority.                                                                 *)
EXTENDS AgentDispatch

CONSTANTS t1, t2
TicketOrder == [t \in {t1, t2} |-> IF t = t1 THEN 1 ELSE 2]
=============================================================================
