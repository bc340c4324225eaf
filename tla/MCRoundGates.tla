------------------------------ MODULE MCRoundGates ------------------------------
(* Instances of RoundGates for TLC. *)
EXTENDS RoundGates, TLC

(* Debates and organizations are interchangeable, and so are the requests  *)
(* of the client.                                                          *)
Symmetry == Permutations(Debates) \cup Permutations(Orgs) \cup Permutations(Clients)
=============================================================================
