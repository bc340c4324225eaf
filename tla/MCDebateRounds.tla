--------------------------- MODULE MCDebateRounds ---------------------------
(***************************************************************************)
(* Instances of DebateRounds for TLC.                                      *)
(***************************************************************************)
EXTENDS DebateRounds, TLC

Symmetry == Permutations(Requests) \cup Permutations(Debates) \cup Permutations(Texts)

=============================================================================
