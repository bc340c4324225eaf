------------------------------- MODULE MCHashGate -------------------------------
(* Instances of HashGate for TLC. *)
EXTENDS HashGate
=============================================================================
