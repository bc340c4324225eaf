-------------------------- MODULE MCDebateScoring ---------------------------
(***************************************************************************)
(* The instance of DebateScoring for TLC is all in DebateScoring.cfg: its  *)
(* liveness property rules out symmetry, so nothing is defined here.       *)
(***************************************************************************)
EXTENDS DebateScoring, TLC

=============================================================================
