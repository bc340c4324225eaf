---------------------------- MODULE MCOrgOwners -----------------------------
(***************************************************************************)
(* Instances of OrgOwners for TLC.                                         *)
(***************************************************************************)
EXTENDS OrgOwners, TLC

Symmetry == Permutations(Requests)

=============================================================================
