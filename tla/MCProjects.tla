------------------------------- MODULE MCProjects -------------------------------
(* Instances of Projects for TLC. *)
EXTENDS Projects, TLC

Symmetry == Permutations(Orgs) \cup Permutations(Projects) \cup Permutations(Handlers)
            \cup Permutations(Briefs) \cup Permutations(Entries)
=============================================================================
