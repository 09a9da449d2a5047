---------------------------- MODULE MCResearchJobs ----------------------------
(* ResearchJobs on small sets of cards and sessions. *)
EXTENDS ResearchJobs, TLC

Symmetry == Permutations(Jobs) \union Permutations(Sessions) \union Permutations(Loops)
===============================================================================
