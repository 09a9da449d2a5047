---------------------------- MODULE MCDetachedRuns ----------------------------
(* DetachedRuns on small sets of runs and clients. *)
EXTENDS DetachedRuns, TLC

Symmetry == Permutations(Runs) \union Permutations(Clients)
===============================================================================
