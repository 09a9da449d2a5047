-------------------------- MODULE MCAnalyzeEndpoint --------------------------
(* Three requests that differ in nothing but their bodies.                  *)
EXTENDS AnalyzeEndpoint, TLC

CONSTANTS r1, r2, r3

MCRequests == {r1, r2, r3}
MCTwoRequests == {r1, r2}
MCSymmetry == Permutations(MCRequests)
=============================================================================
