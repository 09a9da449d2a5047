-------------------------- MODULE MCIncidentMemory --------------------------
(***************************************************************************)
(* Small instances of IncidentMemory.  A seeded incident, and analyses of  *)
(* the same failure, whose write-backs have its pipeline and its error     *)
(* type, and one fix of their own.                                         *)
(***************************************************************************)
EXTENDS IncidentMemory, TLC

CONSTANTS c1, a1, a2, frontend, build_failure, ai_analysis, clear_cache, pin_version

MCNames == {c1, a1, a2, frontend, build_failure, ai_analysis, clear_cache, pin_version}
MCPipeOf == [i \in Incidents |-> frontend]
MCTypeOf == [i \in Incidents |-> build_failure]
MCFixOf == [i \in Incidents |-> IF i \in Curated THEN clear_cache ELSE pin_version]
MCSymmetry == Permutations(Analyses)
=============================================================================
