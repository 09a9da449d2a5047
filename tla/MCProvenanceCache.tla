-------------------------- MODULE MCProvenanceCache --------------------------
(* Three files: two of one repo that one commit of Ann's has changed, and one *)
(* of another repo that she has worked on too.                               *)
EXTENDS ProvenanceCache, TLC

CONSTANTS t1, t2, r1

MCFiles == {"app.py", "db.py", "lib.py"}
MCRepo == [f \in MCFiles |-> IF f = "lib.py" THEN "org/lib" ELSE "org/app"]
MCTraces == {t1, t2}
MCReplays == {r1}
MCSymmetry == Permutations(MCTraces)

MCCommit == [f \in MCFiles |-> IF f = "lib.py" THEN "commit:9" ELSE "commit:1"]
MCNodes == MCFiles \union {"commit:1", "commit:9", "dev:ann"}
MCNodesOf == [f \in MCFiles |-> {f, MCCommit[f], "dev:ann"}]
MCEdgesOf == [f \in MCFiles |-> {<<f, MCCommit[f]>>, <<MCCommit[f], "dev:ann">>}]
=============================================================================
