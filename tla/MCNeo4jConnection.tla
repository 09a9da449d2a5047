-------------------------- MODULE MCNeo4jConnection --------------------------
(* Two overlapping calls of one store, made again and again.                *)
EXTENDS Neo4jConnection

CONSTANTS c1, c2

MCCalls == {c1, c2}
=============================================================================
