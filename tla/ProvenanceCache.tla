--------------------------- MODULE ProvenanceCache ---------------------------
(***************************************************************************)
(* The cache of provenance graphs in Neo4j: aeon/backend/api/provenance.py *)
(* and the provenance part of aeon/backend/memory/neo4j_store.py.          *)
(*                                                                         *)
(* A trace shows its graph to the client and then stores it from a task of *)
(* its own, one statement per node and per edge, each committed by itself. *)
(* Nodes are merged on their id alone, and each carries one repo and one   *)
(* file_path.  The ids of commits, pull requests, issues and developers    *)
(* name no file and no repo, so that files share them; and no constraint   *)
(* keeps two overlapping MERGEs from making two nodes of one id.  A replay *)
(* reads the nodes of a file, and then the edges.                          *)
(***************************************************************************)
EXTENDS Naturals

CONSTANTS Files,      \* files traced, with their repos
          Repo,         \* the repo of each
          Nodes,        \* ids of nodes: files, commits, PRs, issues, people
          NodesOf,      \* the graph of each file
          EdgesOf,
          Traces,       \* requests to /provenance/stream
          Replays       \* requests to /provenance/cached

ASSUME GraphsAssumption ==
  /\ NodesOf \in [Files -> SUBSET Nodes]
  /\ EdgesOf \in [Files -> SUBSET (Nodes \X Nodes)]
  /\ \A f \in Files : NodesOf[f] # {} /\ EdgesOf[f] \subseteq NodesOf[f] \X NodesOf[f]

NoFile == "none"
NoNode == "none"
ASSUME NoneAssumption == NoFile \notin Files /\ NoNode \notin Nodes

\* A node in Neo4j: its id, and the trace that made it.
Copies == Nodes \X Traces

VARIABLES
  pc,         \* what each trace does next
  file,       \* the file it traces
  todoNodes,  \* what it has still to store
  todoEdges,
  merging,    \* the id its open transaction merges
  found,      \* the nodes that matched it
  owner,      \* the file each node in Neo4j carries, if it is there
  edges,      \* the edges in Neo4j
  whole,      \* files whose graph some task has stored to the end
  stage,      \* what each replay does next
  asked,      \* the file it is for
  due,        \* whether that file was whole when it began
  nodesRead,
  edgesRead

todo == <<todoNodes, todoEdges>>
merge == <<merging, found>>
traceVars == <<pc, file, todo, merge>>
graph == <<owner, edges>>
replayVars == <<stage, asked, due, nodesRead, edgesRead>>
vars == <<traceVars, graph, whole, replayVars>>

TypeOK ==
  /\ pc \in [Traces -> {"idle", "shown", "storing", "stored", "failed", "gone"}]
  /\ file \in [Traces -> Files \union {NoFile}]
  /\ todoNodes \in [Traces -> SUBSET Nodes]
  /\ todoEdges \in [Traces -> SUBSET (Nodes \X Nodes)]
  /\ merging \in [Traces -> Nodes \union {NoNode}]
  /\ found \in [Traces -> SUBSET Copies]
  /\ owner \in [Copies -> Files \union {NoFile}]
  /\ edges \subseteq Copies \X Copies
  /\ whole \subseteq Files
  /\ stage \in [Replays -> {"idle", "edges", "replayed", "none"}]
  /\ asked \in [Replays -> Files \union {NoFile}]
  /\ due \in [Replays -> BOOLEAN]
  /\ nodesRead \in [Replays -> SUBSET Nodes]
  /\ edgesRead \in [Replays -> SUBSET (Nodes \X Nodes)]

Init ==
  /\ pc = [t \in Traces |-> "idle"]
  /\ file = [t \in Traces |-> NoFile]
  /\ todoNodes = [t \in Traces |-> {}]
  /\ todoEdges = [t \in Traces |-> {}]
  /\ merging = [t \in Traces |-> NoNode]
  /\ found = [t \in Traces |-> {}]
  /\ owner = [c \in Copies |-> NoFile]
  /\ edges = {}
  /\ whole = {}
  /\ stage = [r \in Replays |-> "idle"]
  /\ asked = [r \in Replays |-> NoFile]
  /\ due = [r \in Replays |-> FALSE]
  /\ nodesRead = [r \in Replays |-> {}]
  /\ edgesRead = [r \in Replays |-> {}]

-----------------------------------------------------------------------------
\* The nodes of an id that are there.
CopiesOf(n) == {c \in Copies : c[1] = n /\ owner[c] # NoFile}

\* The stream has traced f and sends its result event.
ShowResult(t, f) ==
  /\ pc[t] = "idle"
  /\ pc' = [pc EXCEPT ![t] = "shown"]
  /\ file' = [file EXCEPT ![t] = f]
  /\ UNCHANGED <<todo, merge, graph, whole, replayVars>>

\* The client leaves with its result: the generator never gets to _cache.
Leave(t) ==
  /\ pc[t] = "shown"
  /\ pc' = [pc EXCEPT ![t] = "gone"]
  /\ UNCHANGED <<file, todo, merge, graph, whole, replayVars>>

\* asyncio.create_task(_cache(...)); the task outlives the request.
BeginStore(t) ==
  /\ pc[t] = "shown"
  /\ pc' = [pc EXCEPT ![t] = "storing"]
  /\ todoNodes' = [todoNodes EXCEPT ![t] = NodesOf[file[t]]]
  /\ todoEdges' = [todoEdges EXCEPT ![t] = EdgesOf[file[t]]]
  /\ UNCHANGED <<file, merge, graph, whole, replayVars>>

\* MERGE (n {id}) begins: it looks for the nodes that are committed.
BeginMerge(t, n) ==
  /\ pc[t] = "storing" /\ merging[t] = NoNode /\ n \in todoNodes[t]
  /\ merging' = [merging EXCEPT ![t] = n]
  /\ found' = [found EXCEPT ![t] = CopiesOf(n)]
  /\ UNCHANGED <<pc, file, todo, graph, whole, replayVars>>

\* What the SET of the MERGE writes to: the nodes it found, or the one it made.
Merged(t) == IF found[t] = {} THEN {<<merging[t], t>>} ELSE found[t]

\* It commits: repo and file_path are set anew, whoever had the nodes before.
CommitMerge(t) ==
  /\ pc[t] = "storing" /\ merging[t] # NoNode
  /\ owner' = [c \in Copies |-> IF c \in Merged(t) THEN file[t] ELSE owner[c]]
  /\ todoNodes' = [todoNodes EXCEPT ![t] = @ \ {merging[t]}]
  /\ merging' = [merging EXCEPT ![t] = NoNode]
  /\ found' = [found EXCEPT ![t] = {}]
  /\ UNCHANGED <<pc, file, todoEdges, edges, whole, replayVars>>

\* Faulty variant: edges do not wait for the nodes.
NodesAreIn(t) == TRUE

\* The loop over the edges comes after the loop over the nodes.
NodesStored(t) == todoNodes[t] = {}

\* MATCH both ends, MERGE the edge between all that match: without an end,
\* nothing.  Neo4j locks both ends, so that no edge is doubled.
StoreEdge(t, e) ==
  /\ pc[t] = "storing" /\ merging[t] = NoNode
  /\ NodesStored(t) /\ e \in todoEdges[t]
  /\ edges' = edges \union (CopiesOf(e[1]) \X CopiesOf(e[2]))
  /\ todoEdges' = [todoEdges EXCEPT ![t] = @ \ {e}]
  /\ UNCHANGED <<pc, file, todoNodes, merge, owner, whole, replayVars>>

EndStore(t) ==
  /\ pc[t] = "storing" /\ merging[t] = NoNode
  /\ todoNodes[t] = {} /\ todoEdges[t] = {}
  /\ pc' = [pc EXCEPT ![t] = "stored"]
  /\ whole' = whole \union {file[t]}
  /\ UNCHANGED <<file, todo, merge, graph, replayVars>>

\* Neo4j fails a statement, or the process ends: what is committed stays.
FailStore(t) ==
  /\ pc[t] = "storing"
  /\ pc' = [pc EXCEPT ![t] = "failed"]
  /\ merging' = [merging EXCEPT ![t] = NoNode]
  /\ found' = [found EXCEPT ![t] = {}]
  /\ UNCHANGED <<file, todo, graph, whole, replayVars>>

-----------------------------------------------------------------------------
NodesIn(f) == {n \in Nodes : \E c \in CopiesOf(n) : owner[c] = f}

\* Edges between what two files carry, as ids.
EdgesBetween(f, g) ==
  {e \in Nodes \X Nodes :
     \E a \in CopiesOf(e[1]), b \in CopiesOf(e[2]) :
       <<a, b>> \in edges /\ owner[a] = f /\ owner[b] = g}

\* Faulty variant: the query returns the ends of the edges only.
TargetsIn(f) == {e[2] : e \in EdgesBetween(f, f)}

\* Faulty variant: the query for the edges forgets the file.
EdgesInRepo(f) ==
  UNION {EdgesBetween(g, h) : g, h \in {x \in Files : Repo[x] = Repo[f]}}

\* Edges from a node of the file, to any node of its repo.
EdgesIn(f) == UNION {EdgesBetween(f, g) : g \in {x \in Files : Repo[x] = Repo[f]}}

\* The first query; without nodes the answer is cached: False.
ReadNodes(r, f) ==
  /\ stage[r] = "idle"
  /\ asked' = [asked EXCEPT ![r] = f]
  /\ due' = [due EXCEPT ![r] = f \in whole]
  /\ nodesRead' = [nodesRead EXCEPT ![r] = NodesIn(f)]
  /\ stage' = [stage EXCEPT ![r] = IF NodesIn(f) = {} THEN "none" ELSE "edges"]
  /\ UNCHANGED <<traceVars, graph, whole, edgesRead>>

\* The second query, and the answer with cached: True.
ReadEdges(r) ==
  /\ stage[r] = "edges"
  /\ edgesRead' = [edgesRead EXCEPT ![r] = EdgesIn(asked[r])]
  /\ stage' = [stage EXCEPT ![r] = "replayed"]
  /\ UNCHANGED <<traceVars, graph, whole, asked, due, nodesRead>>

-----------------------------------------------------------------------------
Tracing(t) ==
  \/ \E f \in Files : ShowResult(t, f)
  \/ Leave(t)
  \/ BeginStore(t)
  \/ \E n \in Nodes : BeginMerge(t, n)
  \/ CommitMerge(t)
  \/ \E e \in Nodes \X Nodes : StoreEdge(t, e)
  \/ EndStore(t)
  \/ FailStore(t)

Replaying(r) == (\E f \in Files : ReadNodes(r, f)) \/ ReadEdges(r)

Next == (\E t \in Traces : Tracing(t)) \/ (\E r \in Replays : Replaying(r))

Spec == Init /\ [][Next]_vars

-----------------------------------------------------------------------------
(* Properties                                                              *)

\* Files some task has begun to store.
Begun == {file[t] : t \in {x \in Traces : pc[x] \in {"storing", "stored", "failed"}}}

\* Nodes of f's graph that the task of another file, or of a file of another
\* repo, may have taken over.
Contended(f) == {n \in NodesOf[f] : \E g \in Begun \ {f} : n \in NodesOf[g]}
Foreign(f) == {n \in NodesOf[f] : \E g \in Begun : Repo[g] # Repo[f] /\ n \in NodesOf[g]}

Answered(r) == stage[r] \in {"none", "replayed"}

\* A replay that begins when a task has stored its file's graph to the end gets
\* every node that no other traced file shares, and every edge from those that
\* stays in the repo: whatever else is stored, stored again or left half-stored
\* meanwhile, and however MERGEs double nodes.
StoredIsReplayed ==
  \A r \in Replays :
    due[r] /\ Answered(r) =>
      /\ NodesOf[asked[r]] \ Contended(asked[r]) \subseteq nodesRead[r]
      /\ stage[r] = "replayed" =>
           {e \in EdgesOf[asked[r]] :
              e[1] \notin Contended(asked[r]) /\ e[2] \notin Foreign(asked[r])}
             \subseteq edgesRead[r]

\* A replay, of a whole graph or of a part of it, has no node of any other
\* file's graph, and an edge of another's only from a node they share.
RepliesBelong ==
  \A r \in Replays :
    stage[r] = "replayed" =>
      /\ nodesRead[r] \subseteq NodesOf[asked[r]]
      /\ \A e \in edgesRead[r] :
           e \in EdgesOf[asked[r]] \/ e[1] \in Contended(asked[r])

\* "graph stored for instant replay" (CODE_PROVENANCE.md): a graph that has been
\* stored to the end is replayed whole.  With a file that shares a node it is not.
StoredIsReplayedWhole ==
  \A r \in Replays :
    due[r] /\ Answered(r) =>
      /\ stage[r] = "replayed"
      /\ nodesRead[r] = NodesOf[asked[r]]
      /\ edgesRead[r] = EdgesOf[asked[r]]
=============================================================================
