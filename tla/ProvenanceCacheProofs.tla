------------------------ MODULE ProvenanceCacheProofs ------------------------
(***************************************************************************)
(* Proofs about ProvenanceCache, for any files, graphs, traces and         *)
(* replays, whatever nodes the files share.                                *)
(***************************************************************************)
EXTENDS ProvenanceCache, TLAPS

\* An edge between two of its ends' nodes is in Neo4j.
Joined(e) == \E a \in CopiesOf(e[1]), b \in CopiesOf(e[2]) : <<a, b>> \in edges

\* Neo4j has a file's graph, but for these nodes and edges, whoever owns it.
Has(f, ns, es) ==
  /\ \A n \in NodesOf[f] \ ns : CopiesOf(n) # {}
  /\ \A e \in EdgesOf[f] \ es : Joined(e)

\* A trace that has begun is of a file; only one that stores merges.
Known ==
  \A t \in Traces :
    /\ pc[t] # "idle" => file[t] \in Files
    /\ pc[t] # "storing" => merging[t] = NoNode
\* A node carries a file that some task stored and that has it in its graph.
Owned == \A c \in Copies : owner[c] # NoFile => owner[c] \in Begun /\ c[1] \in NodesOf[owner[c]]
\* An edge is of a graph that some task stored.
Linked == \A p \in edges : \E g \in Begun : <<p[1][1], p[2][1]>> \in EdgesOf[g]

Stores ==
  \A t \in Traces : pc[t] = "storing" =>
    /\ todoNodes[t] \subseteq NodesOf[file[t]]
    /\ todoEdges[t] \subseteq EdgesOf[file[t]]
    /\ Has(file[t], todoNodes[t], todoEdges[t])
    /\ merging[t] # NoNode =>
         merging[t] \in todoNodes[t] /\ found[t] \subseteq CopiesOf(merging[t])

Whole == whole \subseteq Begun /\ \A f \in whole : Has(f, {}, {})

\* The edges of a graph that a replay of it cannot miss.
Kept(f) == {e \in EdgesOf[f] : e[1] \notin Contended(f) /\ e[2] \notin Foreign(f)}

Replayed ==
  \A r \in Replays : stage[r] # "idle" =>
    /\ asked[r] \in Files
    /\ nodesRead[r] \subseteq NodesOf[asked[r]]
    /\ due[r] => asked[r] \in whole /\ NodesOf[asked[r]] \ Contended(asked[r]) \subseteq nodesRead[r]
    /\ stage[r] = "replayed" =>
         /\ \A e \in edgesRead[r] : e \in EdgesOf[asked[r]] \/ e[1] \in Contended(asked[r])
         /\ due[r] => Kept(asked[r]) \subseteq edgesRead[r]

IInv == TypeOK /\ Known /\ Owned /\ Linked /\ Stores /\ Whole /\ Replayed

-----------------------------------------------------------------------------
LEMMA TypeInit == Init => TypeOK
  BY DEF Init, TypeOK

LEMMA TypeStep ==
  ASSUME TypeOK, Known, [Next]_vars
  PROVE  TypeOK'
  <1> USE GraphsAssumption DEF TypeOK, traceVars, graph, replayVars, todo, merge
  <1>1. CASE UNCHANGED vars
    BY <1>1 DEF vars
  <1>2. ASSUME NEW t \in Traces, Tracing(t) PROVE TypeOK'
    <2>1. ASSUME NEW f \in Files, ShowResult(t, f) PROVE TypeOK'
      BY <2>1 DEF ShowResult
    <2>2. CASE Leave(t)
      BY <2>2 DEF Leave
    <2>3. CASE BeginStore(t)
      <3>1. file[t] \in Files
        BY <2>3 DEF BeginStore, Known
      <3>2. NodesOf[file[t]] \in SUBSET Nodes /\ EdgesOf[file[t]] \in SUBSET (Nodes \X Nodes)
        BY <3>1
      <3> QED
        BY <2>3, <3>2 DEF BeginStore
    <2>4. ASSUME NEW n \in Nodes, BeginMerge(t, n) PROVE TypeOK'
      <3>1. CopiesOf(n) \in SUBSET Copies
        BY DEF CopiesOf
      <3> QED
        BY <2>4, <3>1 DEF BeginMerge
    <2>5. CASE CommitMerge(t)
      <3>1. file[t] \in Files
        BY <2>5 DEF CommitMerge, Known
      <3>2. owner' \in [Copies -> Files \union {NoFile}]
        BY <2>5, <3>1 DEF CommitMerge
      <3> QED
        BY <2>5, <3>2 DEF CommitMerge
    <2>6. ASSUME NEW e \in Nodes \X Nodes, StoreEdge(t, e) PROVE TypeOK'
      <3>1. CopiesOf(e[1]) \X CopiesOf(e[2]) \subseteq Copies \X Copies
        BY DEF CopiesOf
      <3> QED
        BY <2>6, <3>1 DEF StoreEdge
    <2>7. CASE EndStore(t)
      <3>1. file[t] \in Files
        BY <2>7 DEF EndStore, Known
      <3> QED
        BY <2>7, <3>1 DEF EndStore
    <2>8. CASE FailStore(t)
      BY <2>8 DEF FailStore
    <2> QED
      BY <1>2, <2>1, <2>2, <2>3, <2>4, <2>5, <2>6, <2>7, <2>8 DEF Tracing
  <1>3. ASSUME NEW r \in Replays, NEW f \in Files, ReadNodes(r, f) PROVE TypeOK'
    <2>1. NodesIn(f) \in SUBSET Nodes /\ (f \in whole) \in BOOLEAN
      BY DEF NodesIn
    <2> QED
      BY <1>3, <2>1 DEF ReadNodes
  <1>4. ASSUME NEW r \in Replays, ReadEdges(r) PROVE TypeOK'
    <2>1. EdgesIn(asked[r]) \in SUBSET (Nodes \X Nodes)
      BY DEF EdgesIn, EdgesBetween
    <2> QED
      BY <1>4, <2>1 DEF ReadEdges
  <1> QED
    BY <1>1, <1>2, <1>3, <1>4 DEF Next, Replaying

LEMMA KnownStep ==
  ASSUME TypeOK, Known, [Next]_vars
  PROVE  Known'
  <1> USE DEF TypeOK, Known, traceVars, merge
  <1>1. CASE UNCHANGED <<pc, file, merging>>
    BY <1>1
  <1>2. ASSUME NEW t \in Traces, NEW f \in Files, ShowResult(t, f) PROVE Known'
    BY <1>2 DEF ShowResult
  <1>3. ASSUME NEW t \in Traces, Leave(t) \/ BeginStore(t) \/ EndStore(t) \/ FailStore(t)
        PROVE  Known'
    BY <1>3 DEF Leave, BeginStore, EndStore, FailStore
  <1>4. ASSUME NEW t \in Traces, \/ \E n \in Nodes : BeginMerge(t, n)
                                 \/ CommitMerge(t)
                                 \/ \E e \in Nodes \X Nodes : StoreEdge(t, e)
        PROVE  Known'
    BY <1>1, <1>4 DEF BeginMerge, CommitMerge, StoreEdge
  <1>5. ASSUME NEW r \in Replays, Replaying(r) PROVE Known'
    BY <1>1, <1>5 DEF Replaying, ReadNodes, ReadEdges
  <1> QED
    BY <1>1, <1>2, <1>3, <1>4, <1>5 DEF Next, Tracing, vars

-----------------------------------------------------------------------------
\* Nothing is taken out of Neo4j, and what some task has begun stays begun.
Grows ==
  /\ Begun \subseteq Begun'
  /\ \A c \in Copies : owner[c] # NoFile => owner'[c] # NoFile
  /\ edges \subseteq edges'
  /\ whole \subseteq whole'

LEMMA GrowsStep ==
  ASSUME TypeOK, Known, [Next]_vars
  PROVE  Grows
  <1> USE DEF TypeOK, Grows, Begun, traceVars, graph
  <1>1. CASE UNCHANGED <<pc, file, owner, edges, whole>>
    BY <1>1
  <1>2. ASSUME NEW t \in Traces, Tracing(t) PROVE Grows
    <2>1. ASSUME NEW f \in Files, ShowResult(t, f) PROVE Grows
      BY <2>1 DEF ShowResult
    <2>2. CASE Leave(t)
      BY <2>2 DEF Leave
    <2>3. CASE BeginStore(t) \/ EndStore(t) \/ FailStore(t)
      BY <2>3 DEF BeginStore, EndStore, FailStore
    <2>4. ASSUME NEW n \in Nodes, BeginMerge(t, n) PROVE Grows
      BY <2>4 DEF BeginMerge
    <2>5. CASE CommitMerge(t)
      <3>1. file[t] # NoFile
        BY <2>5, NoneAssumption DEF CommitMerge, Known
      <3> QED
        BY <2>5, <3>1 DEF CommitMerge
    <2>6. ASSUME NEW e \in Nodes \X Nodes, StoreEdge(t, e) PROVE Grows
      BY <2>6 DEF StoreEdge
    <2> QED
      BY <1>2, <2>1, <2>2, <2>3, <2>4, <2>5, <2>6 DEF Tracing
  <1>3. ASSUME NEW r \in Replays, Replaying(r) PROVE Grows
    BY <1>1, <1>3 DEF Replaying, ReadNodes, ReadEdges
  <1> QED
    BY <1>1, <1>2, <1>3 DEF Next, vars

\* What was contended, foreign or there, stays so.
LEMMA Monotone ==
  ASSUME Grows
  PROVE  /\ \A n : CopiesOf(n) \subseteq CopiesOf(n)'
         /\ \A f, ns, es : Has(f, ns, es) => Has(f, ns, es)'
         /\ \A f : Contended(f) \subseteq Contended(f)' /\ Foreign(f) \subseteq Foreign(f)'
         /\ \A f : Kept(f)' \subseteq Kept(f)
  <1>1. \A n : CopiesOf(n) \subseteq CopiesOf(n)'
    BY DEF Grows, CopiesOf
  <1>2. \A e : Joined(e) => Joined(e)'
    BY <1>1 DEF Grows, Joined
  <1>3. \A f, ns, es : Has(f, ns, es) => Has(f, ns, es)'
    BY <1>1, <1>2 DEF Has
  <1>4. \A f : Contended(f) \subseteq Contended(f)' /\ Foreign(f) \subseteq Foreign(f)'
    BY DEF Grows, Contended, Foreign
  <1> QED
    BY <1>1, <1>3, <1>4 DEF Kept

-----------------------------------------------------------------------------
\* The task of a trace that stores is one that has begun.
LEMMA StoringBegan ==
  ASSUME NEW t \in Traces, pc[t] \in {"storing", "stored", "failed"}
  PROVE  file[t] \in Begun
  BY DEF Begun

\* Whoever takes a node has it in its graph.
LEMMA OwnedStep ==
  ASSUME TypeOK, Known, Owned, Stores, Grows, [Next]_vars
  PROVE  Owned'
  <1>1. CASE UNCHANGED owner
    BY <1>1 DEF Owned, Grows
  <1>2. ASSUME NEW t \in Traces, CommitMerge(t) PROVE Owned'
    <2>1. /\ pc[t] = "storing" /\ merging[t] # NoNode
          /\ owner' = [c \in Copies |-> IF c \in Merged(t) THEN file[t] ELSE owner[c]]
      BY <1>2 DEF CommitMerge
    <2>2. file[t] \in Begun'
      BY <2>1, StoringBegan DEF Grows
    <2>3. merging[t] \in NodesOf[file[t]]
      BY <2>1 DEF Stores
    <2>4. \A c \in Merged(t) : c[1] = merging[t]
      BY <2>1 DEF Merged, Stores, CopiesOf
    <2>5. ASSUME NEW c \in Copies, owner'[c] # NoFile
          PROVE  owner'[c] \in Begun' /\ c[1] \in NodesOf[owner'[c]]
      <3>1. CASE c \in Merged(t)
        BY <2>1, <2>2, <2>3, <2>4, <3>1
      <3>2. CASE c \notin Merged(t)
        BY <2>1, <2>5, <3>2 DEF Owned, Grows
      <3> QED
        BY <3>1, <3>2
    <2> QED
      BY <2>5 DEF Owned
  <1>3. ASSUME NEW t \in Traces, Tracing(t), ~ CommitMerge(t) PROVE UNCHANGED owner
    BY <1>3 DEF Tracing, ShowResult, Leave, BeginStore, BeginMerge, StoreEdge, EndStore,
                FailStore, graph
  <1>4. ASSUME NEW r \in Replays, Replaying(r) PROVE UNCHANGED owner
    BY <1>4 DEF Replaying, ReadNodes, ReadEdges, graph
  <1> QED
    BY <1>1, <1>2, <1>3, <1>4 DEF Next, vars, graph

LEMMA LinkedStep ==
  ASSUME TypeOK, Linked, Stores, Grows, [Next]_vars
  PROVE  Linked'
  <1>1. CASE UNCHANGED edges
    BY <1>1 DEF Linked, Grows
  <1>2. ASSUME NEW t \in Traces, NEW e \in Nodes \X Nodes, StoreEdge(t, e) PROVE Linked'
    <2>1. /\ pc[t] = "storing" /\ e \in EdgesOf[file[t]]
          /\ edges' = edges \union (CopiesOf(e[1]) \X CopiesOf(e[2]))
      BY <1>2 DEF StoreEdge, Stores
    <2>2. file[t] \in Begun'
      BY <2>1, StoringBegan DEF Grows
    <2>3. ASSUME NEW p \in CopiesOf(e[1]) \X CopiesOf(e[2])
          PROVE  <<p[1][1], p[2][1]>> \in EdgesOf[file[t]]
      <3>1. p[1][1] = e[1] /\ p[2][1] = e[2]
        BY DEF CopiesOf
      <3>2. e = <<e[1], e[2]>>
        OBVIOUS
      <3> QED
        BY <2>1, <3>1, <3>2
    <2> QED
      BY <2>1, <2>2, <2>3 DEF Linked, Grows
  <1>3. ASSUME NEW t \in Traces, Tracing(t), \A e \in Nodes \X Nodes : ~ StoreEdge(t, e)
        PROVE  UNCHANGED edges
    BY <1>3 DEF Tracing, ShowResult, Leave, BeginStore, BeginMerge, CommitMerge, EndStore,
                FailStore, graph
  <1>4. ASSUME NEW r \in Replays, Replaying(r) PROVE UNCHANGED edges
    BY <1>4 DEF Replaying, ReadNodes, ReadEdges, graph
  <1> QED
    BY <1>1, <1>2, <1>3, <1>4 DEF Next, vars, graph

\* A task that has gone through its nodes has them all there, whoever owns them
\* by now, so that none of its edges misses an end.
LEMMA StoresStep ==
  ASSUME TypeOK, Known, Stores, Grows, [Next]_vars
  PROVE  Stores'
  <1> DEFINE
        Does(u) == /\ todoNodes[u] \subseteq NodesOf[file[u]]
                   /\ todoEdges[u] \subseteq EdgesOf[file[u]]
                   /\ Has(file[u], todoNodes[u], todoEdges[u])
                   /\ merging[u] # NoNode =>
                        merging[u] \in todoNodes[u] /\ found[u] \subseteq CopiesOf(merging[u])
  <1>1. \A u \in Traces : pc[u] = "storing" => Does(u)
    BY DEF Stores
  <1> SUFFICES ASSUME NEW u \in Traces, pc'[u] = "storing"
               PROVE  Does(u)'
    BY DEF Stores
  <1> USE DEF TypeOK
  <1>2. CASE UNCHANGED <<pc[u], file[u], todoNodes[u], todoEdges[u], merging[u], found[u]>>
    BY <1>1, <1>2, Monotone
  <1>3. CASE BeginStore(u)
    <2>1. /\ todoNodes'[u] = NodesOf[file[u]] /\ todoEdges'[u] = EdgesOf[file[u]]
          /\ file'[u] = file[u] /\ merging'[u] = NoNode
      BY <1>3 DEF BeginStore, merge, Known
    <2> QED
      BY <2>1 DEF Has
  <1>4. ASSUME NEW n \in Nodes, BeginMerge(u, n) PROVE Does(u)'
    <2>1. /\ merging'[u] = n /\ found'[u] = CopiesOf(n) /\ n \in todoNodes[u] /\ pc[u] = "storing"
          /\ UNCHANGED <<file, todoNodes, todoEdges, owner, edges>>
      BY <1>4 DEF BeginMerge, todo, graph
    <2>2. CopiesOf(n)' = CopiesOf(n)
      BY <2>1 DEF CopiesOf
    <2> QED
      BY <1>1, <2>1, <2>2, Monotone
  <1>5. CASE CommitMerge(u)
    <2>1. /\ pc[u] = "storing" /\ merging[u] # NoNode
          /\ owner' = [c \in Copies |-> IF c \in Merged(u) THEN file[u] ELSE owner[c]]
          /\ todoNodes'[u] = todoNodes[u] \ {merging[u]} /\ merging'[u] = NoNode
          /\ UNCHANGED <<file, todoEdges, edges>>
      BY <1>5 DEF CommitMerge
    <2>2. PICK n \in Nodes : n = merging[u]
      BY <2>1
    <2>3. PICK c \in Copies : c \in Merged(u) /\ c[1] = n
      <3>1. CASE found[u] = {}
        <4>1. <<n, u>> \in Copies /\ <<n, u>> \in Merged(u)
          BY <2>2, <3>1 DEF Merged, Copies
        <4> QED
          BY <4>1
      <3>2. CASE found[u] # {}
        <4>1. found[u] \subseteq CopiesOf(n) /\ Merged(u) = found[u]
          BY <1>1, <2>1, <2>2, <3>2 DEF Merged
        <4> QED
          BY <3>2, <4>1 DEF CopiesOf
      <3> QED
        BY <3>1, <3>2
    <2>4. CopiesOf(n)' # {}
      <3>1. file[u] # NoFile
        BY <2>1, NoneAssumption DEF Known
      <3>2. c \in CopiesOf(n)'
        BY <2>1, <2>3, <3>1 DEF CopiesOf
      <3> QED
        BY <3>2
    <2>5. /\ \A x \in NodesOf[file[u]] \ todoNodes[u] : CopiesOf(x)' # {}
          /\ \A e \in EdgesOf[file[u]] \ todoEdges[u] : Joined(e)'
      <3>1. Has(file[u], todoNodes[u], todoEdges[u])
        BY <1>1, <2>1
      <3> QED
        BY <3>1, Monotone DEF Has, Grows, Joined
    <2>6. \A x \in NodesOf[file'[u]] \ todoNodes'[u] : CopiesOf(x)' # {}
      BY <2>1, <2>2, <2>4, <2>5
    <2>7. \A e \in EdgesOf[file'[u]] \ todoEdges'[u] : Joined(e)'
      BY <2>1, <2>5
    <2>8. Has(file[u], todoNodes[u], todoEdges[u])'
      BY <2>6, <2>7 DEF Has
    <2> QED
      BY <1>1, <2>1, <2>8
  <1>6. ASSUME NEW e \in Nodes \X Nodes, StoreEdge(u, e) PROVE Does(u)'
    <2>1. /\ pc[u] = "storing" /\ todoNodes[u] = {} /\ e \in todoEdges[u] /\ merging[u] = NoNode
          /\ edges' = edges \union (CopiesOf(e[1]) \X CopiesOf(e[2]))
          /\ todoEdges'[u] = todoEdges[u] \ {e}
          /\ UNCHANGED <<file, todoNodes, merging, found, owner>>
      BY <1>6 DEF StoreEdge, NodesStored, merge
    <2>2. file[u] \in Files /\ e \in EdgesOf[file[u]]
      BY <1>1, <2>1 DEF Known
    <2>3. e[1] \in NodesOf[file[u]] /\ e[2] \in NodesOf[file[u]]
      BY <2>2, GraphsAssumption
    <2>4. CopiesOf(e[1]) # {} /\ CopiesOf(e[2]) # {}
      BY <1>1, <2>1, <2>3 DEF Has
    <2>5. \A n : CopiesOf(n)' = CopiesOf(n)
      BY <2>1 DEF CopiesOf
    <2>6. Joined(e)'
      BY <2>1, <2>4, <2>5 DEF Joined
    <2>7. Has(file[u], todoNodes[u], todoEdges[u])
      BY <1>1, <2>1
    <2>8. \A x \in EdgesOf[file[u]] \ todoEdges[u] : Joined(x)'
      BY <2>1, <2>5, <2>7 DEF Has, Joined
    <2>9. Has(file[u], todoNodes[u], todoEdges[u])'
      BY <2>1, <2>5, <2>6, <2>7, <2>8 DEF Has
    <2> QED
      BY <1>1, <2>1, <2>9
  <1>7. CASE EndStore(u) \/ FailStore(u) \/ Leave(u) \/ \E f \in Files : ShowResult(u, f)
    BY <1>7 DEF EndStore, FailStore, Leave, ShowResult
  <1>8. ASSUME NEW t \in Traces \ {u}, Tracing(t)
        PROVE  UNCHANGED <<pc[u], file[u], todoNodes[u], todoEdges[u], merging[u], found[u]>>
    BY <1>8 DEF Tracing, ShowResult, Leave, BeginStore, BeginMerge, CommitMerge, StoreEdge,
                EndStore, FailStore, todo, merge
  <1>9. ASSUME NEW r \in Replays, Replaying(r) PROVE UNCHANGED traceVars
    BY <1>9 DEF Replaying, ReadNodes, ReadEdges
  <1>10. CASE UNCHANGED traceVars
    BY <1>2, <1>10 DEF traceVars, todo, merge
  <1>11. CASE Tracing(u)
    BY <1>3, <1>4, <1>5, <1>6, <1>7, <1>11 DEF Tracing
  <1> QED
    BY <1>2, <1>8, <1>9, <1>10, <1>11 DEF Next, vars

LEMMA WholeStep ==
  ASSUME TypeOK, Whole, Stores, Grows, [Next]_vars
  PROVE  Whole'
  <1>1. \A f : Has(f, {}, {}) => Has(f, {}, {})'
    BY Monotone
  <1>2. CASE UNCHANGED whole
    BY <1>1, <1>2 DEF Whole, Grows
  <1>3. ASSUME NEW t \in Traces, EndStore(t) PROVE Whole'
    <2>1. pc[t] = "storing" /\ Has(file[t], {}, {})
      BY <1>3 DEF EndStore, Stores
    <2>2. file[t] \in Begun
      BY <2>1, StoringBegan
    <2> QED
      BY <1>1, <1>3, <2>1, <2>2 DEF EndStore, Whole, Grows
  <1>4. ASSUME NEW t \in Traces, Tracing(t), ~ EndStore(t) PROVE UNCHANGED whole
    BY <1>4 DEF Tracing, ShowResult, Leave, BeginStore, BeginMerge, CommitMerge, StoreEdge, FailStore
  <1>5. ASSUME NEW r \in Replays, Replaying(r) PROVE UNCHANGED whole
    BY <1>5 DEF Replaying, ReadNodes, ReadEdges
  <1> QED
    BY <1>2, <1>3, <1>4, <1>5 DEF Next, vars

-----------------------------------------------------------------------------
\* What the queries give for a file.
LEMMA QueriedNodes ==
  ASSUME TypeOK, Owned, NEW f \in Files
  PROVE  /\ NodesIn(f) \subseteq NodesOf[f]
         /\ Has(f, {}, {}) => NodesOf[f] \ Contended(f) \subseteq NodesIn(f)
  <1>1. NodesOf[f] \subseteq Nodes /\ f # NoFile
    BY GraphsAssumption, NoneAssumption
  <1>2. NodesIn(f) \subseteq NodesOf[f]
    BY <1>1 DEF NodesIn, CopiesOf, Owned
  <1>3. ASSUME Has(f, {}, {}), NEW n \in NodesOf[f] \ Contended(f)
        PROVE  n \in NodesIn(f)
    <2>1. PICK c \in CopiesOf(n) : TRUE
      BY <1>3 DEF Has
    <2>2. owner[c] \in Begun /\ n \in NodesOf[owner[c]]
      BY DEF CopiesOf, Owned
    <2>3. owner[c] = f
      BY <2>2 DEF Contended
    <2> QED
      BY <1>1, <2>3 DEF NodesIn
  <1> QED
    BY <1>2, <1>3

LEMMA QueriedEdges ==
  ASSUME TypeOK, Known, Owned, Linked, NEW f \in Files
  PROVE  /\ \A e \in EdgesIn(f) : e \in EdgesOf[f] \/ e[1] \in Contended(f)
         /\ Has(f, {}, {}) => Kept(f) \subseteq EdgesIn(f)
  <1>1. f # NoFile
    BY NoneAssumption
  <1>2. ASSUME NEW e \in EdgesIn(f) PROVE e \in EdgesOf[f] \/ e[1] \in Contended(f)
    <2>1. PICK a \in CopiesOf(e[1]), b \in CopiesOf(e[2]) : <<a, b>> \in edges /\ owner[a] = f
      BY DEF EdgesIn, EdgesBetween
    <2>2. e = <<e[1], e[2]>> /\ a[1] = e[1] /\ b[1] = e[2]
      BY DEF EdgesIn, EdgesBetween, CopiesOf
    <2>3. e[1] \in NodesOf[f]
      BY <1>1, <2>1, <2>2 DEF Owned, CopiesOf
    <2>4. PICK g \in Begun : e \in EdgesOf[g]
      BY <2>1, <2>2 DEF Linked
    <2>5. CASE g = f
      BY <2>4, <2>5
    <2>6. CASE g # f
      <3>1. g \in Files
        BY DEF Begun, Known
      <3>2. e[1] \in NodesOf[g]
        BY <2>4, <3>1, GraphsAssumption
      <3> QED
        BY <2>3, <2>6, <3>2 DEF Contended
    <2> QED
      BY <2>5, <2>6
  <1>3. ASSUME Has(f, {}, {}), NEW e \in Kept(f) PROVE e \in EdgesIn(f)
    <2>1. e \in EdgesOf[f] /\ e \in Nodes \X Nodes /\ e[1] \in NodesOf[f] /\ e[2] \in NodesOf[f]
      BY GraphsAssumption DEF Kept
    <2>2. PICK a \in CopiesOf(e[1]), b \in CopiesOf(e[2]) : <<a, b>> \in edges
      BY <1>3, <2>1 DEF Has, Joined
    <2>3. /\ owner[a] \in Begun /\ e[1] \in NodesOf[owner[a]]
          /\ owner[b] \in Begun /\ e[2] \in NodesOf[owner[b]] /\ owner[b] \in Files
      BY DEF CopiesOf, Owned, TypeOK
    <2>4. owner[a] = f
      BY <2>1, <2>3 DEF Kept, Contended
    <2>5. Repo[owner[b]] = Repo[f]
      BY <2>1, <2>3 DEF Kept, Foreign
    <2> QED
      BY <2>1, <2>2, <2>3, <2>4, <2>5 DEF EdgesIn, EdgesBetween
  <1> QED
    BY <1>2, <1>3

LEMMA ReplayStep ==
  ASSUME TypeOK, Known, Owned, Linked, Whole, Replayed, Grows, [Next]_vars
  PROVE  Replayed'
  <1> DEFINE
        Seen(r) == stage[r] # "idle" =>
          /\ asked[r] \in Files
          /\ nodesRead[r] \subseteq NodesOf[asked[r]]
          /\ due[r] => asked[r] \in whole
                       /\ NodesOf[asked[r]] \ Contended(asked[r]) \subseteq nodesRead[r]
          /\ stage[r] = "replayed" =>
               /\ \A e \in edgesRead[r] : e \in EdgesOf[asked[r]] \/ e[1] \in Contended(asked[r])
               /\ due[r] => Kept(asked[r]) \subseteq edgesRead[r]
  <1> SUFFICES ASSUME NEW r \in Replays PROVE Seen(r)'
    BY DEF Replayed
  <1>1. Seen(r)
    BY DEF Replayed
  <1>2. whole \subseteq whole'
    BY DEF Grows
  <1> USE DEF TypeOK
  <1>3. CASE UNCHANGED <<stage[r], asked[r], due[r], nodesRead[r], edgesRead[r]>>
    BY <1>1, <1>2, <1>3, Monotone
  <1>4. ASSUME NEW f \in Files, ReadNodes(r, f) PROVE Seen(r)'
    <2>1. /\ NodesIn(f) \subseteq NodesOf[f]
          /\ f \in whole => NodesOf[f] \ Contended(f) \subseteq NodesIn(f)
      BY QueriedNodes DEF Whole
    <2>2. /\ asked'[r] = f /\ due'[r] = (f \in whole) /\ nodesRead'[r] = NodesIn(f)
          /\ stage'[r] # "replayed"
          /\ UNCHANGED whole
      BY <1>4 DEF ReadNodes
    <2> QED
      BY <2>1, <2>2, Monotone
  <1>5. CASE ReadEdges(r)
    <2>1. asked[r] \in Files /\ stage[r] = "edges"
      BY <1>1, <1>5 DEF ReadEdges
    <2>2. /\ \A e \in EdgesIn(asked[r]) : e \in EdgesOf[asked[r]] \/ e[1] \in Contended(asked[r])
          /\ asked[r] \in whole => Kept(asked[r]) \subseteq EdgesIn(asked[r])
      BY <2>1, QueriedEdges DEF Whole
    <2>3. /\ edgesRead'[r] = EdgesIn(asked[r])
          /\ UNCHANGED <<whole, asked, due, nodesRead>>
      BY <1>5 DEF ReadEdges
    <2> QED
      BY <1>1, <2>1, <2>2, <2>3, Monotone
  <1>6. ASSUME NEW q \in Replays \ {r}, Replaying(q)
        PROVE  UNCHANGED <<stage[r], asked[r], due[r], nodesRead[r], edgesRead[r]>>
    BY <1>6 DEF Replaying, ReadNodes, ReadEdges
  <1>7. ASSUME NEW t \in Traces, Tracing(t) PROVE UNCHANGED replayVars
    BY <1>7 DEF Tracing, ShowResult, Leave, BeginStore, BeginMerge, CommitMerge, StoreEdge,
                EndStore, FailStore
  <1>8. CASE UNCHANGED replayVars
    BY <1>3, <1>8 DEF replayVars
  <1> QED
    BY <1>3, <1>4, <1>5, <1>6, <1>7, <1>8 DEF Next, Replaying, vars

-----------------------------------------------------------------------------
LEMMA InitIInv == Init => IInv
  BY TypeInit DEF Init, IInv, Known, Owned, Linked, Stores, Whole, Replayed

LEMMA StepIInv ==
  ASSUME IInv, [Next]_vars
  PROVE  IInv'
  <1>1. Grows
    BY GrowsStep DEF IInv
  <1> QED
    BY <1>1, TypeStep, KnownStep, OwnedStep, LinkedStep, StoresStep, WholeStep, ReplayStep DEF IInv

LEMMA Inductive == Spec => []IInv
  <1>1. IInv /\ [Next]_vars => IInv'
    BY StepIInv
  <1> QED
    BY <1>1, InitIInv, PTL DEF Spec

\* The cache, its tasks and its replays keep their types, whatever nodes the
\* files share and however MERGEs double them.
THEOREM TypeCorrect == Spec => []TypeOK
  BY Inductive, PTL DEF IInv

\* A replay that begins when a task has stored its file's graph to the end gets
\* every node no other file shares, and every edge from those that stays in the
\* repo, whatever is stored, stored again or left half-stored meanwhile.
THEOREM StoredGraphsReplay == Spec => []StoredIsReplayed
  <1>1. IInv => StoredIsReplayed
    BY DEF IInv, StoredIsReplayed, Replayed, Kept, Answered
  <1> QED
    BY <1>1, Inductive, PTL

\* A replay has no node outside its file's graph, and an edge outside it only
\* from a node that another stored file shares.
THEOREM RepliesAreOwn == Spec => []RepliesBelong
  <1>1. IInv => RepliesBelong
    BY DEF IInv, RepliesBelong, Replayed
  <1> QED
    BY <1>1, Inductive, PTL
=============================================================================
