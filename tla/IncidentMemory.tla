--------------------------- MODULE IncidentMemory ---------------------------
(***************************************************************************)
(* The incident memory: what aeon/backend/memory/chroma_store.py and       *)
(* neo4j_store.py keep, who writes it (api/memory.py, api/incidents.py and *)
(* the memory_writer node of agents/graph.py) and how an analysis recalls  *)
(* it (services/rerank.py, services/graphrag.py).                          *)
(*                                                                         *)
(* Chroma holds a document per incident.  Neo4j holds a graph in which     *)
(* store_incident MERGEs the incident, its pipeline, its error type and    *)
(* its fix, and the edges between them, in one transaction.  No uniqueness *)
(* constraint is declared: two transactions that both find a node missing  *)
(* both create it, and a later MERGE by its name matches the two.  A node  *)
(* is its kind, its name and the incident whose transaction created it.    *)
(*                                                                         *)
(* Left out: the counter use_count of a fix, which only a view shows; the  *)
(* ranking of documents, of which any choice is allowed.                   *)
(***************************************************************************)
EXTENDS Naturals, FiniteSets

CONSTANTS
  Curated,      \* incidents that are seeded or reported by people
  Analyses,     \* analyses, each with the incident it writes back
  Names,        \* ids, pipelines, error types and fixes
  PipeOf,       \* the pipeline, error type and fix of each incident
  TypeOf,
  FixOf,
  Unclassified, \* the error type ai_analysis
  RecallK,      \* documents searched for (10), kept (3)
  TopK,
  MaxFixes,     \* fixes and siblings taken per error type (2, 4)
  MaxSiblings,
  HistoryLimit  \* rows of an error type's history (10)

Incidents == Curated \union Analyses

ASSUME IncidentsAssumption ==
  /\ Curated \intersect Analyses = {}
  /\ Incidents \subseteq Names
  /\ PipeOf \in [Incidents -> Names]
  /\ TypeOf \in [Incidents -> Names]
  /\ FixOf \in [Incidents -> Names]
  /\ Unclassified \in Names
ASSUME BoundsAssumption ==
  {RecallK, TopK, MaxFixes, MaxSiblings, HistoryLimit} \subseteq Nat \ {0}

Kinds == {"Incident", "Pipeline", "ErrorType", "Fix"}
Nodes == Kinds \X Names \X Incidents

VARIABLES
  pc,        \* what each writer, or analysis, does next
  merged,    \* nodes its open transaction has matched or created
  docs,      \* documents in Chroma
  nodes,     \* the committed graph
  edges,
  counted,   \* documents each analysis has counted before it searches
  matches,   \* incidents it has recalled
  pending,   \* error types it has still to expand
  asking,    \* the one it is at
  proven,    \* error types and fixes it has been told are proven
  siblings   \* error types and incidents it has been told had them

stores == <<docs, nodes, edges>>
recalled == <<counted, matches, pending, asking, proven, siblings>>
vars == <<pc, merged, stores, recalled>>

Writing == {"store"} \union Kinds \union {"commit"}
Recalling == {"search", "count", "query", "pattern", "history"}

TypeOK ==
  /\ pc \in [Incidents -> Writing \union Recalling \union {"think", "done"}]
  /\ merged \in [Incidents -> SUBSET Nodes]
  /\ docs \subseteq Incidents
  /\ nodes \subseteq Nodes
  /\ edges \subseteq Nodes \X Nodes
  /\ counted \in [Analyses -> SUBSET Incidents]
  /\ matches \in [Analyses -> SUBSET Incidents]
  /\ pending \in [Analyses -> SUBSET Names]
  /\ asking \in [Analyses -> Names]
  /\ proven \in [Analyses -> SUBSET (Names \X Names)]
  /\ siblings \in [Analyses -> SUBSET (Names \X Names)]

Init ==
  /\ pc = [i \in Incidents |-> IF i \in Curated THEN "store" ELSE "search"]
  /\ merged = [i \in Incidents |-> {}]
  /\ docs = {} /\ nodes = {} /\ edges = {}
  /\ counted = [a \in Analyses |-> {}]
  /\ matches = [a \in Analyses |-> {}]
  /\ pending = [a \in Analyses |-> {}]
  /\ asking = [a \in Analyses |-> Unclassified]
  /\ proven = [a \in Analyses |-> {}]
  /\ siblings = [a \in Analyses |-> {}]

-----------------------------------------------------------------------------
(* Storing an incident                                                     *)

\* Upsert the document; with Chroma away nothing, and Neo4j is written all
\* the same.
StoreDocument(i) ==
  /\ pc[i] = "store"
  /\ docs' \in {docs, docs \union {i}}
  /\ pc' = [pc EXCEPT ![i] = "Incident"]
  /\ UNCHANGED <<merged, nodes, edges, recalled>>

NameOf(kind, i) ==
  CASE kind = "Incident"  -> i
    [] kind = "Pipeline"  -> PipeOf[i]
    [] kind = "ErrorType" -> TypeOf[i]
    [] kind = "Fix"       -> FixOf[i]

After(kind) ==
  CASE kind = "Incident"  -> "Pipeline"
    [] kind = "Pipeline"  -> "ErrorType"
    [] kind = "ErrorType" -> "Fix"
    [] kind = "Fix"       -> "commit"

Named(kind, name) == {n \in nodes : n[1] = kind /\ n[2] = name}

\* MERGE of a node by its name: all the committed ones, or one of its own.
Matched(kind, i) ==
  LET found == Named(kind, NameOf(kind, i))
  IN  IF found # {} THEN found ELSE {<<kind, NameOf(kind, i), i>>}

MergeNode(i, kind) ==
  /\ pc[i] = kind
  /\ merged' = [merged EXCEPT ![i] = @ \union Matched(kind, i)]
  /\ pc' = [pc EXCEPT ![i] = After(kind)]
  /\ UNCHANGED <<stores, recalled>>

\* CAUSED_BY, HAS_ERROR, RESOLVED_BY and FIXED_BY, as the kinds of their ends.
Relations ==
  {<<"Incident", "Pipeline">>, <<"Incident", "ErrorType">>,
   <<"Incident", "Fix">>, <<"ErrorType", "Fix">>}

Linked(ns) == {e \in ns \X ns : <<e[1][1], e[2][1]>> \in Relations}

\* The edges are merged between nodes that are locked, and all is committed.
Commit(i) ==
  /\ pc[i] = "commit"
  /\ nodes' = nodes \union merged[i]
  /\ edges' = edges \union Linked(merged[i])
  /\ merged' = [merged EXCEPT ![i] = {}]
  /\ pc' = [pc EXCEPT ![i] = "done"]
  /\ UNCHANGED <<docs, recalled>>

\* Neo4j is away or fails, or the request is cancelled: nothing of the
\* transaction stays, and the document does.
RollBack(i) ==
  /\ pc[i] \in Kinds \union {"commit"}
  /\ merged' = [merged EXCEPT ![i] = {}]
  /\ pc' = [pc EXCEPT ![i] = "done"]
  /\ UNCHANGED <<stores, recalled>>

\* POST /memory/seed once more.
SeedAgain(i) ==
  /\ i \in Curated /\ pc[i] = "done"
  /\ pc' = [pc EXCEPT ![i] = "store"]
  /\ UNCHANGED <<merged, stores, recalled>>

-----------------------------------------------------------------------------
(* Recall: the documents                                                   *)

Least(m, n) == IF m < n THEN m ELSE n

\* The first count: an empty memory is not searched.
LookForDocuments(a) ==
  /\ pc[a] = "search"
  /\ pc' = [pc EXCEPT ![a] = IF docs = {} THEN "think" ELSE "count"]
  /\ UNCHANGED <<merged, stores, recalled>>

\* The second count, of how many documents to ask for.
CountDocuments(a) ==
  /\ pc[a] = "count"
  /\ counted' = [counted EXCEPT ![a] = docs]
  /\ pc' = [pc EXCEPT ![a] = "query"]
  /\ UNCHANGED <<merged, stores, matches, pending, asking, proven, siblings>>

\* Faulty variant: the write-backs are kept.
KeptAll(hits) == hits

\* Of what was found, the documents people wrote, or else all of it.
Kept(hits) == IF hits \intersect Curated # {} THEN hits \intersect Curated ELSE hits

Expanded(ms) == {TypeOf[i] : i \in ms} \ {Unclassified}

\* The hits are the nearest documents to the query, and the matches the best of
\* those kept: any, by a similarity that is not modelled.
SearchDocuments(a) ==
  /\ pc[a] = "query"
  /\ \E hits \in SUBSET docs :
       /\ Cardinality(hits) = Least(RecallK, Cardinality(counted[a]))
       /\ \E ms \in SUBSET Kept(hits) :
            /\ Cardinality(ms) = Least(TopK, Cardinality(Kept(hits)))
            /\ matches' = [matches EXCEPT ![a] = ms]
            /\ pending' = [pending EXCEPT ![a] = Expanded(ms)]
  /\ pc' = [pc EXCEPT ![a] = "pattern"]
  /\ UNCHANGED <<merged, stores, counted, asking, proven, siblings>>

\* Chroma fails: nothing is recalled.
FailSearch(a) ==
  /\ pc[a] \in {"search", "count", "query"}
  /\ pc' = [pc EXCEPT ![a] = "think"]
  /\ UNCHANGED <<merged, stores, recalled>>

-----------------------------------------------------------------------------
(* Recall: the graph                                                       *)

\* The rows of find_similar_errors.
FixesOf(t) ==
  {e[2][2] : e \in {x \in edges : x[1] \in Named("ErrorType", t) /\ x[2][1] = "Fix"}}

\* Faulty variant: count(i), an incident once per edge.
OccurrenceRows(t) ==
  {<<e[1], e[2]>> : e \in {x \in edges : x[1][1] = "Incident" /\ x[2] \in Named("ErrorType", t)}}

\* occurrence_count is count(DISTINCT i): the incident nodes with an edge to
\* any node of the error type, each once.
Occurrences(t) ==
  {<<e[1]>> : e \in {x \in edges : x[1][1] = "Incident" /\ x[2] \in Named("ErrorType", t)}}

\* The incidents in the rows of get_error_fix_history.  A row is an incident
\* with one node each of its error type, its pipelines and its fixes, so that
\* nodes created twice take up rows, and the limit may cut incidents off.
HistoryRows(t) ==
  {r \in nodes \X Named("ErrorType", t) \X nodes \X nodes :
     /\ <<r[1], r[2]>> \in edges /\ r[1][1] = "Incident"
     /\ <<r[1], r[3]>> \in edges /\ r[3][1] = "Pipeline"
     /\ <<r[1], r[4]>> \in edges /\ r[4][1] = "Fix"}

\* Faulty variant: the nodes are returned for their ids.
ToldNodes(t) == {r[1] : r \in HistoryRows(t)}

Told(t) == {r[1][2] : r \in HistoryRows(t)}

\* Faulty variant: the matches are told once more.
OthersOrMatches(a, t) == Told(t)

Others(a, t) == Told(t) \ matches[a]

\* find_similar_errors: the first fixes of the type, in no order.
AskPattern(a, t) ==
  /\ pc[a] = "pattern" /\ t \in pending[a]
  /\ \E fs \in SUBSET FixesOf(t) :
       /\ Cardinality(fs) = Least(MaxFixes, Cardinality(FixesOf(t)))
       /\ proven' = [proven EXCEPT ![a] = @ \union ({t} \X fs)]
  /\ asking' = [asking EXCEPT ![a] = t]
  /\ pc' = [pc EXCEPT ![a] = "history"]
  /\ UNCHANGED <<merged, stores, counted, matches, pending, siblings>>

\* get_error_fix_history: the first incidents that are not matches.
AskHistory(a) ==
  LET t == asking[a]
      others == Others(a, t)
  IN  /\ pc[a] = "history"
      /\ \E is \in SUBSET others :
           /\ Cardinality(is) <= MaxSiblings
           /\ Cardinality(HistoryRows(t)) <= HistoryLimit =>
                Cardinality(is) = Least(MaxSiblings, Cardinality(others))
           /\ siblings' = [siblings EXCEPT ![a] = @ \union ({t} \X is)]
      /\ pending' = [pending EXCEPT ![a] = @ \ {t}]
      /\ pc' = [pc EXCEPT ![a] = "pattern"]
      /\ UNCHANGED <<merged, stores, counted, matches, asking, proven>>

\* Neo4j fails one of the two queries, which then has no rows.
FailPattern(a, t) ==
  /\ pc[a] = "pattern" /\ t \in pending[a]
  /\ asking' = [asking EXCEPT ![a] = t]
  /\ pc' = [pc EXCEPT ![a] = "history"]
  /\ UNCHANGED <<merged, stores, counted, matches, pending, proven, siblings>>

FailHistory(a) ==
  /\ pc[a] = "history"
  /\ pending' = [pending EXCEPT ![a] = @ \ {asking[a]}]
  /\ pc' = [pc EXCEPT ![a] = "pattern"]
  /\ UNCHANGED <<merged, stores, counted, matches, asking, proven, siblings>>

EndRecall(a) ==
  /\ pc[a] = "pattern" /\ pending[a] = {}
  /\ pc' = [pc EXCEPT ![a] = "think"]
  /\ UNCHANGED <<merged, stores, recalled>>

\* The model has answered: with a root cause and a fix, which memory_writer
\* stores, or without; or the client has gone.
EndAnalysis(a) ==
  /\ pc[a] = "think"
  /\ \E next \in {"store", "done"} : pc' = [pc EXCEPT ![a] = next]
  /\ UNCHANGED <<merged, stores, recalled>>

-----------------------------------------------------------------------------
Storing(i) ==
  \/ StoreDocument(i)
  \/ \E kind \in Kinds : MergeNode(i, kind)
  \/ Commit(i)
  \/ RollBack(i)
  \/ SeedAgain(i)

Recall(a) ==
  \/ LookForDocuments(a)
  \/ CountDocuments(a)
  \/ SearchDocuments(a)
  \/ FailSearch(a)
  \/ \E t \in pending[a] : AskPattern(a, t) \/ FailPattern(a, t)
  \/ AskHistory(a)
  \/ FailHistory(a)
  \/ EndRecall(a)
  \/ EndAnalysis(a)

Next == (\E i \in Incidents : Storing(i)) \/ (\E a \in Analyses : Recall(a))

Spec == Init /\ [][Next]_vars

-----------------------------------------------------------------------------
(* Properties                                                              *)

\* The incidents whose transaction was committed, with the error type t.
Recorded(t) == {i \in Incidents : TypeOf[i] = t /\ \E n \in nodes : n[1] = "Incident" /\ n[2] = i}

\* "RETURN ... collect(DISTINCT f.description), count(DISTINCT i)": whatever
\* transactions overlapped, and created pipelines, error types and fixes twice,
\* an error type's pattern has just the fixes of the incidents recorded with
\* it, and counts each of these incidents once.
PatternsAreTrue ==
  \A t \in Names :
    /\ FixesOf(t) = {FixOf[i] : i \in Recorded(t)}
    /\ {o[1][2] : o \in Occurrences(t)} = Recorded(t)
    /\ \A o, p \in Occurrences(t) : o[1][2] = p[1][2] => o = p

\* What the prompt says of an error type, read in two queries while others
\* write, was recorded: each fix called proven is some recorded incident's of
\* that error type, and each incident the type was "also seen in" had it, and
\* is none of the matches.
ContextIsRecorded ==
  \A a \in Analyses :
    /\ \A p \in proven[a] : \E i \in Recorded(p[1]) : FixOf[i] = p[2]
    /\ \A s \in siblings[a] : s[2] \in Recorded(s[1]) \ matches[a]

\* Commits are records, and what is asked of the graph is told by the memory.
Memory == INSTANCE RecordedMemory WITH
  recorded <- {i \in Incidents : \E n \in nodes : n[1] = "Incident" /\ n[2] = i}

\* However transactions overlap, fail and double nodes, and whatever is written
\* between an analysis' queries, it is told what a memory would tell that
\* records each incident at once: the fixes of what is recorded with a match's
\* error type at that moment, as many as the limit lets through, and incidents
\* recorded with it that are no matches.
AnswersAsRecorded == Memory!Spec

\* "excluded so it never grounds on its own past output" (AEON_README.md), as
\* far as it goes: a write-back is matched only if there are as many write-backs
\* as documents were asked for, a number counted before the search.
CrowdedOutByMany ==
  \A a \in Analyses :
    matches[a] \intersect Analyses # {} =>
      Cardinality(docs \intersect Analyses) >= Least(RecallK, Cardinality(counted[a]))

\* "write-backs ... excluded so it never grounds on its own past output"
\* (AEON_README.md): an analysis that matched what people wrote is not told
\* that a fix is proven which only write-backs have.
OwnFixesStayOut ==
  \A a \in Analyses :
    matches[a] \subseteq Curated =>
      \A p \in proven[a] : \E i \in Recorded(p[1]) \intersect Curated : FixOf[i] = p[2]
=============================================================================
