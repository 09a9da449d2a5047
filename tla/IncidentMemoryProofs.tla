------------------------ MODULE IncidentMemoryProofs ------------------------
(***************************************************************************)
(* Proofs about IncidentMemory, for any incidents, names and limits: the   *)
(* graph answers as if every node were there once, however the             *)
(* transactions overlap that create it twice.                              *)
(***************************************************************************)
EXTENDS IncidentMemory, FiniteSetTheorems, TLAPS

\* The node of incident i: its own transaction alone creates it.
Own(i) == <<"Incident", i, i>>

\* n is a node transaction i may match or create.
Fits(n, i) ==
  /\ n \in Nodes
  /\ n[2] = NameOf(n[1], i)
  /\ n[1] = "Incident" => n = Own(i)

\* The kinds a transaction has merged when it comes to each step.
MergedBefore(step) ==
  CASE step = "Pipeline"  -> {"Incident"}
    [] step = "ErrorType" -> {"Incident", "Pipeline"}
    [] step = "Fix"       -> {"Incident", "Pipeline", "ErrorType"}
    [] step = "commit"    -> Kinds
    [] OTHER              -> {}

Transactions ==
  \A i \in Incidents :
    /\ \A n \in merged[i] : Fits(n, i)
    /\ \A kind \in MergedBefore(pc[i]) : \E n \in merged[i] : n[1] = kind

\* A node is some incident's, and an incident's is its own.
NodesFit == \A n \in nodes : \E i \in Incidents : Fits(n, i)

\* An edge is some recorded incident's.
EdgesFit ==
  \A e \in edges : \E i \in Incidents :
    /\ Own(i) \in nodes
    /\ Fits(e[1], i) /\ Fits(e[2], i)

\* A recorded incident has its edges.
Complete ==
  \A i \in Incidents :
    Own(i) \in nodes =>
      \E m, f \in Nodes :
        /\ m[1] = "ErrorType" /\ f[1] = "Fix" /\ m \in nodes
        /\ Fits(m, i) /\ Fits(f, i)
        /\ <<Own(i), m>> \in edges /\ <<m, f>> \in edges

GraphFits == Transactions /\ NodesFit /\ EdgesFit /\ Complete

\* Before its search an analysis has been told nothing.
ToldAfter ==
  \A a \in Analyses :
    pc[a] \in {"search", "count", "query"} => proven[a] = {} /\ siblings[a] = {}

IInv == TypeOK /\ GraphFits /\ ToldAfter /\ ContextIsRecorded

-----------------------------------------------------------------------------
LEMMA NameTyped ==
  ASSUME NEW i \in Incidents, NEW kind \in Kinds
  PROVE  NameOf(kind, i) \in Names
  BY IncidentsAssumption DEF NameOf, Kinds

LEMMA MatchedFits ==
  ASSUME NodesFit, NEW i \in Incidents, NEW kind \in Kinds
  PROVE  /\ \A n \in Matched(kind, i) : Fits(n, i) /\ n[1] = kind
         /\ \E n \in Matched(kind, i) : n[1] = kind
  <1>1. NameOf(kind, i) \in Names
    BY NameTyped
  <1> DEFINE found == Named(kind, NameOf(kind, i))
             new == <<kind, NameOf(kind, i), i>>
  <1>2. CASE found = {}
    <2>1. Matched(kind, i) = {new}
      BY <1>2 DEF Matched
    <2>2. new \in Nodes /\ new[1] = kind /\ new[2] = NameOf(kind, i)
      BY <1>1 DEF Nodes
    <2>3. kind = "Incident" => new = Own(i)
      BY DEF NameOf, Own
    <2> QED
      BY <2>1, <2>2, <2>3 DEF Fits
  <1>3. CASE found # {}
    <2>1. Matched(kind, i) = found
      BY <1>3 DEF Matched
    <2>2. ASSUME NEW n \in found PROVE Fits(n, i) /\ n[1] = kind
      <3>1. n[1] = kind /\ n[2] = NameOf(kind, i) /\ n \in nodes
        BY DEF Named
      <3>2. PICK j \in Incidents : Fits(n, j)
        BY <3>1 DEF NodesFit
      <3>3. kind = "Incident" => n = Own(i)
        <4> HAVE kind = "Incident"
        <4>1. n = Own(j) /\ n[2] = j
          BY <3>1, <3>2 DEF Fits, Own
        <4>2. n[2] = i
          BY <3>1 DEF NameOf
        <4> QED
          BY <4>1, <4>2
      <3> QED
        BY <3>1, <3>2, <3>3 DEF Fits
    <2> QED
      BY <1>3, <2>1, <2>2
  <1> QED
    BY <1>2, <1>3

LEMMA InitIInv == Init => IInv
  <1> SUFFICES ASSUME Init PROVE IInv
    OBVIOUS
  <1> USE IncidentsAssumption DEF Init
  <1>1. TypeOK
    BY DEF TypeOK, Incidents, Writing, Recalling
  <1>2. GraphFits
    <2>1. \A i \in Incidents : MergedBefore(pc[i]) = {}
      BY DEF MergedBefore, Incidents
    <2> QED
      BY <2>1 DEF GraphFits, Transactions, NodesFit, EdgesFit, Complete
  <1>3. ToldAfter /\ ContextIsRecorded
    BY DEF ToldAfter, ContextIsRecorded
  <1> QED
    BY <1>1, <1>2, <1>3 DEF IInv

-----------------------------------------------------------------------------
LEMMA ToldIsRecorded ==
  ASSUME TypeOK, EdgesFit, NEW t
  PROVE  /\ \A f \in FixesOf(t) : f \in Names /\ \E i \in Recorded(t) : FixOf[i] = f
         /\ Told(t) \subseteq Recorded(t)
  <1>1. ASSUME NEW x \in edges, x[1] \in Named("ErrorType", t), x[2][1] = "Fix"
        PROVE  x[2][2] \in Names /\ \E i \in Recorded(t) : FixOf[i] = x[2][2]
    <2>1. PICK i \in Incidents : Own(i) \in nodes /\ Fits(x[1], i) /\ Fits(x[2], i)
      BY DEF EdgesFit
    <2>2. TypeOf[i] = t
      BY <1>1, <2>1 DEF Fits, NameOf, Named
    <2>3. x[2][2] = FixOf[i]
      BY <1>1, <2>1 DEF Fits, NameOf
    <2>4. i \in Recorded(t)
      BY <2>1, <2>2 DEF Recorded, Own
    <2> QED
      BY <2>3, <2>4, IncidentsAssumption
  <1>2. ASSUME NEW x \in edges, x[1][1] = "Incident", x[2] \in Named("ErrorType", t)
        PROVE  x[1][2] \in Recorded(t)
    <2>1. PICK i \in Incidents : Own(i) \in nodes /\ Fits(x[1], i) /\ Fits(x[2], i)
      BY DEF EdgesFit
    <2>2. TypeOf[i] = t
      BY <1>2, <2>1 DEF Fits, NameOf, Named
    <2>3. x[1][2] = i
      BY <1>2, <2>1 DEF Fits, Own
    <2> QED
      BY <2>1, <2>2, <2>3 DEF Recorded, Own
  <1>3. ASSUME NEW r \in HistoryRows(t) PROVE r[1][2] \in Recorded(t)
    <2>1. <<r[1], r[2]>> \in edges /\ r[1][1] = "Incident" /\ r[2] \in Named("ErrorType", t)
      BY DEF HistoryRows
    <2> DEFINE x == <<r[1], r[2]>>
    <2>2. x[1] = r[1] /\ x[2] = r[2]
      OBVIOUS
    <2> HIDE DEF x
    <2> QED
      BY <1>2, <2>1, <2>2 DEF x
  <1> QED
    BY <1>1, <1>3 DEF FixesOf, Told

-----------------------------------------------------------------------------
LEMMA TypeStep ==
  ASSUME TypeOK, EdgesFit, [Next]_vars
  PROVE  TypeOK'
  <1> USE IncidentsAssumption DEF TypeOK, stores, recalled, Writing, Recalling, Incidents
  <1>1. CASE UNCHANGED vars
    BY <1>1 DEF vars
  <1>2. ASSUME NEW i \in Incidents, StoreDocument(i) PROVE TypeOK'
    BY <1>2 DEF StoreDocument, Kinds
  <1>3. ASSUME NEW i \in Incidents, NEW kind \in Kinds, MergeNode(i, kind) PROVE TypeOK'
    <2>1. Matched(kind, i) \subseteq Nodes
      <3>1. NameOf(kind, i) \in Names
        BY NameTyped
      <3> QED
        BY <3>1 DEF Matched, Named, Nodes
    <2>2. After(kind) \in Kinds \union {"commit"}
      BY DEF After, Kinds
    <2> QED
      BY <1>3, <2>1, <2>2 DEF MergeNode
  <1>4. ASSUME NEW i \in Incidents, Commit(i) PROVE TypeOK'
    <2>1. Linked(merged[i]) \subseteq Nodes \X Nodes
      BY DEF Linked
    <2> QED
      BY <1>4, <2>1 DEF Commit
  <1>5. ASSUME NEW i \in Incidents, RollBack(i) \/ SeedAgain(i) PROVE TypeOK'
    BY <1>5 DEF RollBack, SeedAgain
  <1>6. ASSUME NEW a \in Analyses, LookForDocuments(a) \/ CountDocuments(a) PROVE TypeOK'
    BY <1>6 DEF LookForDocuments, CountDocuments
  <1>7. ASSUME NEW a \in Analyses, SearchDocuments(a) PROVE TypeOK'
    <2>1. PICK ms :
            /\ \E hits \in SUBSET docs : ms \subseteq Kept(hits)
            /\ matches' = [matches EXCEPT ![a] = ms]
            /\ pending' = [pending EXCEPT ![a] = Expanded(ms)]
      BY <1>7 DEF SearchDocuments
    <2>2. ms \subseteq Incidents
      BY <2>1 DEF Kept
    <2>3. Expanded(ms) \subseteq Names
      BY <2>2 DEF Expanded
    <2> QED
      BY <1>7, <2>1, <2>2, <2>3 DEF SearchDocuments
  <1>8. ASSUME NEW a \in Analyses, FailSearch(a) \/ EndRecall(a) \/ EndAnalysis(a) PROVE TypeOK'
    BY <1>8 DEF FailSearch, EndRecall, EndAnalysis
  <1>9. ASSUME NEW a \in Analyses, NEW t \in pending[a], AskPattern(a, t) PROVE TypeOK'
    <2>1. t \in Names
      OBVIOUS
    <2>2. FixesOf(t) \subseteq Names
      BY ToldIsRecorded
    <2>3. PICK fs \in SUBSET FixesOf(t) : proven' = [proven EXCEPT ![a] = @ \union ({t} \X fs)]
      BY <1>9 DEF AskPattern
    <2>4. {t} \X fs \subseteq Names \X Names
      BY <2>1, <2>2
    <2> QED
      BY <1>9, <2>1, <2>3, <2>4 DEF AskPattern
  <1>10. ASSUME NEW a \in Analyses, AskHistory(a) PROVE TypeOK'
    <2>1. Others(a, asking[a]) \subseteq Names
      BY ToldIsRecorded DEF Others, Recorded
    <2>2. PICK is \in SUBSET Others(a, asking[a]) :
            siblings' = [siblings EXCEPT ![a] = @ \union ({asking[a]} \X is)]
      BY <1>10 DEF AskHistory
    <2>3. {asking[a]} \X is \subseteq Names \X Names
      BY <2>1
    <2> QED
      BY <1>10, <2>2, <2>3 DEF AskHistory
  <1>11. ASSUME NEW a \in Analyses, NEW t \in pending[a], FailPattern(a, t) PROVE TypeOK'
    BY <1>11 DEF FailPattern
  <1>12. ASSUME NEW a \in Analyses, FailHistory(a) PROVE TypeOK'
    BY <1>12 DEF FailHistory
  <1> QED
    BY <1>1, <1>2, <1>3, <1>4, <1>5, <1>6, <1>7, <1>8, <1>9, <1>10, <1>11, <1>12
    DEF Next, Storing, Recall

-----------------------------------------------------------------------------
\* A step that leaves the graph and its transactions alone.
LEMMA GraphLeftAlone ==
  ASSUME GraphFits, UNCHANGED <<merged, nodes, edges>>,
         \A i \in Incidents : MergedBefore(pc'[i]) \subseteq MergedBefore(pc[i])
  PROVE  GraphFits'
  <1>1. Transactions'
    BY DEF GraphFits, Transactions
  <1>2. NodesFit' /\ EdgesFit' /\ Complete'
    BY DEF GraphFits, NodesFit, EdgesFit, Complete
  <1> QED
    BY <1>1, <1>2 DEF GraphFits

\* One that gives up, or has not begun, a transaction.
LEMMA OutsideTransaction ==
  ASSUME TypeOK, GraphFits, UNCHANGED <<merged, nodes, edges>>, NEW i \in Incidents, NEW v,
         pc' = [pc EXCEPT ![i] = v], MergedBefore(v) = {}
  PROVE  GraphFits'
  <1>1. \A j \in Incidents : MergedBefore(pc'[j]) \subseteq MergedBefore(pc[j])
    BY DEF TypeOK
  <1> QED
    BY <1>1, GraphLeftAlone

LEMMA MergeStep ==
  ASSUME TypeOK, GraphFits, NEW i \in Incidents, NEW kind \in Kinds, MergeNode(i, kind)
  PROVE  GraphFits'
  <1>1. /\ pc[i] = kind
        /\ merged' = [merged EXCEPT ![i] = @ \union Matched(kind, i)]
        /\ pc' = [pc EXCEPT ![i] = After(kind)]
        /\ UNCHANGED <<nodes, edges>>
    BY DEF MergeNode, stores
  <1>2. /\ \A n \in Matched(kind, i) : Fits(n, i) /\ n[1] = kind
        /\ \E n \in Matched(kind, i) : n[1] = kind
    BY MatchedFits DEF GraphFits
  <1>3. MergedBefore(After(kind)) = MergedBefore(kind) \union {kind}
    BY DEF After, MergedBefore, Kinds
  <1>4. Transactions'
    <2> SUFFICES ASSUME NEW j \in Incidents
                 PROVE  /\ \A n \in merged'[j] : Fits(n, j)
                        /\ \A k \in MergedBefore(pc'[j]) : \E n \in merged'[j] : n[1] = k
      BY DEF Transactions
    <2>1. CASE j = i
      <3>1. merged'[i] = merged[i] \union Matched(kind, i) /\ pc'[i] = After(kind)
        BY <1>1 DEF TypeOK
      <3>2. \A k \in MergedBefore(kind) : \E n \in merged[i] : n[1] = k
        BY <1>1 DEF GraphFits, Transactions
      <3>3. \A n \in merged[i] : Fits(n, i)
        BY DEF GraphFits, Transactions
      <3> QED
        BY <2>1, <3>1, <3>2, <3>3, <1>2, <1>3
    <2>2. CASE j # i
      <3>1. merged'[j] = merged[j] /\ pc'[j] = pc[j]
        BY <1>1, <2>2 DEF TypeOK
      <3> QED
        BY <3>1 DEF GraphFits, Transactions
    <2> QED
      BY <2>1, <2>2
  <1>5. NodesFit' /\ EdgesFit' /\ Complete'
    BY <1>1 DEF GraphFits, NodesFit, EdgesFit, Complete
  <1> QED
    BY <1>4, <1>5 DEF GraphFits

LEMMA CommitStep ==
  ASSUME TypeOK, GraphFits, NEW i \in Incidents, Commit(i)
  PROVE  GraphFits'
  <1> DEFINE ms == merged[i]
  <1>1. /\ pc[i] = "commit"
        /\ nodes' = nodes \union ms
        /\ edges' = edges \union Linked(ms)
        /\ merged' = [merged EXCEPT ![i] = {}]
        /\ pc' = [pc EXCEPT ![i] = "done"]
    BY DEF Commit
  <1>2. \A n \in ms : Fits(n, i)
    BY DEF GraphFits, Transactions
  <1>3. \A kind \in Kinds : \E n \in ms : n[1] = kind
    <2>1. MergedBefore("commit") = Kinds
      BY DEF MergedBefore
    <2> QED
      BY <1>1, <2>1 DEF GraphFits, Transactions
  <1>4. Own(i) \in ms
    BY <1>2, <1>3 DEF Kinds, Fits
  <1>5. Transactions'
    <2> SUFFICES ASSUME NEW j \in Incidents
                 PROVE  /\ \A n \in merged'[j] : Fits(n, j)
                        /\ \A k \in MergedBefore(pc'[j]) : \E n \in merged'[j] : n[1] = k
      BY DEF Transactions
    <2>1. CASE j = i
      <3>1. merged'[i] = {} /\ pc'[i] = "done" /\ MergedBefore("done") = {}
        BY <1>1 DEF TypeOK, MergedBefore
      <3> QED
        BY <2>1, <3>1
    <2>2. CASE j # i
      <3>1. merged'[j] = merged[j] /\ pc'[j] = pc[j]
        BY <1>1, <2>2 DEF TypeOK
      <3> QED
        BY <3>1 DEF GraphFits, Transactions
    <2> QED
      BY <2>1, <2>2
  <1>6. NodesFit'
    BY <1>1, <1>2 DEF GraphFits, NodesFit
  <1>7. EdgesFit'
    <2>1. ASSUME NEW e \in Linked(ms) PROVE Fits(e[1], i) /\ Fits(e[2], i)
      BY <1>2 DEF Linked
    <2> QED
      BY <1>1, <1>4, <2>1 DEF GraphFits, EdgesFit
  <1>8. Complete'
    <2> SUFFICES ASSUME NEW j \in Incidents, Own(j) \in nodes'
                 PROVE  \E m, f \in Nodes :
                          /\ m[1] = "ErrorType" /\ f[1] = "Fix" /\ m \in nodes'
                          /\ Fits(m, j) /\ Fits(f, j)
                          /\ <<Own(j), m>> \in edges' /\ <<m, f>> \in edges'
      BY DEF Complete
    <2>1. CASE Own(j) \in nodes
      BY <1>1, <2>1 DEF GraphFits, Complete
    <2>2. CASE Own(j) \in ms
      <3>1. j = i
        BY <1>2, <2>2 DEF Fits, Own
      <3>2. PICK m \in ms : m[1] = "ErrorType"
        BY <1>3 DEF Kinds
      <3>3. PICK f \in ms : f[1] = "Fix"
        BY <1>3 DEF Kinds
      <3>4. m \in Nodes /\ f \in Nodes
        BY <1>2 DEF Fits
      <3>5. <<Own(i), m>> \in Linked(ms) /\ <<m, f>> \in Linked(ms)
        BY <1>4, <3>2, <3>3 DEF Linked, Relations, Own
      <3> QED
        BY <1>1, <1>2, <3>1, <3>2, <3>3, <3>4, <3>5
    <2> QED
      BY <1>1, <2>1, <2>2
  <1> QED
    BY <1>5, <1>6, <1>7, <1>8 DEF GraphFits

LEMMA GraphStep ==
  ASSUME TypeOK, GraphFits, [Next]_vars
  PROVE  GraphFits'
  <1> USE DEF stores
  <1>1. CASE UNCHANGED vars
    <2>1. UNCHANGED <<merged, nodes, edges>> /\ UNCHANGED pc
      BY <1>1 DEF vars
    <2> QED
      BY <2>1, GraphLeftAlone
  <1>2. \A v \in {"Incident", "done", "store", "count", "query", "pattern", "history", "think"} :
          MergedBefore(v) = {}
    BY DEF MergedBefore
  <1>3. ASSUME NEW i \in Incidents, Storing(i) PROVE GraphFits'
    <2>1. CASE StoreDocument(i)
      BY <1>2, <2>1, OutsideTransaction DEF StoreDocument
    <2>2. ASSUME NEW kind \in Kinds, MergeNode(i, kind) PROVE GraphFits'
      BY <2>2, MergeStep
    <2>3. CASE Commit(i)
      BY <2>3, CommitStep
    <2>4. CASE RollBack(i)
      <3>1. /\ merged' = [merged EXCEPT ![i] = {}]
            /\ pc' = [pc EXCEPT ![i] = "done"]
            /\ UNCHANGED <<nodes, edges>>
        BY <2>4 DEF RollBack
      <3>2. \A j \in Incidents :
              \/ merged'[j] = {} /\ MergedBefore(pc'[j]) = {}
              \/ merged'[j] = merged[j] /\ pc'[j] = pc[j]
        BY <1>2, <3>1 DEF TypeOK
      <3>3. Transactions'
        BY <3>2 DEF GraphFits, Transactions
      <3>4. NodesFit' /\ EdgesFit' /\ Complete'
        BY <3>1 DEF GraphFits, NodesFit, EdgesFit, Complete
      <3> QED
        BY <3>3, <3>4 DEF GraphFits
    <2>5. CASE SeedAgain(i)
      BY <1>2, <2>5, OutsideTransaction DEF SeedAgain
    <2> QED
      BY <1>3, <2>1, <2>2, <2>3, <2>4, <2>5 DEF Storing
  <1>4. ASSUME NEW a \in Analyses, Recall(a) PROVE GraphFits'
    <2>1. a \in Incidents
      BY DEF Incidents
    <2>2. \E v \in {"done", "store", "count", "query", "pattern", "history", "think"} :
            pc' = [pc EXCEPT ![a] = v]
      BY <1>4 DEF Recall, LookForDocuments, CountDocuments, SearchDocuments, FailSearch,
                  AskPattern, FailPattern, AskHistory, FailHistory, EndRecall, EndAnalysis
    <2>3. UNCHANGED <<merged, nodes, edges>>
      BY <1>4 DEF Recall, LookForDocuments, CountDocuments, SearchDocuments, FailSearch,
                  AskPattern, FailPattern, AskHistory, FailHistory, EndRecall, EndAnalysis
    <2> QED
      BY <1>2, <2>1, <2>2, <2>3, OutsideTransaction
  <1> QED
    BY <1>1, <1>3, <1>4 DEF Next

-----------------------------------------------------------------------------
\* What is recorded stays recorded.
LEMMA RecordedStays ==
  ASSUME [Next]_vars, NEW t
  PROVE  Recorded(t) \subseteq Recorded(t)'
  <1>1. nodes \subseteq nodes'
    BY DEF Next, vars, stores, Storing, StoreDocument, MergeNode, Commit, RollBack, SeedAgain,
           Recall, LookForDocuments, CountDocuments, SearchDocuments, FailSearch,
           AskPattern, FailPattern, AskHistory, FailHistory, EndRecall, EndAnalysis
  <1> QED
    BY <1>1 DEF Recorded

LEMMA ContextStep ==
  ASSUME TypeOK, EdgesFit, ToldAfter, ContextIsRecorded, [Next]_vars
  PROVE  ToldAfter' /\ ContextIsRecorded'
  <1> DEFINE Goal == ToldAfter /\ ContextIsRecorded
  <1> SUFFICES Goal'
    OBVIOUS
  <1> USE IncidentsAssumption DEF Incidents, stores, recalled
  <1>0. \A t : Recorded(t) \subseteq Recorded(t)'
    BY RecordedStays
  <1>1. ASSUME UNCHANGED <<matches, proven, siblings>>,
               \A a \in Analyses : pc'[a] \in {"search", "count", "query"} =>
                                      pc[a] \in {"search", "count", "query"}
        PROVE  Goal'
    BY <1>0, <1>1 DEF ToldAfter, ContextIsRecorded
  <1>2. CASE UNCHANGED vars
    BY <1>1, <1>2 DEF vars
  <1>3. ASSUME NEW i \in Incidents, Storing(i) PROVE Goal'
    <2>1. PICK v \in Kinds \union {"commit", "done", "store"} : pc' = [pc EXCEPT ![i] = v]
      BY <1>3 DEF Storing, StoreDocument, MergeNode, Commit, RollBack, SeedAgain, After, Kinds
    <2>2. UNCHANGED recalled
      BY <1>3 DEF Storing, StoreDocument, MergeNode, Commit, RollBack, SeedAgain
    <2> QED
      BY <1>1, <2>1, <2>2 DEF TypeOK, Kinds
  <1>4. ASSUME NEW a \in Analyses,
               LookForDocuments(a) \/ CountDocuments(a) \/ FailSearch(a) \/ EndRecall(a)
                 \/ EndAnalysis(a) \/ FailHistory(a) \/ (\E t \in pending[a] : FailPattern(a, t))
        PROVE  Goal'
    BY <1>1, <1>4 DEF TypeOK, LookForDocuments, CountDocuments, FailSearch, EndRecall,
                      EndAnalysis, FailHistory, FailPattern
  <1>5. ASSUME NEW a \in Analyses, SearchDocuments(a) PROVE Goal'
    <2>1. /\ pc[a] = "query" /\ pc' = [pc EXCEPT ![a] = "pattern"]
          /\ \E ms : matches' = [matches EXCEPT ![a] = ms]
          /\ UNCHANGED <<proven, siblings>>
      BY <1>5 DEF SearchDocuments
    <2>2. proven[a] = {} /\ siblings[a] = {}
      BY <2>1 DEF ToldAfter
    <2> QED
      BY <1>0, <2>1, <2>2 DEF TypeOK, ToldAfter, ContextIsRecorded
  <1>6. ASSUME NEW a \in Analyses, NEW t \in pending[a], AskPattern(a, t) PROVE Goal'
    <2>1. PICK fs \in SUBSET FixesOf(t) : proven' = [proven EXCEPT ![a] = @ \union ({t} \X fs)]
      BY <1>6 DEF AskPattern
    <2>2. /\ pc[a] = "pattern" /\ pc' = [pc EXCEPT ![a] = "history"]
          /\ UNCHANGED <<matches, siblings>>
      BY <1>6 DEF AskPattern
    <2>3. \A p \in {t} \X fs : \E i \in Recorded(p[1]) : FixOf[i] = p[2]
      BY <2>1, ToldIsRecorded
    <2>4. ToldAfter'
      BY <2>1, <2>2 DEF ToldAfter, TypeOK
    <2>5. ContextIsRecorded'
      BY <1>0, <2>1, <2>2, <2>3 DEF ContextIsRecorded, TypeOK
    <2> QED
      BY <2>4, <2>5
  <1>7. ASSUME NEW a \in Analyses, AskHistory(a) PROVE Goal'
    <2> DEFINE t == asking[a]
    <2>1. PICK is \in SUBSET Others(a, t) :
            siblings' = [siblings EXCEPT ![a] = @ \union ({t} \X is)]
      BY <1>7 DEF AskHistory
    <2>2. /\ pc[a] = "history" /\ pc' = [pc EXCEPT ![a] = "pattern"]
          /\ UNCHANGED <<matches, proven>>
      BY <1>7 DEF AskHistory
    <2>3. \A s \in {t} \X is : s[2] \in Recorded(s[1]) \ matches[a]
      BY <2>1, ToldIsRecorded DEF Others
    <2>4. ToldAfter'
      BY <2>1, <2>2 DEF ToldAfter, TypeOK
    <2>5. ContextIsRecorded'
      BY <1>0, <2>1, <2>2, <2>3 DEF ContextIsRecorded, TypeOK
    <2> QED
      BY <2>4, <2>5
  <1> QED
    BY <1>2, <1>3, <1>4, <1>5, <1>6, <1>7 DEF Next, Recall

-----------------------------------------------------------------------------
LEMMA Inductive == Spec => []IInv
  <1>1. IInv /\ [Next]_vars => IInv'
    BY TypeStep, GraphStep, ContextStep DEF IInv, GraphFits
  <1> QED
    BY <1>1, InitIInv, PTL DEF Spec

\* Both stores, and what analyses recall of them, keep their types.
THEOREM TypeCorrect == Spec => []TypeOK
  <1>1. IInv => TypeOK
    BY DEF IInv
  <1> QED
    BY <1>1, Inductive, PTL

\* The graph fits what is recorded: then its patterns are true.
LEMMA FitIsTrue ==
  ASSUME TypeOK, GraphFits
  PROVE  PatternsAreTrue
  <1> SUFFICES ASSUME NEW t \in Names
               PROVE  /\ FixesOf(t) = {FixOf[i] : i \in Recorded(t)}
                      /\ {o[1][2] : o \in Occurrences(t)} = Recorded(t)
                      /\ \A o, p \in Occurrences(t) : o[1][2] = p[1][2] => o = p
    BY DEF PatternsAreTrue
  <1>1. ASSUME NEW i \in Recorded(t)
        PROVE  FixOf[i] \in FixesOf(t) /\ <<Own(i)>> \in Occurrences(t)
    <2>1. i \in Incidents /\ TypeOf[i] = t /\ \E n \in nodes : n[1] = "Incident" /\ n[2] = i
      BY DEF Recorded
    <2>2. Own(i) \in nodes
      <3>1. PICK n \in nodes : n[1] = "Incident" /\ n[2] = i
        BY <2>1
      <3>2. PICK j \in Incidents : Fits(n, j)
        BY DEF GraphFits, NodesFit
      <3>3. n = Own(j) /\ j = i
        BY <3>1, <3>2 DEF Fits, Own
      <3> QED
        BY <3>3
    <2>3. PICK m, f \in Nodes :
            /\ m[1] = "ErrorType" /\ f[1] = "Fix" /\ m \in nodes
            /\ Fits(m, i) /\ Fits(f, i)
            /\ <<Own(i), m>> \in edges /\ <<m, f>> \in edges
      BY <2>1, <2>2 DEF GraphFits, Complete
    <2>4. m \in Named("ErrorType", t) /\ f[2] = FixOf[i]
      BY <2>1, <2>3 DEF Fits, NameOf, Named
    <2>5. FixOf[i] \in FixesOf(t)
      <3> DEFINE x == <<m, f>>
      <3>1. x \in edges /\ x[1] = m /\ x[2] = f
        BY <2>3
      <3> HIDE DEF x
      <3> QED
        BY <2>3, <2>4, <3>1 DEF FixesOf
    <2>6. <<Own(i)>> \in Occurrences(t)
      <3> DEFINE x == <<Own(i), m>>
      <3>1. x \in edges /\ x[1] = Own(i) /\ x[2] = m /\ Own(i)[1] = "Incident"
        BY <2>3 DEF Own
      <3> HIDE DEF x
      <3> QED
        BY <2>4, <3>1 DEF Occurrences
    <2> QED
      BY <2>5, <2>6
  <1>2. FixesOf(t) = {FixOf[i] : i \in Recorded(t)}
    <2>1. \A f \in FixesOf(t) : \E i \in Recorded(t) : FixOf[i] = f
      BY ToldIsRecorded DEF GraphFits
    <2> QED
      BY <1>1, <2>1
  <1>3. ASSUME NEW o \in Occurrences(t)
        PROVE  o[1][2] \in Recorded(t) /\ o = <<Own(o[1][2])>>
    <2>1. PICK x \in edges : o = <<x[1]>> /\ x[1][1] = "Incident" /\ x[2] \in Named("ErrorType", t)
      BY DEF Occurrences
    <2>2. PICK i \in Incidents : Own(i) \in nodes /\ Fits(x[1], i) /\ Fits(x[2], i)
      BY DEF GraphFits, EdgesFit
    <2>3. TypeOf[i] = t
      BY <2>1, <2>2 DEF Fits, NameOf, Named
    <2>4. x[1] = Own(i) /\ Own(i)[2] = i
      BY <2>1, <2>2 DEF Fits, Own
    <2>5. i \in Recorded(t)
      BY <2>2, <2>3 DEF Recorded, Own
    <2>6. o[1] = Own(i) /\ o[1][2] = i
      BY <2>1, <2>4
    <2> QED
      BY <2>1, <2>4, <2>5, <2>6
  <1>4. \A i \in Recorded(t) : <<Own(i)>>[1][2] = i
    BY DEF Own
  <1>5. {o[1][2] : o \in Occurrences(t)} = Recorded(t)
    BY <1>1, <1>3, <1>4
  <1> QED
    BY <1>2, <1>3, <1>5

\* Whatever transactions overlap, an error type's pattern has just the fixes of
\* the incidents recorded with it, and counts each of them once.
THEOREM PatternsHold == Spec => []PatternsAreTrue
  <1>1. IInv => PatternsAreTrue
    BY FitIsTrue DEF IInv
  <1> QED
    BY <1>1, Inductive, PTL

\* What an analysis is told of an error type was recorded with it.
THEOREM ContextHolds == Spec => []ContextIsRecorded
  <1>1. IInv => ContextIsRecorded
    BY DEF IInv
  <1> QED
    BY <1>1, Inductive, PTL
-----------------------------------------------------------------------------
(* The documents: what a search may find                                   *)

\* An analysis asks about the error types of its matches, which are none
\* before its search.
AsksOfMatches ==
  \A a \in Analyses :
    /\ pc[a] \in {"search", "count", "query"} => matches[a] = {}
    /\ pending[a] \subseteq Expanded(matches[a])
    /\ pc[a] = "history" => asking[a] \in pending[a]
    /\ \A p \in proven[a] : p[1] \in Expanded(matches[a])

\* The documents are finitely many and stay, those once counted among them.
DocumentsStay ==
  /\ IsFiniteSet(docs)
  /\ \A a \in Analyses : counted[a] \subseteq docs

RInv == AsksOfMatches /\ DocumentsStay /\ CrowdedOutByMany

LEMMA InitRInv == Init => RInv
  <1> SUFFICES ASSUME Init PROVE RInv
    OBVIOUS
  <1>1. AsksOfMatches
    BY DEF Init, AsksOfMatches, Incidents
  <1>2. DocumentsStay /\ CrowdedOutByMany
    BY FS_EmptySet DEF Init, DocumentsStay, CrowdedOutByMany
  <1> QED
    BY <1>1, <1>2 DEF RInv

LEMMA AskStep ==
  ASSUME TypeOK, ToldAfter, AsksOfMatches, [Next]_vars
  PROVE  AsksOfMatches'
  <1> USE IncidentsAssumption DEF Incidents, stores, recalled
  <1>1. ASSUME UNCHANGED <<matches, proven>>,
               \A a \in Analyses :
                 /\ pending'[a] \subseteq pending[a]
                 /\ \/ pc'[a] = pc[a] /\ asking'[a] = asking[a] /\ pending'[a] = pending[a]
                    \/ pc[a] \in {"search", "count", "query"} /\ pc'[a] # "history"
                    \/ pc'[a] \notin {"search", "count", "query", "history"}
        PROVE  AsksOfMatches'
    BY <1>1 DEF AsksOfMatches, Expanded
  <1>2. CASE UNCHANGED vars
    BY <1>1, <1>2 DEF vars
  <1>3. ASSUME NEW i \in Incidents, Storing(i) PROVE AsksOfMatches'
    <2>1. PICK v \in Kinds \union {"commit", "done", "store"} : pc' = [pc EXCEPT ![i] = v]
      BY <1>3 DEF Storing, StoreDocument, MergeNode, Commit, RollBack, SeedAgain, After, Kinds
    <2>2. UNCHANGED recalled
      BY <1>3 DEF Storing, StoreDocument, MergeNode, Commit, RollBack, SeedAgain
    <2> QED
      BY <1>1, <2>1, <2>2 DEF TypeOK, Kinds
  <1>4. ASSUME NEW a \in Analyses,
               LookForDocuments(a) \/ CountDocuments(a) \/ FailSearch(a) \/ EndRecall(a)
                 \/ EndAnalysis(a) \/ FailHistory(a) \/ AskHistory(a)
        PROVE  AsksOfMatches'
    BY <1>1, <1>4 DEF TypeOK, LookForDocuments, CountDocuments, FailSearch, EndRecall,
                      EndAnalysis, FailHistory, AskHistory
  <1>5. ASSUME NEW a \in Analyses, SearchDocuments(a) PROVE AsksOfMatches'
    <2>1. PICK ms :
            /\ matches' = [matches EXCEPT ![a] = ms]
            /\ pending' = [pending EXCEPT ![a] = Expanded(ms)]
      BY <1>5 DEF SearchDocuments
    <2>2. /\ pc[a] = "query" /\ pc' = [pc EXCEPT ![a] = "pattern"]
          /\ UNCHANGED <<asking, proven>>
      BY <1>5 DEF SearchDocuments
    <2>3. proven[a] = {}
      BY <2>2 DEF ToldAfter
    <2> QED
      BY <2>1, <2>2, <2>3 DEF TypeOK, AsksOfMatches
  <1>6. ASSUME NEW a \in Analyses, NEW t \in pending[a], AskPattern(a, t) \/ FailPattern(a, t)
        PROVE  AsksOfMatches'
    <2>1. /\ pc' = [pc EXCEPT ![a] = "history"] /\ asking' = [asking EXCEPT ![a] = t]
          /\ UNCHANGED <<matches, pending>>
          /\ \E fs : proven' = [proven EXCEPT ![a] = @ \union ({t} \X fs)]
      <3> USE DEF TypeOK
      <3>1. CASE AskPattern(a, t)
        BY <3>1 DEF AskPattern
      <3>2. CASE FailPattern(a, t)
        <4>1. proven' = [proven EXCEPT ![a] = @ \union ({t} \X {})]
          BY <3>2 DEF FailPattern
        <4> QED
          BY <3>2, <4>1 DEF FailPattern
      <3> QED
        BY <1>6, <3>1, <3>2
    <2>2. PICK fs : proven' = [proven EXCEPT ![a] = @ \union ({t} \X fs)]
      BY <2>1
    <2>3. t \in Expanded(matches[a])
      BY DEF AsksOfMatches
    <2>4. \A p \in {t} \X fs : p[1] = t
      OBVIOUS
    <2> QED
      BY <2>1, <2>2, <2>3, <2>4 DEF TypeOK, AsksOfMatches
  <1> QED
    BY <1>2, <1>3, <1>4, <1>5, <1>6 DEF Next, Recall

\* The first of a search are as many as were counted: they are all write-backs
\* when a write-back is kept.
LEMMA KeptOnlyWithoutCurated ==
  ASSUME NEW hits \in SUBSET docs, docs \subseteq Incidents,
         Kept(hits) \intersect Analyses # {}
  PROVE  hits \subseteq docs \intersect Analyses
  BY IncidentsAssumption DEF Kept, Incidents

LEMMA SearchStep ==
  ASSUME TypeOK, AsksOfMatches, DocumentsStay, CrowdedOutByMany, [Next]_vars
  PROVE  DocumentsStay' /\ CrowdedOutByMany'
  <1> USE DEF stores, recalled
  <1> DEFINE own == docs \intersect Analyses
  <1>1. docs' = docs \/ \E i \in Incidents : docs' = docs \union {i}
    BY DEF Next, vars, Storing, StoreDocument, MergeNode, Commit, RollBack, SeedAgain,
           Recall, LookForDocuments, CountDocuments, SearchDocuments, FailSearch,
           AskPattern, FailPattern, AskHistory, FailHistory, EndRecall, EndAnalysis
  <1>2. IsFiniteSet(docs) /\ IsFiniteSet(docs') /\ docs \subseteq docs'
    BY <1>1, FS_AddElement DEF DocumentsStay
  <1>3. /\ Cardinality(own) \in Nat /\ Cardinality(own') \in Nat
        /\ Cardinality(own) <= Cardinality(own')
    <2>1. IsFiniteSet(own) /\ IsFiniteSet(own')
      BY <1>2, FS_Subset
    <2>2. own \in SUBSET own'
      BY <1>2
    <2> QED
      BY <2>1, <2>2, FS_Subset, FS_CardinalityType
  <1>4. \A a \in Analyses : Least(RecallK, Cardinality(counted[a])) \in Nat
    BY <1>2, FS_Subset, FS_CardinalityType, BoundsAssumption DEF DocumentsStay, Least
  <1>5. ASSUME UNCHANGED <<counted, matches>>
        PROVE  DocumentsStay' /\ CrowdedOutByMany'
    BY <1>2, <1>3, <1>4, <1>5 DEF DocumentsStay, CrowdedOutByMany
  <1>6. ASSUME NEW a \in Analyses, CountDocuments(a)
        PROVE  DocumentsStay' /\ CrowdedOutByMany'
    <2>1. /\ counted' = [counted EXCEPT ![a] = docs]
          /\ UNCHANGED <<docs, matches>> /\ matches[a] = {}
      BY <1>6 DEF CountDocuments, AsksOfMatches
    <2> QED
      BY <1>2, <2>1 DEF TypeOK, DocumentsStay, CrowdedOutByMany
  <1>7. ASSUME NEW a \in Analyses, SearchDocuments(a)
        PROVE  DocumentsStay' /\ CrowdedOutByMany'
    <2>1. UNCHANGED <<docs, counted>>
      BY <1>7 DEF SearchDocuments
    <2>2. PICK hits \in SUBSET docs :
            /\ Cardinality(hits) = Least(RecallK, Cardinality(counted[a]))
            /\ \E ms \in SUBSET Kept(hits) : matches' = [matches EXCEPT ![a] = ms]
      BY <1>7 DEF SearchDocuments
    <2>3. PICK ms \in SUBSET Kept(hits) : matches' = [matches EXCEPT ![a] = ms]
      BY <2>2
    <2>4. ms \intersect Analyses # {} =>
            Cardinality(own) >= Least(RecallK, Cardinality(counted[a]))
      <3> HAVE ms \intersect Analyses # {}
      <3>1. hits \in SUBSET own /\ IsFiniteSet(own)
        BY <1>2, <2>2, FS_Subset, KeptOnlyWithoutCurated DEF TypeOK
      <3>2. Cardinality(hits) <= Cardinality(own)
        BY <3>1, FS_Subset
      <3> QED
        BY <1>3, <1>4, <2>2, <3>2
    <2> QED
      BY <1>2, <2>1, <2>3, <2>4 DEF TypeOK, DocumentsStay, CrowdedOutByMany
  <1>8. ASSUME NEW a \in Analyses, Recall(a), ~CountDocuments(a), ~SearchDocuments(a)
        PROVE  UNCHANGED <<counted, matches>>
    BY <1>8 DEF Recall, LookForDocuments, FailSearch, AskPattern, FailPattern, AskHistory,
                FailHistory, EndRecall, EndAnalysis
  <1>9. ASSUME NEW i \in Incidents, Storing(i) PROVE UNCHANGED <<counted, matches>>
    BY <1>9 DEF Storing, StoreDocument, MergeNode, Commit, RollBack, SeedAgain
  <1> QED
    BY <1>5, <1>6, <1>7, <1>8, <1>9 DEF Next, vars

LEMMA RecallInductive == Spec => []RInv
  <1>1. IInv /\ RInv /\ [Next]_vars => RInv'
    BY AskStep, SearchStep DEF IInv, RInv
  <1> QED
    BY <1>1, InitRInv, Inductive, PTL DEF Spec

\* An analysis grounds on the agent's own output only if the write-backs are
\* as many as the documents asked for, however many documents are stored while
\* it counts and searches.
THEOREM CrowdingHolds == Spec => []CrowdedOutByMany
  <1>1. RInv => CrowdedOutByMany
    BY DEF RInv
  <1> QED
    BY <1>1, RecallInductive, PTL

\* Where write-backs have error types of their own (or the one that is asked
\* nothing about), the promise holds that the code breaks: an analysis that
\* matched what people wrote is told the fixes people wrote.
THEOREM OwnFixesStayOutApart ==
  ASSUME \A a \in Analyses, c \in Curated : TypeOf[a] = TypeOf[c] => TypeOf[a] = Unclassified
  PROVE  Spec => []OwnFixesStayOut
  <1>1. IInv /\ RInv => OwnFixesStayOut
    <2> SUFFICES ASSUME IInv, RInv, NEW a \in Analyses, matches[a] \subseteq Curated,
                        NEW p \in proven[a]
                 PROVE  \E i \in Recorded(p[1]) \intersect Curated : FixOf[i] = p[2]
      BY DEF OwnFixesStayOut
    <2>1. PICK i \in Recorded(p[1]) : FixOf[i] = p[2]
      BY DEF IInv, ContextIsRecorded
    <2>2. PICK m \in matches[a] : p[1] = TypeOf[m] /\ p[1] # Unclassified
      BY DEF RInv, AsksOfMatches, Expanded
    <2>3. i \notin Analyses
      BY <2>1, <2>2 DEF Recorded
    <2> QED
      BY <2>1, <2>3 DEF Recorded, Incidents
  <1> QED
    BY <1>1, Inductive, RecallInductive, PTL
-----------------------------------------------------------------------------
(* The memory as an abstract one                                           *)

recordedBar == {i \in Incidents : \E n \in nodes : n[1] = "Incident" /\ n[2] = i}

\* What the abstract memory reads off its records is what the graph answers.
LEMMA GraphAnswers ==
  ASSUME TypeOK, GraphFits, NEW t \in Names
  PROVE  Memory!Fixes(t) = FixesOf(t) /\ Told(t) \subseteq Memory!With(t)
  <1>1. Memory!With(t) = Recorded(t)
    BY DEF Memory!With, Recorded
  <1>2. FixesOf(t) = {FixOf[i] : i \in Recorded(t)} /\ Told(t) \subseteq Recorded(t)
    BY FitIsTrue, ToldIsRecorded DEF PatternsAreTrue, GraphFits
  <1> QED
    BY <1>1, <1>2 DEF Memory!Fixes

\* Both count alike.
LEMMA SameCardinality == \A S : Memory!Cardinality(S) = Cardinality(S)
  BY DEF Memory!Cardinality, Cardinality

LEMMA MemoryInit == Init => Memory!Init
  BY DEF Init, Memory!Init

LEMMA SearchGrounds ==
  ASSUME TypeOK, ToldAfter, NEW a \in Analyses, SearchDocuments(a)
  PROVE  Memory!Ground(a)
  <1>1. pc[a] = "query" /\ UNCHANGED <<nodes, proven, siblings>>
    BY DEF SearchDocuments, stores
  <1>2. PICK hits \in SUBSET docs : \E ms \in SUBSET Kept(hits) : matches' = [matches EXCEPT ![a] = ms]
    BY DEF SearchDocuments
  <1>3. PICK ms \in SUBSET Kept(hits) : matches' = [matches EXCEPT ![a] = ms]
    BY <1>2
  <1>4. ms \in SUBSET Incidents
    BY DEF Kept, TypeOK
  <1>5. proven[a] = {} /\ siblings[a] = {}
    BY <1>1 DEF ToldAfter
  <1> QED
    BY <1>1, <1>3, <1>4, <1>5 DEF Memory!Ground

LEMMA PatternTells ==
  ASSUME TypeOK, GraphFits, AsksOfMatches,
         NEW a \in Analyses, NEW t \in pending[a], AskPattern(a, t)
  PROVE  t \in Memory!AskedAbout(a) /\ Memory!TellFixes(a, t)
  <1>1. t \in Memory!AskedAbout(a)
    BY DEF AsksOfMatches, Expanded, Memory!AskedAbout
  <1>2. Memory!Fixes(t) = FixesOf(t)
    BY GraphAnswers DEF TypeOK
  <1>3. UNCHANGED <<nodes, matches, siblings>>
    BY DEF AskPattern, stores
  <1>4. \E fs \in SUBSET FixesOf(t) :
          /\ Cardinality(fs) = Least(MaxFixes, Cardinality(FixesOf(t)))
          /\ proven' = [proven EXCEPT ![a] = @ \union ({t} \X fs)]
    BY DEF AskPattern
  <1> QED
    BY <1>1, <1>2, <1>3, <1>4, SameCardinality DEF Memory!TellFixes, Least

LEMMA HistoryTells ==
  ASSUME TypeOK, GraphFits, AsksOfMatches, NEW a \in Analyses, AskHistory(a)
  PROVE  asking[a] \in Memory!AskedAbout(a) /\ Memory!TellSiblings(a, asking[a])
  <1> DEFINE t == asking[a]
  <1>1. t \in Memory!AskedAbout(a)
    BY DEF AskHistory, AsksOfMatches, Expanded, Memory!AskedAbout
  <1>2. Others(a, t) \subseteq Memory!With(t) \ matches[a]
    BY GraphAnswers DEF TypeOK, Others
  <1>3. UNCHANGED <<nodes, matches, proven>>
    BY DEF AskHistory, stores
  <1>4. \E is \in SUBSET Others(a, t) :
          /\ Cardinality(is) <= MaxSiblings
          /\ siblings' = [siblings EXCEPT ![a] = @ \union ({t} \X is)]
    BY DEF AskHistory
  <1> QED
    BY <1>1, <1>2, <1>3, <1>4, SameCardinality DEF Memory!TellSiblings

\* A transaction records its incident, and nothing else.
LEMMA CommitRecords ==
  ASSUME TypeOK, GraphFits, NEW i \in Incidents, Commit(i)
  PROVE  Memory!Record(i)
  <1>1. /\ pc[i] = "commit" /\ nodes' = nodes \union merged[i]
        /\ UNCHANGED <<matches, proven, siblings>>
    BY DEF Commit, recalled
  <1>2. \A n \in merged[i] : n[1] = "Incident" => n[2] = i
    BY DEF GraphFits, Transactions, Fits, Own
  <1>3. \E n \in merged[i] : n[1] = "Incident"
    <2>1. "Incident" \in MergedBefore("commit")
      BY DEF MergedBefore, Kinds
    <2> QED
      BY <1>1, <2>1 DEF GraphFits, Transactions
  <1>4. recordedBar' = recordedBar \union {i}
    BY <1>1, <1>2, <1>3 DEF recordedBar
  <1> QED
    BY <1>1, <1>4 DEF Memory!Record, recordedBar

LEMMA MemoryStep ==
  ASSUME IInv, RInv, [Next]_vars
  PROVE  [Memory!Next]_(Memory!vars)
  <1> USE DEF Memory!Next, Memory!vars, stores, recalled
  <1>0. TypeOK /\ GraphFits /\ ToldAfter /\ AsksOfMatches
    BY DEF IInv, RInv
  <1>1. ASSUME UNCHANGED <<nodes, matches, proven, siblings>> PROVE UNCHANGED Memory!vars
    BY <1>1
  <1>2. CASE UNCHANGED vars
    BY <1>1, <1>2 DEF vars
  <1>3. ASSUME NEW i \in Incidents, Storing(i) PROVE [Memory!Next]_(Memory!vars)
    <2>1. CASE Commit(i)
      BY <1>0, <2>1, CommitRecords
    <2>2. CASE ~Commit(i)
      BY <1>1, <1>3, <2>2 DEF Storing, StoreDocument, MergeNode, RollBack, SeedAgain
    <2> QED
      BY <2>1, <2>2
  <1>4. ASSUME NEW a \in Analyses, Recall(a) PROVE [Memory!Next]_(Memory!vars)
    <2>1. CASE SearchDocuments(a)
      BY <1>0, <2>1, SearchGrounds
    <2>2. ASSUME NEW t \in pending[a], AskPattern(a, t) PROVE [Memory!Next]_(Memory!vars)
      BY <1>0, <2>2, PatternTells
    <2>3. CASE AskHistory(a)
      BY <1>0, <2>3, HistoryTells
    <2>4. CASE \/ LookForDocuments(a) \/ CountDocuments(a) \/ FailSearch(a)
               \/ (\E t \in pending[a] : FailPattern(a, t))
               \/ FailHistory(a) \/ EndRecall(a) \/ EndAnalysis(a)
      BY <1>1, <2>4 DEF LookForDocuments, CountDocuments, FailSearch, FailPattern, FailHistory,
                        EndRecall, EndAnalysis
    <2> QED
      BY <1>4, <2>1, <2>2, <2>3, <2>4 DEF Recall
  <1> QED
    BY <1>2, <1>3, <1>4 DEF Next

\* Overlapping transactions, doubled nodes, failures and writers in between are
\* not to be seen in what an analysis is told: it is what a memory tells that
\* records incidents at once.
THEOREM ImplementsRecordedMemory == Spec => AnswersAsRecorded
  <1>1. IInv /\ RInv /\ [Next]_vars => [Memory!Next]_(Memory!vars)
    BY MemoryStep
  <1> QED
    BY <1>1, MemoryInit, Inductive, RecallInductive, PTL
    DEF Spec, AnswersAsRecorded, Memory!Spec
=============================================================================
