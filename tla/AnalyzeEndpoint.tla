--------------------------- MODULE AnalyzeEndpoint ---------------------------
(***************************************************************************)
(* POST /api/ai/analyze (aeon/backend/api/ai.py) over run_graph            *)
(* (agents/graph.py), the agent's loop itself being module AgentLoop.      *)
(*                                                                         *)
(* A result is a Python dict, held by reference.  A live run makes its     *)
(* own; a failed one gets a copy of the module-level _MOCK_RESULT; without *)
(* a provider every request gets _MOCK_RESULT itself, and the endpoint     *)
(* writes "incident_id" and "actions" into whatever it holds.  Requests    *)
(* interleave at the awaits.                                               *)
(***************************************************************************)
CONSTANTS Requests,    \* POST /api/ai/analyze requests
          None         \* nothing there

Mock == "_MOCK_RESULT"
ASSUME MockAssumption == Mock \notin Requests \union {None}

\* The dict a request makes, or the shared one.
Objects == Requests \union {Mock}

\* "ai_..." is the endpoint's id for a request, "aeon_..." the memory writer's.
Ids == {"ai", "aeon"} \X Requests
ASSUME NoneAssumption == None \notin Requests \union Ids

Stores == {"chroma", "neo4j"}
NoAnswer == [id |-> None, actions |-> None]

VARIABLES
  live,       \* whether a provider is configured, for the life of the process
  pc,         \* where each request is: what it awaits
  want,       \* the store_result and auto_execute each comes with
  holds,      \* the dict it got from the agent
  found,      \* whether that has a root cause
  incident,   \* its local incident_id
  idOf,       \* "incident_id" of each dict, or None
  actionsOf,  \* whose "actions" each dict has, or None
  stored,     \* incidents each store has been called with and returned
  answer      \* what the response showed when it was serialised

given == <<live, want>>
dicts == <<idOf, actionsOf>>
vars == <<given, pc, holds, found, incident, dicts, stored, answer>>

Wants == [store : BOOLEAN, execute : BOOLEAN]

TypeOK ==
  /\ live \in BOOLEAN
  /\ pc \in [Requests -> {"idle", "agent", "chroma", "neo4j", "actions", "done"}]
  /\ want \in [Requests -> Wants]
  /\ holds \in [Requests -> Objects \union {None}]
  /\ found \in [Requests -> BOOLEAN]
  /\ incident \in [Requests -> Ids \union {None}]
  /\ idOf \in [Objects -> Ids \union {None}]
  /\ actionsOf \in [Objects -> Requests \union {None}]
  /\ stored \subseteq Stores \X Ids
  /\ answer \in [Requests -> [id : Ids \union {None}, actions : Requests \union {None}]]

Init ==
  /\ live \in BOOLEAN
  /\ pc = [r \in Requests |-> "idle"]
  /\ want \in [Requests -> Wants]
  /\ holds = [r \in Requests |-> None]
  /\ found = [r \in Requests |-> FALSE]
  /\ incident = [r \in Requests |-> None]
  /\ idOf = [o \in Objects |-> None]
  /\ actionsOf = [o \in Objects |-> None]
  /\ stored = {}
  /\ answer = [r \in Requests |-> NoAnswer]

-----------------------------------------------------------------------------
\* The response is serialised as the handler returns it, with no await between.
Answer(r) ==
  /\ pc' = [pc EXCEPT ![r] = "done"]
  /\ answer' = [answer EXCEPT ![r] = [id |-> idOf'[holds'[r]], actions |-> actionsOf'[holds'[r]]]]

ExecuteOrAnswer(r) ==
  IF want[r].execute
    THEN pc' = [pc EXCEPT ![r] = "actions"] /\ UNCHANGED answer
    ELSE Answer(r)

\* The run has given o, which carries an id or not; no await up to the stores.
\* What the run itself has stored is in byRun.
GotResult(r, o, hasCause, byRun) ==
  LET id == IF idOf'[o] = None THEN <<"ai", r>> ELSE idOf'[o] IN
  /\ holds' = [holds EXCEPT ![r] = o]
  /\ found' = [found EXCEPT ![r] = hasCause]
  /\ incident' = [incident EXCEPT ![r] = id]
  /\ stored' = stored \union byRun
  /\ UNCHANGED given
  /\ IF want[r].store /\ hasCause /\ idOf'[o] = None
       THEN pc' = [pc EXCEPT ![r] = "chroma"] /\ UNCHANGED answer
       ELSE ExecuteOrAnswer(r)

\* Without a provider run_graph returns _MOCK_RESULT itself, at once.
AnalyzeMock(r) ==
  /\ ~live /\ pc[r] = "idle"
  /\ UNCHANGED dicts
  /\ GotResult(r, Mock, TRUE, {})

AnalyzeLive(r) ==
  /\ live /\ pc[r] = "idle"
  /\ pc' = [pc EXCEPT ![r] = "agent"]
  /\ UNCHANGED <<given, holds, found, incident, dicts, stored, answer>>

\* The run ends with a result of its own.  memory_writer has stored it, under
\* an id the result does not carry, if it has a root cause and a fix.
RunEnds(r, hasCause, hasFix) ==
  /\ pc[r] = "agent"
  /\ UNCHANGED dicts
  /\ GotResult(r, r, hasCause,
               IF hasCause /\ hasFix THEN Stores \X {<<"aeon", r>>} ELSE {})

\* Faulty variant: the result of a failed run is not a copy.
RunRaisesShared(r) ==
  /\ pc[r] = "agent"
  /\ UNCHANGED dicts
  /\ GotResult(r, Mock, TRUE, {})

\* The run raises: the result is a copy of _MOCK_RESULT, root cause and all,
\* and of whatever has been written into it.
RunRaises(r) ==
  /\ pc[r] = "agent"
  /\ idOf' = [idOf EXCEPT ![r] = idOf[Mock]]
  /\ actionsOf' = [actionsOf EXCEPT ![r] = actionsOf[Mock]]
  /\ GotResult(r, r, TRUE, {})

Store(store, r) == stored' = stored \union {<<store, incident[r]>>}

\* Faulty variant: the id goes into the result between the two stores.
ChromaReturnedWithId(r) ==
  /\ pc[r] = "chroma"
  /\ pc' = [pc EXCEPT ![r] = "neo4j"]
  /\ Store("chroma", r)
  /\ idOf' = [idOf EXCEPT ![holds[r]] = incident[r]]
  /\ UNCHANGED <<given, holds, found, incident, actionsOf, answer>>

\* What the stores answer is not looked at.
ChromaReturned(r) ==
  /\ pc[r] = "chroma"
  /\ pc' = [pc EXCEPT ![r] = "neo4j"]
  /\ Store("chroma", r)
  /\ UNCHANGED <<given, holds, found, incident, dicts, answer>>

Neo4jReturned(r) ==
  /\ pc[r] = "neo4j"
  /\ Store("neo4j", r)
  /\ idOf' = [idOf EXCEPT ![holds[r]] = incident[r]]
  /\ UNCHANGED <<given, holds, found, incident, actionsOf>>
  /\ ExecuteOrAnswer(r)

\* Faulty variant: the incident's id where the actions should be.
ActionsReturnedIncident(r) ==
  /\ pc[r] = "actions"
  /\ actionsOf' = [actionsOf EXCEPT ![holds[r]] = incident[r]]
  /\ UNCHANGED <<given, holds, found, incident, idOf, stored>>
  /\ Answer(r)

\* execute_actions was called with the local incident_id (ActionExecutor).
ActionsReturned(r) ==
  /\ pc[r] = "actions"
  /\ actionsOf' = [actionsOf EXCEPT ![holds[r]] = r]
  /\ UNCHANGED <<given, holds, found, incident, idOf, stored>>
  /\ Answer(r)

-----------------------------------------------------------------------------
Handling(r) ==
  \/ AnalyzeMock(r)
  \/ AnalyzeLive(r)
  \/ \E hasCause, hasFix \in BOOLEAN : RunEnds(r, hasCause, hasFix)
  \/ RunRaises(r)
  \/ ChromaReturned(r)
  \/ Neo4jReturned(r)
  \/ ActionsReturned(r)

Next == \E r \in Requests : Handling(r)

Spec == Init /\ [][Next]_vars

-----------------------------------------------------------------------------
(* Properties                                                              *)

\* With a provider, a response is about its own request: the incident id is
\* the one its own analysis was stored under, and the actions are those it
\* asked for, executed for that incident; nothing of a request that ran at
\* the same time, or before and failed.
AnswersAreOwn ==
  live => \A r \in Requests :
    LET a == answer[r] IN
    /\ a.id # None => /\ a.id = incident[r] /\ a.id[2] = r
                      /\ want[r].store
    /\ a.actions # None => a.actions = r /\ want[r].execute

\* An incident id in a response names an incident both stores have been
\* called with, whichever request did that: the id a user sees, and the next
\* /actions/execute quotes, is not ahead of the memory.
AnsweredIdsAreStored ==
  \A r \in Requests :
    answer[r].id # None => \A s \in Stores : <<s, answer[r].id>> \in stored

\* "Every analysis is automatically written back to ChromaDB + Neo4j"
\* (README.md): a request that asks for storing and has a root cause is
\* answered once both stores have been called with it.
EveryAnalysisIsStored ==
  \A r \in Requests :
    pc[r] = "done" /\ want[r].store /\ found[r] =>
      \E kind \in {"ai", "aeon"} : Stores \X {<<kind, r>>} \subseteq stored
=============================================================================
