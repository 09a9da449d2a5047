# A TLA+ model of Aeon and of the research and chat runs it is shipped with

Aeon (`aeon/`) is an engineering-operations workspace: a FastAPI backend, a React
front end, an incident memory in ChromaDB and Neo4j, and a LangGraph agent that
investigates CI/CD failures and proposes actions. The repository carries a second
product, Odysseus (`odysseus-setup/`), whose research queue and detached chat runs are
the most concurrent code in it. This directory holds TLA+ modules of their control flow, TLC configurations that check them on small
instances, and TLAPS proofs of the main results for every instance. Paths below
are relative to the repository root.

## 1. Inventory

| Part | Where | State it keeps | Operations |
|---|---|---|---|
| Action executor | `aeon/backend/agents/action_executor.py`, `api/actions.py` | `PENDING_ACTIONS`, a dict in process memory; requests suspended on GitHub, n8n, Jenkins | execute, approve, reject, list, trigger-rebuild |
| Agent loop | `aeon/backend/agents/graph.py`, `orchestrator.py` | `AgentState` of one run: messages, iteration, matches, result, events | search_memory, call_claude, execute_tools, synthesize, memory_writer; run and stream |
| Analysis endpoints | `aeon/backend/api/ai.py` | the module-level mock result dict that runs share | analyze, stream, research stream, postmortem |
| LLM layer | `aeon/backend/core/llm.py` | environment only | provider choice, complete, run_turn, message translation |
| Neo4j store | `aeon/backend/memory/neo4j_store.py` | `driver`, `_last_connect_attempt`; the incident and provenance graphs | connect, ensure_driver, store_incident, queries, provenance cache |
| Chroma store | `aeon/backend/memory/chroma_store.py` | `collection`; the documents | connect, upsert, query, list, count |
| Retrieval | `aeon/backend/services/rerank.py`, `graphrag.py` | none | recall, rerank, graph expansion |
| Incident and memory API | `aeon/backend/api/incidents.py`, `api/memory.py` | none of their own; write both stores | create, search, seed, status |
| Pipeline ingestion | `aeon/backend/api/pipelines.py` | `_INGESTED`, a list of at most 100 events | ingest, list, get |
| Provenance | `aeon/backend/services/provenance_service.py`, `api/provenance.py` | graph under construction; the cache in Neo4j | trace, cache, replay |
| Blast radius, co-change | `aeon/backend/services/blast_radius_service.py`, `cochange_service.py` | none | classify, infer, stream |
| Service clients | `aeon/backend/services/{github,jenkins,n8n,odysseus}_service.py` | cached GitHub login | HTTP calls that answer or report an error |
| Front end | `aeon/frontend/src` | React component state, `EventSource` streams | ask, execute, approve, reject, browse |
| Database models | `aeon/backend/database` | PostgreSQL tables | none: no route uses them |
| Setup scripts | `jenkins-setup`, `n8n-setup`, `github-actions-setup` | external services' configuration | seed jobs and workflows |
| Odysseus: research jobs | `odysseus-setup/static/js/research/jobs.js`, `panel.js`; `src/research_handler.py`, `routes/research_routes.py` | the cards in `_jobs`, event streams, polling loops, dismissed ids in `localStorage`; the service's tasks in memory and reports on disk | queue, start, start all in turn, cancel, retry, remove, clear; follow, reconnect |
| Odysseus: detached chat runs | `odysseus-setup/src/agent_runs.py`, `routes/chat_routes.py` | `_RUNS`: per session a run with its task, event buffer, subscriber queues and eviction timer | start, subscribe, stop, evict |
| Odysseus: chat client | `odysseus-setup/static/js/chat.js` | the state of the chat page: streams, holders, timers | send, stop, switch, resume |
| Odysseus: the rest | `odysseus-setup` | documents, mail, notes, settings and more | a product of its own, reached by Aeon over HTTP only |

How they interact. The front end talks to the FastAPI routes by HTTP requests and
by two `EventSource` streams. `api/ai.py` runs the agent loop and then, on request,
the action executor; `api/actions.py` runs the executor alone. The agent's tools,
the executor and the read-only routes share one set of service clients and one pair
of stores (`core/instances.py`). n8n, Jenkins and GitHub Actions call
`/pipelines/ingest`. Everything runs in one process and one asyncio event loop:
a handler is undisturbed between two `await`s, except that every call of the Neo4j
and Chroma stores runs in a worker thread (`asyncio.to_thread`), where threads
interleave at every statement. Nothing in the backend survives a restart except what
Neo4j and ChromaDB hold.

The incident memory is where most of Aeon meets: seeding, the incident API, pipeline
ingestion and every analysis write it, and every analysis reads it before it asks the
model. In Odysseus the panel's cards talk to the research service by `fetch` and
`EventSource`; the chat page starts a run with a POST, reads its events from the
answer, and may leave and subscribe again, while the run goes on by itself.

### What is hard about it

- Handlers suspended on a service while another handler changes the same entry of
  `PENDING_ACTIONS`, or the same dict.
- Services that act and whose answer is lost or late: each client turns every
  exception, timeouts included, into `{"error": ...}`.
- A restart between the claim of an action and the pull request.
- Threads that share `self.driver` and the time of the last attempt without a lock.
- A model that may ask for any tool, known or not, any number of times, under two
  limits that do not know of each other (the code's and LangGraph's).
- A client that leaves in the middle of a stream.
- Statements that each commit by themselves, with readers and other writers between.
- Neo4j's `MERGE` without uniqueness constraints: overlapping transactions that both
  find a node missing both create it.
- Write-backs of the agent in the memory it is grounded on.
- Answers to polls, streams and requests that arrive after the card they are for has
  been cancelled, retried, cleared or given another session.
- A log that is replayed to a reader while it is being written, replaced or evicted, and
  tasks that are cancelled wherever they happen to wait.

### What makes each part correct

| Part | Correct when |
|---|---|
| Action executor | a proposal is decided once, by a human; it leads to at most one pull request, whose rebuild follows it; nobody is told of an effect that did not happen; an approval settles |
| Agent loop | the history can always be replayed; the loop ends; every effect is owned up to; the stream is ordered, ends, and tells the truth about the stores |
| Analysis endpoint | an answer is about its own request; an analysis is stored, and named only once it is stored |
| Neo4j connection | the driver in use has been verified or is about to be; the store heals after an outage; no call hangs; attempts are throttled |
| Provenance cache | what was stored whole is replayed, but for what other files have taken over; nothing of another file comes in except at a node the two share |
| Incident memory, retrieval | what an error type is said to have is what was recorded, each incident counted once; what a prompt is told was recorded; write-backs are not what an analysis grounds on |
| Research jobs | a running card learns of the end; done means the research ended with a report; what was cleared stays away; the sequential loop goes on, one session at a time |
| Detached chat runs | a reader misses nothing and gets the end; a run stays while it is used and goes when it is not; runs of a session do not write it together |
| Front end | what is shown is so; a decision can be made once and, when it failed, made again |
| LLM layer | the provider reported is the provider that serves |
| Pipeline ingestion | what is answered as indexed can be found |
| Provenance trace, blast radius, co-change | the graph is closed under its edges; classification and ranking agree with their definition |

## 2. Modules and the code

`X.tla` models a component, `MCX.tla` holds the values of its small instances,
`X_<run>.cfg` are the runs, `XProofs.tla` the theorems. Definitions under a comment
"Faulty variant" stand for plausible bugs: each is used in place of the definition
it is a variant of to see that a property notices; no action of `Next` uses them.

### HumanApproval and ActionExecutor

`HumanApproval` is the promise without the program: proposals are `none`,
`proposed`, `approved` or `declined`; only an approved one may be opened, once, and
rebuilt after that, once.

`ActionExecutor` is `action_executor.py` behind `api/actions.py`, cut at the awaits.

| In the module | In the code |
|---|---|
| `Execute`, `IssueReturned`, `NotifyReturned` | `execute_actions` up to the issue, up to the n8n call, and the rest |
| `ApproveRefused`, `ApproveClaims` | `approve_action` up to `create_pr`: refusals, and the claim of a pending entry |
| `PullRequestCreated`, `PullRequestFailed`, `BuildReturned` | the rest, after each await |
| `Reject` | `reject_action`, which has no await and no test of the status |
| `TriggerRebuild`, `RebuildReturned` | the manual rebuild |
| `Accept`, `Refuse` | a service performing or refusing a request (external) |
| `Restart` | the process dying: entries and suspended handlers go, requests on the wire do not |
| `status`, `body` | `PENDING_ACTIONS`: an entry's status; the fields of the request that branches look at |
| `inTransit`, `accepted`, `refused` | requests under way, performed and answered with an error |

A client call may report success only for a performed request (`MayReturn`), and may
report an error at any time: so a timeout and a late effect are both there. n8n's
client reports a 404 as triggered (`NotifyMayReturn`), as its code says.
An action's id is a fresh uuid per `/execute`, so the request stands for it.

### AgentLoop

`AgentLoop` is one run of the graph of `agents/graph.py` under the streams of
`api/ai.py`. `node` is the node that runs, or what the stream does around the graph;
`steps` counts LangGraph's supersteps against `RecursionLimit`.

| In the module | In the code |
|---|---|
| `SearchMemory`, `CallClaude`, `AnswerTools`, `Synthesize`, `SkipWriting`/`WriteChroma`/`WriteNeo4j` | the five nodes; stores one await at a time |
| `UnknownTool`, `StartCall`, `EndCall`, `ListCall` | one tool call of `execute_tools_node`: an unknown name, the request, its return or exception, and the append to the list and the results that follows both |
| `TakeEffect` | a service doing what it was asked, in time, after the call was given up, or never (external) |
| `listed`, `taken`, `owned` | `actions_taken` on its way: the node's own list, lost unless the node returns; the state's; the result's |
| `requested`, `performed` | changes asked of services, and those that have happened |
| `CallClaudeRaises`, `SynthesizeRaises`, `ReportError` | exceptions of a node, caught by `stream_graph` |
| `StartMock` | the stream without a provider |
| `StartActions`, `FinishActions`, `CloseStream` | `stream_analysis` after the graph |
| `Disconnect` | the client leaves and the run is cancelled where it stands (external) |
| `Turns` | everything `run_turn` may return: any tools, any stop reason, and text as `synthesize_node` tells it apart (`Answers`) |
| `shown` | the events the client got, without the progress chatter |
| `Reports` | the event `memory_written` by what it says: "Nothing to store.", or "Stored as <id>" with the flag `stored` true or false |

### AnalyzeEndpoint

`AnalyzeEndpoint` is `POST /ai/analyze` for many requests at once, over `run_graph`.
A result dict is an object: `holds` says which one a request has, `idOf` and
`actionsOf` what has been written into each. `AnalyzeMock` hands out
`_MOCK_RESULT` itself, `RunRaises` a copy, `RunEnds` a dict of the run's own;
`ChromaReturned`, `Neo4jReturned` and `ActionsReturned` are the awaits of the
endpoint.

### Neo4jConnection

`Neo4jConnection` is `_connect`, `_ensure_driver` and the calls of the store, one
action per statement that touches the shared fields, for any number of threads. A
driver is named for the thread that made it. `age` is the time since the last
attempt, up to the cooldown. `flawed` marks exchanges with Neo4j that met an outage:
only these may fail. `Init` is after `__init__`, which has connected or not.

### ProvenanceCache

`ProvenanceCache` is the part of `api/provenance.py` and `neo4j_store.py` that stores
a traced graph, one `MERGE` per node and per edge, and replays it with two queries.
Files share nodes: the ids of commits, pull requests, issues and developers
(`provenance_service.py:407-474`) name no file and no repository. A node in Neo4j is its
id and the trace that made it, since a `MERGE` that looked (`BeginMerge`) before another
committed (`CommitMerge`) makes a second node of the id. `owner` is the one `file_path` a
node carries, which every `MERGE` sets anew; `whole` the files some task stored to the
end; `due` whether a replay's file was whole when the replay began. `Contended` are a
file's nodes that another traced file has too, `Foreign` those that a traced file of
another repository has. Each file has one graph, the same in every trace.

### RecordedMemory and IncidentMemory

`RecordedMemory` is the memory without documents, nodes or transactions: an incident is
recorded at once and for good, and an analysis, once it has its matches, is told of each
of their error types as many fixes of recorded incidents as the limit lets through, and
siblings that are recorded and not among the matches. `IncidentMemory` implements it
under the mapping `Memory` (`AnswersAsRecorded`): recorded is what the graph's
transactions have committed.

`IncidentMemory` is what the two stores hold of incidents, who writes it and how an
analysis recalls it. A node of the graph is its kind, its name and the incident whose
transaction created it, so that a name may have two nodes.

| In the module | In the code |
|---|---|
| `StoreDocument` | `ChromaStore.store_incident`, done, failed or skipped; a document without a graph is also what `/pipelines/ingest` writes |
| `MergeNode` | one `MERGE` of a node in `Neo4jStore.store_incident`: all committed nodes of the name are matched, or one is created |
| `Commit`, `RollBack` | the end of the transaction: the edges between everything matched, or nothing |
| `SeedAgain` | `POST /memory/seed`, any number of times |
| `LookForDocuments`, `CountDocuments`, `SearchDocuments`, `FailSearch` | `search_similar`: two counts, then the query, each an await of its own, and the filter of `recall` |
| `AskPattern`, `AskHistory`, `FailPattern`, `FailHistory` | `find_similar_errors` and `get_error_fix_history` for each error type of the matches, as `graphrag.py` asks them |
| `EndAnalysis` | the analysis that becomes a write-back: `memory_writer_node` |

An incident has one writer at a time: each analysis makes an id of its own, and
seeding is pressed again after it has answered. Any documents may be the nearest.

### ResearchJobs

`ResearchJobs` is the panel's queue against the service. A card is one job object,
which may lose its place in `_jobs` and still be held by a request, a stream, a poll or
the loop: `jobs` are those listed, the other variables say who holds what.

| In the module | In the code |
|---|---|
| `AddToQueue`, `StartJob`, `StartQueued`, `RetryJob`, `CancelJob`, `RemoveJob`, `ClearAll` | what the user does on the cards |
| `BeginSequential`, `LaunchNext`, `TurnOver` | `startAllQueuedSequential`: the list it took, one card at a time, until the card stops running; nothing keeps a second call (`Loops`) from starting beside the first |
| `Launched`, `LaunchRefused`, `LaunchLost` | what follows the POST to `/start` |
| `StreamFinal`, `StreamError`, `StreamNotFound` | the event stream: its final event, and `onerror`, for a connection that breaks and for the 404 of a session the service has lost |
| `PollWakes`, `PollAnswered`, `PollFails` | one round of `_pollFallback` |
| `CancelArrives`, `Cancelled` | the POST to `/cancel` |
| `ReadActive`, `AdoptActive`, `ReadLibrary`, `AdoptLibrary`, `ReconnectFails` | the awaits of `_reconnectActive` |
| `Reload` | the page anew: only `dismissed` stays |
| `Started`, `Refused`, `TaskEnds`, `Restart` | the service: tasks in memory, reports on disk |

A task is done before its report is saved, and the save may come to nothing, so
`reported` (sessions that ended with a report, a history variable) is not `disk`.
`MaxClicks` bounds what the user does, `MaxTroubles` the reloads, restarts and lost
requests.

### RunLog and DetachedRuns

`RunLog` is what a detached run promises its readers: each run has one log that grows
until it is closed, a reader is given it event by event from the first on, whenever he
comes, and is dismissed only with the whole of a closed log. `DetachedRuns` implements it
under the mapping `Log` (`DeliversLog`): a log is closed when the run's status says so, a
reader is in place (`Place`) from his registration to the end of his generator, and
replay and queue deliver alike.

`DetachedRuns` is one entry of `_RUNS`, as sessions share nothing. Every action runs to
the next await of one coroutine. An event is its place in the buffer.

| In the module | In the code |
|---|---|
| `Post`, `Resume`, `Stop` | `/chat_stream` (which starts a run and replaces the one before), `/chat/resume`, `/chat/stop` |
| `Begin`, `PrevOver`, `Publish`, `Finish`, `Fail`, `Cancel`, `Saved` | `_drain`: it waits for the run it replaced, passes on the generator's events, and ends one way or another |
| `Evict` | the timer of `_schedule_evict` |
| `Subscribe`, `Replay`, `Replayed`, `Take`, `Ends`, `Leave` | `subscribe`: registration, replay of the buffer, the queue, and the `finally` |

A cancelled generator may go on for a while to save its partial answer (`Saved`), as
`chat_routes.py` does in its own `finally`.

## 3. Runs

| Run | Instance | Shows |
|---|---|---|
| `executor` | one proposal of four bodies on both sides of the threshold, two approvals, a manual rebuild; fairness | effects are warranted and truthfully reported, at most one pull request, decisions are final, `HumanApproval` is implemented, approvals settle |
| `agent` | limits 2 and 3, superstep limit 7, up to two calls of three tools a turn; fairness | the history can be replayed, a shown result owns up to every change, the `stored` flag is true, order and end of the stream |
| `agent_pull_request` | one tool | **violated**: `create_github_pr` opens a pull request unasked |
| `neo4j` | two calls again and again, cooldown of two ticks; fairness | the driver is vouched for, the store heals, calls return |
| `analyze` | three requests of every kind, with and without a provider | answers are their own; named incidents are stored |
| `memory` | a seeded incident and two analyses of the same error type | the graph counts truly whatever it doubles, `RecordedMemory` is implemented, write-backs come in only by crowding |
| `memory_own_fixes` | the same | **violated**: an analysis is told as proven a fix only write-backs have |
| `provenance_replays` | two traces and a replay of three files: two share a commit, all a developer | of a graph stored to the end everything is replayed that no other traced file shares; foreign edges come in at shared nodes only |
| `research_cards` | two cards, two sessions, two sequential loops, a poll of the active ones, three clicks, one trouble | running cards are watched, done cards followed a task that ended with a report, what was cleared for good stays away |
| `research_settles` | two cards, two sessions, two sequential loops, three clicks, one trouble; fairness | a running card settles, the sequential loops go on |
| `detached_replay` | two runs, two clients, one event, one Stop; fairness | `RunLog` is implemented, runs write one at a time unless one was cut short, an end wakes who waits, timers are armed and harmless, readers end |
| `detached_wakes` | three runs, three clients, one event, one Stop | **violated**: a drain cancelled while it waits, or before it begins, ends without waking its readers |

Why these bounds are enough to be worth looking at:

- *Executor.* Entries of `PENDING_ACTIONS` never look at each other, so what can go
  wrong takes several handlers on one entry: two approvals, any number of rejections
  and restarts, and a late service. `Requests`, `Approvals` and `Rebuilds` are used
  once each; the theorems cover any number of them.
- *Agent.* Limits 2 and 3 let either mode end by itself, by its limit, and with a
  superstep limit of 7 (three rounds need 8) by LangGraph's. Three names are a tool
  that reads, one that acts and one that does not exist; two calls a turn mix them.
- *Neo4j.* Calls repeat for ever, so two threads already meet in every pair of
  statements, and a cooldown of two has an age strictly inside it. The theorems cover
  any number of calls.
- *Analysis.* Two requests suffice for one to write into another's dict, a third to
  read it.
- *Memory.* Three writers whose transactions overlap double every shared kind of node;
  two write-backs fill a search for two documents, which is the smallest crowding. The
  limits 2, 1, 1, 1, 2 stand for 10, 3, 2, 4 and 10. The theorems cover any.
- *Provenance.* Two tasks store the same file, two files that share a commit and a
  developer, or files of two repositories that share a developer; their MERGEs overlap
  and double any shared node. What a third task adds is one more owner; three are too
  many states, and the theorems cover any number.
- *Research.* Two sequential loops take the same queued cards. Two sessions let a card have one after another (retry, second Start) and
  two cards have the same one (adoption beside a launch). Three clicks are a start, a
  cancel or clear, and a retry or the sequential loop; one trouble is a reload, a
  restart or a lost request anywhere. Polls multiply the safety instance and are left
  out of the fair one: they add cards, and change none.
- *Detached runs.* Two runs are one and the one that replaces it, two clients one that
  posted and one that resumed; one event and the two of a failure make a buffer that is
  read in part. `detached_wakes` has three of each and needs fewer: one run that is
  stopped before it begins, or a second POST and a Stop.

`CHECK_DEADLOCK FALSE` is in the runs of `AnalyzeEndpoint`, `ProvenanceCache`,
`ResearchJobs` and `DetachedRuns`, where requests, clicks and runs are used up and the
instance ends with the last.

Nine more configurations reproduce single disagreements of section 6 and are not in the
list of runs: `ActionExecutor_reject`, `AgentLoop_research`, `AgentLoop_stored_as`,
`Neo4jConnection_throttle`, `AnalyzeEndpoint_stored`, `ProvenanceCache_shared`,
`DetachedRuns_saves`, `ResearchJobs_one_at_a_time` and `ResearchJobs_clear`. TLC finds each violated within
seconds.

## 4. Fairness

- Executor: a handler goes on once its call has returned, and it returns, since every
  client has a timeout of 5 to 10 s and catches everything. Services, users and
  restarts owe nothing.
- Agent: the same, for the whole of one run. LLM clients have their libraries'
  timeouts; the tools those of the service clients. Nobody has to leave.
- Neo4j: threads are scheduled, exchanges with Neo4j end in success or failure, time
  passes. That calls keep coming, and that Neo4j stays up from some time on, are
  hypotheses of `SelfHeals` and not fairness.
- Research: timers fire, open connections deliver, requests are answered or lost, and the
  handler's `hard_timeout` ends every task: 1800 s by default. A setting of 0 disables it
  (`research_handler.py:280-281`); `RunningSettles` and `BatchMoves` say nothing of a
  service run that way. Nothing is asked of the user, of polls for
  active sessions, or of troubles.
- Detached runs: the event loop runs every step that is ready, and clients that have
  not left go on reading. Nobody has to press Stop or post.
- Analysis, memory, provenance: no fairness, safety only.

## 5. Theorems

TLAPS checks the theorems below for every value of the constants; the assumptions are
the ASSUMEs of the modules: names that are meant to differ do, limits are
positive, bodies are of the type `ExecuteRequest` has. Each rests on an inductive
invariant and one lemma per action or group of actions.

- **ActionExecutorProofs.** The properties say nothing of where an entry of
  `PENDING_ACTIONS` comes from; `IInv` does: an entry is made by the last step of a
  warranted request (`EntriesAreWarranted`), so a claimed id never becomes pending
  again (`ClaimsAreFinal`) and its claim is the only one (`ClaimsAreUnique`); requests
  on the wire come from claims (`SentByClaims`), and settled statuses too
  (`SettledByClaims`). Without these the uniqueness of pull requests is not inductive:
  a second approval could be waiting for the same entry. `DecisionsAreFinal` and
  `ImplementsHumanApproval` follow step by step; the refinement sends a claimed entry
  to `approved` whatever its status says now, so a rejection after the claim is a
  stutter, and a restart forgets only what nobody had claimed. `RebuildsAreOrdered` and
  `ApprovedIsInHand` are proved and in no run: a rebuild follows its pull request, and
  an entry that says approved has a handler at work on it.
- **AgentLoopProofs.** `Progress` relates superstep, iteration and node, which bounds
  the loop (`BoundedForAnyLimits`, in no run); `ToolsInOrder` says that the tool calls
  without an answer are the last turn's and those already run have a result, which
  gives replayability; `Story` and `Writing` say at which nodes which events are out,
  which gives the order and the truth of the reports. `Accounts` says where a change that
  was asked for is written down at each node: by the call that is going on, in the node's
  list, in the state's, in the result's. A change is listed after its call, whether that
  returned or raised, and may happen long after: `EffectsAreOwnedUpTo` follows because it
  was asked for first. `CallsHalfTheSupersteps` sets LangGraph's limit against the
  loop's: a run makes at most half as many model calls as it may make supersteps.
- **Neo4jConnectionProofs.** `DriverIsVouchedFor` is nearly inductive: it needs that a
  thread waiting for a verification has a driver it asked.
- **AnalyzeEndpointProofs.** `Backed` (what a dict carries as its id is stored, and a
  request waiting for Neo4j has been through Chroma) gives `IdsComeAfterStores`, also
  for the shared dict; `MockIsClean` and `DictsAreOwn` (with a provider nobody writes
  into `_MOCK_RESULT`) give `NoCrossTalk`. With a provider, too, a dict comes back from
  the agent without an id, so that nothing takes a request past the stores but its own
  wish or a missing root cause: `LiveAnalysesAreStored`, in no run, is the promise that
  `AnalyzeEndpoint_stored` breaks without a provider.
- **IncidentMemoryProofs.** The invariant says which nodes a transaction may hold
  (`Transactions`), that committed nodes and edges come from such transactions
  (`NodesFit`, `EdgesFit`) and that a recorded incident has its edges (`Complete`).
  Pipelines, error types and fixes may have two nodes; an incident's is its own
  transaction's alone, which is why counting `DISTINCT i` stays right (`PatternsHold`).
  `ContextHolds` adds that the graph only grows. `ImplementsRecordedMemory` goes step by
  step: a commit is the only step that records, and as a query's answer is read off
  edges that are complete, limits count the same fixes in the graph and in the record
  (`SameCardinality`). `CrowdingHolds` (an analysis recalls a write-back only if there are
  as many as documents were asked for) counts a set that grows while it is searched: it
  rests on documents never going away between the counts and the query.
  `OwnFixesStayOutApart` gives the condition under which the promise of
  `memory_own_fixes` does hold: write-backs that share no error type with what people
  recorded, `Unclassified` aside.
- **ProvenanceCacheProofs.** For any files, whatever they share. `Owned` and `Linked` say
  that a node carries a file some task stored whose graph has it, and that an edge is of
  such a graph; `Stores` and `Whole` say what a task has still to write: the rest is in
  Neo4j, in one node or several, whoever owns it. Nothing is ever taken out (`Grows`,
  `Monotone`), so a graph stored to the end stays in Neo4j, and what hides part of it from
  a replay is another owner. `StoredGraphsReplay` and `RepliesAreOwn` then say which nodes
  and edges that can be: those with a `Contended` source, or a target that is `Foreign`.
- **ResearchJobsProofs.** Types already need `HasSession`: a card that runs, is done or
  is followed has a session, although cards are launched before they have one.
  `RunningIsWatched`, `DoneIsFinished` and `ClearingIsFinal` add where an answer on its
  way may have come from: a stream or a poll that says done is of a session the card
  has followed and whose task ended with a report, saved or not; a session cleared for good is in no answer.
- **DetachedRunsProofs.** `Seam` is the heart: what a subscriber's queue holds is the tail of
  the buffer, and continues what it has been given without a gap; the sentinel is last
  and comes only after the status. `EventsInOrder` and `EndedIsComplete` follow.
  `ImplementsRunLog` is the same seam seen from the log: each delivery is the next
  event, and who is dismissed has them all.
  `Settled` and `PrevStarted` give `ReplacedIsOver`, `EvictionIsArmed` is inductive
  with them, and `UsedIsKept` follows step by step. `EndReachesReaders` says that no
  reader waits at an empty queue for a run whose status says it has ended; a drain that
  was cancelled before its generator began (`CutShort`) ends without a status, and
  `detached_wakes` is about those. `SavesAreSequential`
  needs a strengthening that ranges over all runs (`Line`): as long as no drain was cut
  short, the runs that are not over stand in line, each waiting for the
  one it replaced, and only the first of them writes.

Properties that are theorems and in no run: `RebuildFollowsPullRequest`,
`ApprovedHasOwner`, `LoopIsBounded`, `CallsFitSupersteps`, `ContextIsRecorded`,
`NothingMissed`, `EndedHasAll`, `WaitsForReplaced`; the last four follow from a
refinement or an invariant that a run does check, or come with its proof.
Promises that the code does not keep as it stands are theorems under the condition that
separates the cases: `OwnFixesStayOutApart` and `LiveAnalysesAreStored`.

Only model-checked: the liveness properties (`ApprovalSettles`, `StreamEnds`,
`SelfHeals`, `CallsReturn`, `RunningSettles`, `BatchMoves`, `ReadersEnd`), as temporal
reasoning under fairness is out of the prover's reach. Every invariant and every other
action property or refinement of a passing run is proved.

## 6. What the code does that its documents do not say

The three runs marked violated above come with the quotation they contradict, in
`PROJECT.json`. A configuration beside the list reproduces each of these:

- `ActionExecutor_reject`: `reject_action` (`action_executor.py:307`) rejects whatever
  the status, while `api/actions.py:8` speaks of a pending action. A completed action
  then reads rejected.
- `AgentLoop_research`: a research run that keeps calling tools is cut off in its
  twelfth round by LangGraph's default of 25 supersteps (`graph.py:921`), not at the
  15 of `README.md:230`. The 25 is the library's and not in the repository;
  `CallsHalfTheSupersteps` makes that 12 calls at most.
- `AgentLoop_stored_as`: `memory_written` says "Stored as <id>" also when both stores have
  refused (`graph.py:650-655`); only its flag `stored` tells. The flag itself is careful:
  it is false, too, when a store holds the analysis and its answer was lost, and
  `WritesAreReported` claims no more.
- `Neo4jConnection_throttle`: two threads attempt within one cooldown, as the test and
  the set of the last attempt are two statements (`neo4j_store.py:38`, comment at 34).
- `AnalyzeEndpoint_stored`: without a provider the second analysis is not stored, for
  the shared result already carries an id (`graph.py:890`; `README.md:233` says every
  analysis is). With one it is (`LiveAnalysesAreStored`).
- `ProvenanceCache_shared`: a node two files share belongs to the one stored last, and
  the other's replay misses it, and the edges from it (`neo4j_store.py:255`;
  `CODE_PROVENANCE.md:23`). Taken over by a file of another repository it takes the edges
  to it along. The replay of the last owner in turn has the edges the shared node got from
  other files' graphs, with ends its answer does not list. `StoredIsReplayed` and
  `RepliesBelong` say that this is all that happens.
- `DetachedRuns_saves`: with three quick POSTs the third run waits for the second only,
  which was cancelled while it waited for the first: the first and the third write the
  session together (`agent_runs.py:96-99`). `SavesAreSequential` says that this is the
  only way: unless a drain is cancelled before its generator began, one run writes at a
  time.
- `ResearchJobs_one_at_a_time`: when the answer to `/start` is lost the loop goes on
  while the session runs (`jobs.js:130-131`).
- `ResearchJobs_clear`: a dismissed session that still runs gets a card again at the
  next poll (`jobs.js:54`; line 10 says that Clear sticks).

Seen while modelling, and not made a run. Aeon:

- `execute_actions` is documented to look at `can_auto_fix`, reads it, and does not.
- With a provider an analysis with root cause and fix is stored twice, by
  `memory_writer_node` under `aeon_...` and by the endpoint under `ai_...`, and the
  first does not look at `store_result`.
- A failed run answers, stores and acts on a copy of the mock result, which has a
  confidence of 91.
- A confidence that is not a number raises in `execute_actions` outside any `try`:
  the stream is cut off without `[DONE]` (`FinishActions`).
- Without a provider the stream says the analysis was written to memory; it was not.
- The n8n client reports a 404 as triggered; a comment there says so.
- Seeding again adds one to `use_count` of every fix (`neo4j_store.py:73`), and
  `api/memory.py:101` calls it safe to repeat. Seeded by two at once, an incident node
  itself can be doubled, and its error type then counts it twice.
- `get_top_errors` counts rows and not `DISTINCT` incidents: a doubled error type
  doubles its count.
- `rerank.recall` falls back to write-backs when it finds nothing else, and as many of
  them as the search returns crowd out what people wrote (`CrowdedOutByMany` is as far
  as the promise goes). The agent's own search tool does not filter at all.
- "Sibling incidents on other pipelines" (`graphrag.py`) are not tested for the pipeline.
- `create_incident` answers `stored_in` with both stores true whatever happened
  (`incidents.py:222`); `/pipelines/ingest` answers `chroma_indexed` from the build's
  status (`pipelines.py:97`).
- ChromaDB is looked for once, at start; a driver that another thread's replaces is
  never closed.
- An approval that answers an error reads "PR Created" in the panel, and "Error — retry?"
  is on a button that is disabled (`AIAssistant.jsx:118`).

Odysseus, research: a session is done before its report is saved, and the save may refuse
or swallow its failure (`research_handler.py:346-347`, `605-607`, `638-639`), so a done
card may have no report to open, and a restart then forgets the session; a second
sequential loop takes the queued cards the first has taken, and launches them again
(`jobs.js:132-143`); a second Start while the first POST is in flight launches twice;
a poll of the active sessions during `/start` makes a second card for its session; a
queued card that was removed or edited is still launched by the sequential loop; a card
cleared while the loop waits for it keeps the loop waiting for ever; a late status
answer turns a cancelled card back. Odysseus, chat page: Stop during an upload does not
stop the send; switching the session during an upload puts the answer's holder into the
other session's page; events of a background stream go to the page's one accumulator; a
second message while a background run ends may leave a spinner for ever.

## 7. What is not modelled, and why

Of the modelled parts:

- *Executor, agent, analysis:* the wording of prompts, issues and pull requests; a
  turn that stops for tools and has none; a model's JSON that carries an `incident_id`
  of its own.
- *Neo4j:* exceptions of the driver's constructor (a malformed URI, not a state of the
  system); drivers that are replaced and never closed.
- *Memory:* `use_count`, which only a view shows; similarities, which are an embedding
  model's; two writers of one incident at once (above: it breaks the counts); the cut
  to three error types, which never cuts because three documents are kept.
- *Provenance cache:* file graphs that change between two traces; a replay while Neo4j
  is down (answers "not cached"); the types of edges, and that a doubled node is listed
  twice in a replay: nodes and edges are compared by their ids.
- *Research:* progress and elapsed time, the order of cards, the limit of 20 reports,
  what a research run does inside; a task that never ends (`hard_timeout` of 0), about
  which the safety properties do speak.
- *Detached runs:* heartbeats, and everything a chat request does that is not the run.

Parts without a module, each with its reason in `PROJECT.json`: the choice of the LLM
provider keeps no state; the provenance trace, blast radius and co-change are sequential
transformations of GitHub's answers, whose reference definition would repeat the code;
the action panel and the pages are views, and what the backend may hear of them, any
call in any order, is in the modules; integration status and setup scripts are pure
I/O; the standalone agents and the database models are used by nothing; read-only
routes change nothing.

Most of the repository by lines is Odysseus' browser client: editors, mail, notes,
settings, document views. It is user interface over its own storage, with little
control that several actors share; the two parts that have it, the research queue and
the runs behind a chat, are modelled, and `chat.js` is not: its state is shared by
uploads, streams and timers with few promises that hold across them, as section 6 shows.
The modules therefore stand for a small share of the repository's lines and for most of
what happens concurrently in Aeon.

## 8. How the modules build on each other

Three modules are abstract specifications that a component implements, each run and
proved: `HumanApproval` of `ActionExecutor` (`KeepsHumanInTheLoop`), `RecordedMemory` of
`IncidentMemory` (`AnswersAsRecorded`) and `RunLog` of `DetachedRuns` (`DeliversLog`).
The components' modules stand alone, each with the
parts around it as its environment: `AgentLoop` has the stores of `IncidentMemory` as
two calls that may fail, `AnalyzeEndpoint` has `AgentLoop` as a run that ends or
raises, `IncidentMemory` has `Neo4jConnection` as transactions that may roll back, and
`ProvenanceCache` has it as statements that may fail. What an environment may do is
more than the module it stands for does, so a property shown here holds of the
composition.

What would add most from here: graphs that change between traces in `ProvenanceCache`;
the chat page composed with `DetachedRuns`; the action panel composed with
`ActionExecutor` once a failed approval can be told from a created pull request.
