------------------------------ MODULE AgentLoop ------------------------------
(***************************************************************************)
(* One streamed run of the agent: the LangGraph graph of                   *)
(* aeon/backend/agents/graph.py under the event streams of api/ai.py       *)
(* (/ai/stream and /ai/research/stream).                                   *)
(*                                                                         *)
(* LangGraph runs one node per superstep and hands the node's events to    *)
(* the stream when the node has finished.  A node may be suspended at each *)
(* of its awaits, and the client may go away at any of them: the server    *)
(* then cancels the run where it stands.                                   *)
(*                                                                         *)
(* What the model answers is arbitrary: any tools, known or not, with or   *)
(* without stop_reason "tool_use", and any text.                           *)
(***************************************************************************)
EXTENDS Integers, Sequences, FiniteSets

CONSTANTS MAX_ITERATIONS,            \* model calls of a quick run
          MAX_RESEARCH_ITERATIONS,   \* and of a research run
          RecursionLimit,            \* supersteps LangGraph allows a run
          Names,                     \* tool names the model may come up with
          MaxCalls                   \* tool calls in one turn, at most

ASSUME LimitsAssumption ==
  /\ MAX_ITERATIONS \in Nat \ {0}
  /\ MAX_RESEARCH_ITERATIONS \in Nat \ {0}
  /\ RecursionLimit \in Nat \ {0}
  /\ MaxCalls \in Nat

TOOL_MAP == {"fetch_jenkins_logs", "fetch_github_logs",
             "search_chromadb_memory", "query_neo4j_graph",
             "create_github_issue", "create_github_pr",
             "trigger_jenkins_build", "trigger_n8n_workflow"}

\* The tools that change something outside; the others read.
Changing == {"create_github_issue", "create_github_pr",
             "trigger_jenkins_build", "trigger_n8n_workflow"}

\* What _extract_json and the merge make of a turn's text: nothing usable; an
\* object with root cause and fix, or lacking one; one whose confidence is
\* not a number; JSON on which the merge raises.
Answers == {"none", "complete", "incomplete", "mistyped", "malformed"}

Turns == [stop : {"tool_use", "end_turn"},
          calls : UNION {[1..n -> Names] : n \in 0..MaxCalls},
          answer : Answers]
NoTurn == [stop |-> "end_turn", calls |-> <<>>, answer |-> "none"]

\* The best hit of the pre-flight search: none, or one with or without a fix.
Hits == {"none", "fixed", "bare"}

VARIABLES
  live,        \* an LLM provider is configured
  mode,        \* "quick" or "research"
  autoExecute, \* /ai/stream?auto_execute=true with a repo
  up,          \* memory stores that take writes during this run
  node,        \* the node running, or what the stream does around the graph
  steps,       \* supersteps begun
  iteration,   \* model calls made
  hit,         \* the best memory match
  turn,        \* _claude_response
  ran,         \* calls of the turn that execute_tools has run
  calling,     \* how far the call after those is
  results,     \* calls of the turn that have a tool_result
  unanswered,  \* calls in the message history without a tool_result
  lastRole,    \* role of the last message in the history
  listed,      \* the node's own actions_taken, lost unless it finishes
  taken,       \* the state's actions_taken
  owned,       \* the result's
  requested,   \* changes asked of the services outside
  performed,   \* those that have happened
  result,      \* state["result"]: what kind of answer it came from
  stores,      \* stores that hold this analysis
  confirmed,   \* stores whose store_incident answered True
  shown        \* the stream's events, without the chatter

runVars == <<live, mode, autoExecute, up>>
history == <<turn, unanswered, lastRole>>
executing == <<ran, calling, results, listed>>
world == <<requested, performed>>
actions == <<taken, owned>>
tools == <<executing, actions, world>>
memory == <<stores, confirmed>>
vars == <<runVars, node, steps, iteration, hit, history, tools, result,
          memory, shown>>

Running == {"search_memory", "call_claude", "execute_tools", "synthesize",
            "memory_writer", "memory_writer_neo4j"}
Around == {"failed", "closing", "actions"}
Ended == {"done", "aborted", "gone"}

\* The events memory_written, by what they say: "Nothing to store.", or
\* "Stored as <id>" with the flag stored True or False.
Reports == {"nothing_to_store", "stored_true", "stored_false"}
Events == Reports \union {"result", "error", "actions_start", "actions", "[DONE]"}

TypeOK ==
  /\ live \in BOOLEAN
  /\ mode \in {"quick", "research"}
  /\ autoExecute \in BOOLEAN
  /\ up \subseteq {"chroma", "neo4j"}
  /\ node \in {"idle"} \union Running \union Around \union Ended
  /\ steps \in 0..RecursionLimit
  /\ iteration \in Nat
  /\ hit \in Hits
  /\ turn \in Turns
  /\ ran \in 0..MaxCalls
  /\ results \subseteq 1..MaxCalls
  /\ unanswered \subseteq 1..MaxCalls
  /\ lastRole \in {"none", "user", "assistant"}
  /\ calling \in {"no", "awaited", "returned", "raised"}
  /\ listed \subseteq TOOL_MAP
  /\ taken \subseteq TOOL_MAP
  /\ owned \subseteq taken
  /\ requested \subseteq Changing
  /\ performed \subseteq requested
  /\ result \in {"unset", "mock"} \union Answers
  /\ stores \subseteq up
  /\ confirmed \subseteq stores
  /\ shown \in Seq(Events)

Init ==
  /\ live \in BOOLEAN
  /\ mode \in {"quick", "research"}
  /\ autoExecute \in BOOLEAN
  /\ up \in SUBSET {"chroma", "neo4j"}
  /\ mode = "research" => ~autoExecute
  /\ node = "idle"
  /\ steps = 0
  /\ iteration = 0
  /\ hit = "none"
  /\ turn = NoTurn
  /\ ran = 0 /\ calling = "no"
  /\ results = {}
  /\ unanswered = {}
  /\ lastRole = "none"
  /\ listed = {} /\ taken = {} /\ owned = {}
  /\ requested = {} /\ performed = {}
  /\ result = "unset"
  /\ stores = {}
  /\ confirmed = {}
  /\ shown = <<>>

Limit == IF mode = "research" THEN MAX_RESEARCH_ITERATIONS ELSE MAX_ITERATIONS

Show(e) == shown' = Append(shown, e)
ShowBoth(e, f) == shown' = Append(Append(shown, e), f)
Shown(e) == \E i \in 1..Len(shown) : shown[i] = e

\* _should_continue: whether the tools of this turn run.
ShouldContinue(t, n) == t.stop = "tool_use" /\ n < Limit

\* LangGraph begins the next superstep, or raises GraphRecursionError.
Superstep(n) ==
  IF steps < RecursionLimit
    THEN node' = n /\ steps' = steps + 1
    ELSE node' = "failed" /\ UNCHANGED steps

Raise == node' = "failed" /\ UNCHANGED steps

-----------------------------------------------------------------------------
(* The nodes                                                               *)

\* stream_graph with a provider: the graph starts.
StartLive ==
  /\ node = "idle" /\ live
  /\ Superstep("search_memory")
  /\ UNCHANGED <<runVars, iteration, hit, history, tools, result, memory, shown>>

\* Without one: canned events, and nothing is stored.
StartMock ==
  /\ node = "idle" /\ ~live
  /\ result' = "mock"
  /\ ShowBoth("result", "stored_true")
  /\ node' = "closing"
  /\ UNCHANGED <<runVars, steps, iteration, hit, history, tools, memory>>

\* Evidence, recall and graph context fall back to nothing when they fail.
SearchMemory(h) ==
  /\ node = "search_memory"
  /\ hit' = h
  /\ Superstep("call_claude")
  /\ UNCHANGED <<runVars, iteration, history, tools, result, memory, shown>>

\* llm.run_turn with the history, opened with the query when it is empty.
CallClaude(t) ==
  /\ node = "call_claude"
  /\ turn' = t
  /\ unanswered' = unanswered \union DOMAIN t.calls
  /\ lastRole' = "assistant"
  /\ iteration' = iteration + 1
  /\ IF ShouldContinue(t, iteration')
       THEN Superstep("execute_tools") ELSE Superstep("synthesize")
  /\ ran' = 0 /\ calling' = "no"
  /\ results' = {} /\ listed' = {}
  /\ UNCHANGED <<runVars, hit, actions, world, result, memory, shown>>

\* No fallback: the provider's exception ends the run.
CallClaudeRaises ==
  /\ node = "call_claude"
  /\ Raise
  /\ UNCHANGED <<runVars, iteration, hit, history, tools, result, memory, shown>>

Next1 == ran + 1    \* position of the call being executed
Tool == turn.calls[Next1]
ToolsLeft == node = "execute_tools" /\ ran < Len(turn.calls)

\* Faulty variant: an unknown name is skipped without a result.
ErrorResultSkipped == results

\* An unknown name gets an error for a result.
ErrorResult == results \union {Next1}

UnknownTool ==
  /\ ToolsLeft /\ Tool \notin TOOL_MAP
  /\ results' = ErrorResult
  /\ ran' = Next1
  /\ UNCHANGED <<runVars, node, steps, iteration, hit, history, calling, listed,
                 actions, world, result, memory, shown>>

\* await tool_fn(...): the request leaves.
StartCall ==
  /\ ToolsLeft /\ Tool \in TOOL_MAP /\ calling = "no"
  /\ calling' = "awaited"
  /\ requested' = requested \union ({Tool} \intersect Changing)
  /\ UNCHANGED <<runVars, node, steps, iteration, hit, history, ran, results,
                 listed, actions, performed, result, memory, shown>>

\* A service does what it was asked, in time or long after its call has been
\* given up, the run has failed or the client has left; or never.
TakeEffect(x) ==
  /\ x \in requested \ performed
  /\ performed' = performed \union {x}
  /\ UNCHANGED <<runVars, node, steps, iteration, hit, history, executing,
                 actions, requested, result, memory, shown>>

\* The call comes back, or raises: a timeout, arguments that do not fit.
EndCall ==
  /\ calling = "awaited" /\ node = "execute_tools"
  /\ calling' \in {"returned", "raised"}
  /\ UNCHANGED <<runVars, node, steps, iteration, hit, history, ran, results,
                 listed, actions, world, result, memory, shown>>

\* Faulty variant: the append stands inside the try.
ListedIfReturned == IF calling = "returned" THEN listed \union {Tool} ELSE listed

\* The append follows the except.
ListedNow == listed \union {Tool}

\* The call is listed, and what it returned or raised is its result.
ListCall ==
  /\ calling \in {"returned", "raised"} /\ node = "execute_tools"
  /\ listed' = ListedNow
  /\ results' = results \union {Next1}
  /\ ran' = Next1
  /\ calling' = "no"
  /\ UNCHANGED <<runVars, node, steps, iteration, hit, history, actions, world,
                 result, memory, shown>>

ToolSteps == UnknownTool \/ StartCall \/ EndCall \/ ListCall

\* The node returns: its tool_results go into the history as one user message,
\* and its list is added to the state's (operator.add).
AnswerTools ==
  /\ node = "execute_tools" /\ ran = Len(turn.calls)
  /\ unanswered' = unanswered \ results
  /\ lastRole' = "user"
  /\ taken' = taken \union listed
  /\ Superstep("call_claude")
  /\ UNCHANGED <<runVars, iteration, hit, turn, executing, owned, world, result,
                 memory, shown>>

Synthesize ==
  /\ node = "synthesize" /\ turn.answer # "malformed"
  /\ result' = IF turn.answer # "none" THEN turn.answer
               ELSE IF hit = "bare" THEN "incomplete" ELSE "complete"
  /\ owned' = taken
  /\ Show("result")
  /\ Superstep("memory_writer")
  /\ UNCHANGED <<runVars, iteration, hit, history, executing, taken, world, memory>>

SynthesizeRaises ==
  /\ node = "synthesize" /\ turn.answer = "malformed"
  /\ Raise
  /\ UNCHANGED <<runVars, iteration, hit, history, tools, result, memory, shown>>

Storable == result # "incomplete"

SkipWriting ==
  /\ node = "memory_writer" /\ ~Storable
  /\ Show("nothing_to_store")
  /\ node' = "closing"
  /\ UNCHANGED <<runVars, steps, iteration, hit, history, tools, result, memory>>

\* A store that works may still answer False: the reply is lost, or late.
WriteChroma(reply) ==
  /\ node = "memory_writer" /\ Storable
  /\ stores' = up \intersect {"chroma"}
  /\ confirmed' = IF reply THEN stores' ELSE {}
  /\ node' = "memory_writer_neo4j"
  /\ UNCHANGED <<runVars, steps, iteration, hit, history, tools, result, shown>>

\* Faulty variants: the second store is tried only if the first refused; the
\* store never looks whether it is connected.
Neo4jIfNoChroma == IF confirmed = {} THEN up \intersect {"neo4j"} ELSE {}
Neo4jTakesAll == {"neo4j"}

\* What Neo4j takes of the analysis.
Neo4jTakes == up \intersect {"neo4j"}

\* "Stored as <id>", whatever the stores have answered; the flag stored is
\* chroma_ok or neo4j_ok.
WriteReport(ok) == IF ok = {} THEN "stored_false" ELSE "stored_true"

WriteNeo4j(reply) ==
  /\ node = "memory_writer_neo4j"
  /\ stores' = stores \union Neo4jTakes
  /\ confirmed' = IF reply THEN confirmed \union Neo4jTakes ELSE confirmed
  /\ Show(WriteReport(confirmed'))
  /\ node' = "closing"
  /\ UNCHANGED <<runVars, steps, iteration, hit, history, tools, result>>

-----------------------------------------------------------------------------
(* The stream around the graph                                             *)

\* Faulty variant: a failed run ends its stream on the spot.
AfterError == "aborted"

\* stream_graph turns an exception into an event, and the stream goes on.
AfterErrorEvent == "closing"

ReportError ==
  /\ node = "failed"
  /\ Show("error")
  /\ node' = AfterErrorEvent
  /\ UNCHANGED <<runVars, steps, iteration, hit, history, tools, result, memory>>

\* Faulty variant: actions run without looking for a result.
ActsOnAnything == autoExecute

\* auto_execute and final_result and repo.
Acts == autoExecute /\ Shown("result")

StartActions ==
  /\ node = "closing" /\ Acts
  /\ Show("actions_start")
  /\ node' = "actions"
  /\ UNCHANGED <<runVars, steps, iteration, hit, history, tools, result, memory>>

\* execute_actions compares the confidence with a number, outside any try.
FinishActions ==
  /\ node = "actions"
  /\ IF result = "mistyped"
       THEN node' = "aborted" /\ UNCHANGED shown
       ELSE node' = "done" /\ ShowBoth("actions", "[DONE]")
  /\ UNCHANGED <<runVars, steps, iteration, hit, history, tools, result, memory>>

CloseStream ==
  /\ node = "closing" /\ ~Acts
  /\ Show("[DONE]")
  /\ node' = "done"
  /\ UNCHANGED <<runVars, steps, iteration, hit, history, tools, result, memory>>

\* The client goes away, and cancels what the run awaits: a tool's request may
\* still take effect, and so may a store's thread.  Between the end of a call
\* and its listing nothing is awaited.
Disconnect ==
  /\ node \in Running \union Around
  /\ calling \notin {"returned", "raised"}
  /\ node' = "gone"
  /\ stores' \in {stores} \union
       (CASE node = "memory_writer" /\ Storable ->
               {stores \union (up \intersect {"chroma"})}
          [] node = "memory_writer_neo4j" -> {stores \union Neo4jTakes}
          [] OTHER -> {})
  /\ UNCHANGED <<runVars, steps, iteration, hit, history, tools, result,
                 confirmed, shown>>

-----------------------------------------------------------------------------
GraphSteps ==
  \/ \E h \in Hits : SearchMemory(h)
  \/ \E t \in Turns : CallClaude(t)
  \/ CallClaudeRaises
  \/ ToolSteps
  \/ AnswerTools
  \/ Synthesize
  \/ SynthesizeRaises
  \/ SkipWriting
  \/ \E reply \in BOOLEAN : WriteChroma(reply)
  \/ \E reply \in BOOLEAN : WriteNeo4j(reply)

StreamSteps == ReportError \/ StartActions \/ FinishActions \/ CloseStream

\* A stream that has ended stays so.
Over == node \in Ended /\ UNCHANGED vars

Next ==
  \/ StartLive \/ StartMock
  \/ GraphSteps \/ StreamSteps
  \/ \E x \in Changing : TakeEffect(x)
  \/ Disconnect
  \/ Over

Spec == Init /\ [][Next]_vars

\* The event loop goes on with a run whose awaited call has returned; every
\* client call returns in the end.  Nobody has to start a run or to leave.
FairSpec == Spec /\ WF_vars(GraphSteps \/ StreamSteps)

-----------------------------------------------------------------------------
(* Properties                                                              *)

\* Whenever the model is called, every tool_use in the history has its
\* tool_result and the last message is the user's: core/llm.py replays the
\* history to either provider, and each refuses a tool_use without an answer.
HistoryIsReplayable ==
  node = "call_claude" => unanswered = {} /\ lastRole # "assistant"

\* The loop ends by itself: at most Limit model calls, hence at most
\* 2 * Limit + 2 supersteps, whatever the model keeps asking for.
LoopIsBounded ==
  /\ iteration <= Limit
  /\ steps <= 2 * Limit + 2

\* A result that is shown owns up to every change the run makes, in any of its
\* turns: also to one whose call raised, and to one that happens long after.
EffectsAreListed == live /\ Shown("result") => performed \subseteq owned

\* What the stream says of the stores is so, for a live run: stored True means
\* that a store has the analysis, stored False that none has confirmed it, and
\* by then every store that takes writes has been given it.
WritesAreReported ==
  live =>
    /\ Shown("stored_true") => stores # {}
    /\ Shown("stored_false") => confirmed = {}
    /\ \A e \in Reports : Shown(e) => stores = IF Storable THEN up ELSE {}

\* The stream tells a story in order: one result, writes and actions only
\* after it, nothing after [DONE].
StreamIsOrdered ==
  \A i, j \in 1..Len(shown) :
    /\ shown[i] \in {"result", "[DONE]"} /\ shown[i] = shown[j] => i = j
    /\ shown[i] = "[DONE]" /\ j # i => j < i
    /\ shown[i] \in Reports \union {"actions_start"} =>
         \E k \in 1..(i - 1) : shown[k] = "result"

\* Every stream that has begun ends: with [DONE], with its client gone, or cut
\* off in the middle of the actions.
StreamEnds ==
  (node \in Running \union Around) ~>
    \/ Shown("[DONE]")
    \/ node = "gone"
    \/ node = "aborted" /\ Shown("actions_start")

\* "create_github_pr, # propose PRs (human approval required)" (README.md).
\* The tool opens the pull request at once.
AgentOpensNoPullRequest == "create_github_pr" \notin performed

\* "Stored as <id>" (graph.py, the message of memory_written): some store has
\* the analysis by then.  The message is the same when both have refused it.
StoredAsMeansStored ==
  live /\ (Shown("stored_true") \/ Shown("stored_false")) => stores # {}

\* "execute_tools (loop, up to 15x)" (README.md), "Up to 15 tool call
\* iterations" (DEMO.md): once the tools of a turn have answered, the model
\* gets their answers, for as many turns as the limit of the mode allows.
\* LangGraph may refuse the superstep first.
ResearchRunsToLimit ==
  [][mode = "research" /\ node = "execute_tools" /\ lastRole' = "user"
       => node' = "call_claude"]_vars
=============================================================================
