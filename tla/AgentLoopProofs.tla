--------------------------- MODULE AgentLoopProofs ---------------------------
(***************************************************************************)
(* Theorems about AgentLoop, for any limits, any tool names and any number *)
(* of calls in a turn.                                                     *)
(***************************************************************************)
EXTENDS AgentLoop, SequenceTheorems, TLAPS

\* A turn's calls are a sequence no longer than MaxCalls.
LEMMA TurnCalls ==
  ASSUME NEW t \in Turns
  PROVE  /\ Len(t.calls) \in 0..MaxCalls
         /\ DOMAIN t.calls = 1..Len(t.calls)
         /\ DOMAIN t.calls \subseteq 1..MaxCalls
<1>1. PICK n \in 0..MaxCalls : t.calls \in [1..n -> Names]
  BY DEF Turns
<1>2. DOMAIN t.calls = 1..n /\ Len(t.calls) = n
  BY <1>1, LimitsAssumption
<1> QED
  BY <1>2, LimitsAssumption

LEMMA NoTurnIsATurn == NoTurn \in Turns
<1>1. 0 \in 0..MaxCalls /\ <<>> \in [1..0 -> Names]
  BY LimitsAssumption
<1>2. <<>> \in UNION {[1..n -> Names] : n \in 0..MaxCalls}
  BY <1>1
<1> QED
  BY <1>2 DEF NoTurn, Turns, Answers

\* How far into the graph a run is, by node: the superstep and the model call.
Progress ==
  /\ node = "idle" => steps = 0 /\ iteration = 0
  /\ node = "search_memory" => steps = 1 /\ iteration = 0
  /\ node = "call_claude" => steps = 2 * iteration + 2 /\ iteration < Limit
  /\ node = "execute_tools" => steps = 2 * iteration + 1 /\ iteration < Limit
  /\ node = "synthesize" => steps = 2 * iteration + 1 /\ iteration <= Limit
  /\ node \in {"memory_writer", "memory_writer_neo4j"} =>
       steps = 2 * iteration + 2 /\ iteration <= Limit

\* What the history holds while the tools of its last turn run: the calls
\* without an answer are that turn's, and those that have run have a result.
ToolsInOrder ==
  /\ node \in {"idle", "search_memory"} => unanswered = {} /\ lastRole = "none"
  /\ node = "execute_tools" =>
       /\ unanswered \subseteq DOMAIN turn.calls
       /\ ran <= Len(turn.calls)
       /\ 1..ran \subseteq results

\* Where a change that has been asked for is written down: by the call that is
\* going on, in the node's own list, in the state's, and in the result's.
Accounts ==
  /\ calling # "no" /\ node = "execute_tools" =>
       ran < Len(turn.calls) /\ Tool \in TOOL_MAP
  /\ node = "execute_tools" =>
       requested \subseteq taken \union listed
                            \union (IF calling = "no" THEN {} ELSE {Tool})
  /\ node \in {"idle", "search_memory", "call_claude", "synthesize"} =>
       requested \subseteq taken
  /\ live /\ Shown("result") => requested \subseteq owned

LEMMA LimitIsPositive == Limit \in Nat \ {0}
BY LimitsAssumption DEF Limit

(***************************************************************************)
(* Type correctness.                                                       *)
(***************************************************************************)
\* An event shown keeps the stream a sequence of events.
LEMMA ShowType ==
  ASSUME shown \in Seq(Events), NEW e \in Events
  PROVE  Append(shown, e) \in Seq(Events)
OBVIOUS

\* A superstep that LangGraph refuses is not counted.
LEMMA SuperstepType ==
  ASSUME steps \in 0..RecursionLimit, NEW n, Superstep(n)
  PROVE  steps' \in 0..RecursionLimit /\ node' \in {n, "failed"}
BY LimitsAssumption DEF Superstep

LEMMA TypeStart ==
  ASSUME TypeOK, StartLive \/ StartMock
  PROVE  TypeOK'
<1>1. CASE StartLive
  BY <1>1, SuperstepType DEF TypeOK, StartLive, runVars, history, tools,
     executing, actions, world, memory,
     Running, Around
<1>2. CASE StartMock
  <2>1. shown' \in Seq(Events)
    BY <1>2 DEF StartMock, ShowBoth, TypeOK, Events, Reports
  <2> QED
    BY <1>2, <2>1 DEF TypeOK, StartMock, runVars, history, tools,
       executing, actions, world, memory,
       Around, Events
<1> QED
  BY <1>1, <1>2

LEMMA TypeSearchMemory ==
  ASSUME TypeOK, NEW h \in Hits, SearchMemory(h)
  PROVE  TypeOK'
BY SuperstepType DEF TypeOK, SearchMemory, runVars, history, tools,
   executing, actions, world, memory,
   Running, Around

LEMMA TypeCallClaude ==
  ASSUME TypeOK, NEW t \in Turns, CallClaude(t)
  PROVE  TypeOK'
<1>1. steps' \in 0..RecursionLimit /\ node' \in {"execute_tools", "synthesize", "failed"}
  BY SuperstepType DEF TypeOK, CallClaude
<1>2. unanswered' \subseteq 1..MaxCalls
  BY TurnCalls DEF TypeOK, CallClaude
<1>3. iteration' \in Nat /\ ran' \in 0..MaxCalls
  BY LimitsAssumption DEF TypeOK, CallClaude
<1> QED
  BY <1>1, <1>2, <1>3 DEF TypeOK, CallClaude, runVars, actions, world,
     memory, Running, Around

LEMMA TypeTools ==
  ASSUME TypeOK, Accounts,
         ToolSteps \/ AnswerTools \/ \E x \in Changing : TakeEffect(x)
  PROVE  TypeOK'
<1>1. CASE UnknownTool \/ ListCall
  <2>1. Len(turn.calls) \in 0..MaxCalls
    BY TurnCalls DEF TypeOK
  <2>2. (ran < Len(turn.calls) /\ Tool \in TOOL_MAP) \/ UnknownTool
    BY <1>1 DEF Accounts, ListCall
  <2>3. Next1 \in 1..MaxCalls
    BY <1>1, <2>1, <2>2, LimitsAssumption DEF TypeOK, UnknownTool, ToolsLeft, Next1
  <2>6. ran' = Next1 /\ results' = results \union {Next1}
    BY <1>1 DEF UnknownTool, ErrorResult, ListCall
  <2>4. ran' \in 0..MaxCalls /\ results' \subseteq 1..MaxCalls
    BY <2>3, <2>6, LimitsAssumption DEF TypeOK
  <2>5. listed' \subseteq TOOL_MAP /\ calling' \in {"no", calling}
    BY <1>1, <2>2 DEF TypeOK, UnknownTool, ListCall, ListedNow
  <2> QED
    BY <1>1, <2>4, <2>5 DEF TypeOK, UnknownTool, ListCall, runVars, history,
       actions, world, memory
<1>3. CASE StartCall
  BY <1>3 DEF TypeOK, StartCall, runVars, history, actions, memory
<1>4. CASE EndCall
  BY <1>4 DEF TypeOK, EndCall, runVars, history, actions, world, memory
<1>5. ASSUME NEW x \in Changing, TakeEffect(x) PROVE TypeOK'
  BY <1>5 DEF TypeOK, TakeEffect, runVars, history, executing, actions, memory
<1>2. CASE AnswerTools
  BY <1>2, SuperstepType DEF TypeOK, AnswerTools, runVars, executing, world,
     memory, Running, Around
<1> QED
  BY <1>1, <1>2, <1>3, <1>4, <1>5 DEF ToolSteps

LEMMA TypeSynthesize ==
  ASSUME TypeOK, Synthesize
  PROVE  TypeOK'
<1>1. shown' \in Seq(Events)
  BY ShowType DEF TypeOK, Synthesize, Show, Events
<1>2. result' \in {"unset", "mock"} \union Answers
  <2>1. turn.answer \in Answers
    BY DEF TypeOK, Turns
  <2> QED
    BY <2>1 DEF Synthesize, Answers
<1>3. steps' \in 0..RecursionLimit /\ node' \in {"memory_writer", "failed"}
  BY SuperstepType DEF TypeOK, Synthesize
<1> QED
  BY <1>1, <1>2, <1>3 DEF TypeOK, Synthesize, runVars, history, tools,
     executing, actions, world, memory,
     Running, Around, Events

LEMMA TypeWriting ==
  ASSUME TypeOK, NEW reply \in BOOLEAN,
         SkipWriting \/ WriteChroma(reply) \/ WriteNeo4j(reply)
  PROVE  TypeOK'
<1>1. CASE SkipWriting
  <2>1. shown' \in Seq(Events)
    BY <1>1, ShowType DEF TypeOK, SkipWriting, Show, Events, Reports
  <2> QED
    BY <1>1, <2>1 DEF TypeOK, SkipWriting, runVars, history, tools,
       executing, actions, world, memory,
       Around, Events
<1>2. CASE WriteChroma(reply)
  BY <1>2 DEF TypeOK, WriteChroma, runVars, history, tools,
     executing, actions, world, Running
<1>3. CASE WriteNeo4j(reply)
  <2>1. shown' \in Seq(Events)
    BY <1>3, ShowType DEF TypeOK, WriteNeo4j, WriteReport, Show, Events, Reports
  <2>2. stores' \subseteq up /\ confirmed' \subseteq stores'
    BY <1>3 DEF TypeOK, WriteNeo4j, Neo4jTakes
  <2> QED
    BY <1>3, <2>1, <2>2 DEF TypeOK, WriteNeo4j, runVars, history, tools,
       executing, actions, world,
       Around, Events
<1> QED
  BY <1>1, <1>2, <1>3

LEMMA TypeFailing ==
  ASSUME TypeOK, CallClaudeRaises \/ SynthesizeRaises
  PROVE  TypeOK'
BY DEF TypeOK, CallClaudeRaises, SynthesizeRaises, Raise, runVars, history,
   tools, executing, actions, world, memory, Around

LEMMA TypeStream ==
  ASSUME TypeOK, StreamSteps
  PROVE  TypeOK'
<1> USE DEF Events
<1>1. shown' \in Seq(Events)
  <2>1. CASE ReportError \/ StartActions \/ CloseStream
    BY <2>1, ShowType DEF ReportError, StartActions, CloseStream, Show, TypeOK
  <2>2. CASE FinishActions
    BY <2>2 DEF FinishActions, ShowBoth, TypeOK
  <2> QED
    BY <2>1, <2>2 DEF StreamSteps
<1>2. node' \in {"closing", "actions", "aborted", "done"}
  BY DEF StreamSteps, ReportError, AfterErrorEvent, StartActions, FinishActions,
     CloseStream
<1>3. UNCHANGED <<runVars, steps, iteration, hit, history, tools, result, memory>>
  BY DEF StreamSteps, ReportError, StartActions, FinishActions, CloseStream,
     history, memory, tools, executing, actions, world
<1> QED
  BY <1>1, <1>2, <1>3 DEF TypeOK, runVars, history, tools,
     executing, actions, world, memory, Around, Ended

LEMMA TypeDisconnect ==
  ASSUME TypeOK, Disconnect
  PROVE  TypeOK'
<1>1. node' \in Ended
  BY DEF Disconnect, Ended
<1>2. stores' \subseteq up /\ stores \subseteq stores'
  <2>1. CASE node = "memory_writer" /\ Storable
    BY <2>1 DEF TypeOK, Disconnect
  <2>2. CASE node = "memory_writer_neo4j"
    BY <2>2 DEF TypeOK, Disconnect, Neo4jTakes
  <2>3. CASE ~(node = "memory_writer" /\ Storable) /\ node # "memory_writer_neo4j"
    BY <2>3 DEF TypeOK, Disconnect
  <2> QED
    BY <2>1, <2>2, <2>3
<1> QED
  BY <1>1, <1>2 DEF TypeOK, Disconnect, runVars, history, tools, executing, actions,
     world, Ended

LEMMA TypeStep == ASSUME TypeOK, Accounts, [Next]_vars PROVE TypeOK'
<1>1. CASE GraphSteps
  BY <1>1, TypeSearchMemory, TypeCallClaude, TypeTools, TypeSynthesize,
     TypeWriting, TypeFailing DEF GraphSteps
<1>2. CASE Over \/ UNCHANGED vars
  BY <1>2 DEF Over, TypeOK, vars, runVars, history, tools,
     executing, actions, world, memory
<1> QED
  BY <1>1, <1>2, TypeStart, TypeStream, TypeTools, TypeDisconnect DEF Next

\* Running tools moves no run on: only the calls and what they do change.
LEMMA ToolsOnly ==
  ASSUME ToolSteps \/ \E x \in Changing : TakeEffect(x)
  PROVE  UNCHANGED <<runVars, node, steps, iteration, hit, history, actions,
                     result, memory, shown>>
BY DEF ToolSteps, UnknownTool, StartCall, EndCall, ListCall, TakeEffect

(***************************************************************************)
(* The loop ends: each superstep moves the run on, or the run has failed.  *)
(***************************************************************************)
LEMMA SuperstepMoves ==
  ASSUME steps \in 0..RecursionLimit, NEW n, Superstep(n)
  PROVE  \/ node' = n /\ steps' = steps + 1
         \/ node' = "failed" /\ steps' = steps
BY DEF Superstep

\* A failed or closing run makes no more supersteps and calls no model.
LEMMA OutsideTheGraph ==
  ASSUME LoopIsBounded, UNCHANGED <<mode, steps, iteration>>,
         node' \in Around \union Ended
  PROVE  Progress' /\ LoopIsBounded'
BY DEF Progress, LoopIsBounded, Limit, Around, Ended

LEMMA ProgressStep ==
  ASSUME TypeOK, Progress, LoopIsBounded, [Next]_vars
  PROVE  Progress' /\ LoopIsBounded'
<1> USE LimitIsPositive
<1> DEFINE Goal == Progress' /\ LoopIsBounded'
<1>1. CASE StartLive
  BY <1>1, SuperstepMoves DEF TypeOK, Progress, LoopIsBounded, StartLive, Limit,
     runVars
<1>2. CASE StartMock
  BY <1>2, OutsideTheGraph DEF StartMock, runVars, Around
<1>3. ASSUME NEW h \in Hits, SearchMemory(h) PROVE Goal
  BY <1>3, SuperstepMoves DEF TypeOK, Progress, LoopIsBounded, SearchMemory,
     Limit, runVars
<1>4. ASSUME NEW t \in Turns, CallClaude(t) PROVE Goal
  <2>1. mode' = mode /\ iteration' = iteration + 1 /\ Limit' = Limit
    BY <1>4 DEF CallClaude, runVars, Limit
  <2>2. iteration \in Nat /\ steps = 2 * iteration + 2 /\ iteration < Limit
    BY <1>4 DEF TypeOK, Progress, CallClaude
  <2>3. \/ node' = "execute_tools" /\ steps' = steps + 1 /\ iteration' < Limit
        \/ node' = "synthesize" /\ steps' = steps + 1
        \/ node' = "failed" /\ steps' = steps
    BY <1>4, SuperstepMoves DEF TypeOK, CallClaude, ShouldContinue, Limit
  <2> QED
    BY <2>1, <2>2, <2>3 DEF Progress, LoopIsBounded
<1>5. CASE ToolSteps \/ \E x \in Changing : TakeEffect(x)
  BY <1>5, ToolsOnly DEF Progress, LoopIsBounded, Limit, runVars
<1>6. CASE AnswerTools
  BY <1>6, SuperstepMoves DEF TypeOK, Progress, LoopIsBounded, AnswerTools,
     Limit, runVars
<1>7. CASE Synthesize
  BY <1>7, SuperstepMoves DEF TypeOK, Progress, LoopIsBounded, Synthesize,
     Limit, runVars
<1>8. ASSUME NEW reply \in BOOLEAN, WriteChroma(reply) PROVE Goal
  BY <1>8 DEF Progress, LoopIsBounded, WriteChroma, Limit, runVars
<1>9. ASSUME NEW reply \in BOOLEAN, WriteNeo4j(reply) PROVE Goal
  BY <1>9, OutsideTheGraph DEF WriteNeo4j, runVars, Around
<1>10. CASE CallClaudeRaises \/ SynthesizeRaises \/ SkipWriting
  BY <1>10, OutsideTheGraph DEF CallClaudeRaises, SynthesizeRaises, SkipWriting,
     Raise, runVars, Around
<1>11. CASE StreamSteps
  BY <1>11, OutsideTheGraph DEF StreamSteps, ReportError, AfterErrorEvent,
     StartActions, FinishActions, CloseStream, runVars, Around, Ended
<1>12. CASE Disconnect
  BY <1>12, OutsideTheGraph DEF Disconnect, runVars, Ended
<1>13. CASE Over \/ UNCHANGED vars
  BY <1>13 DEF Over, vars, runVars, Progress, LoopIsBounded, Limit
<1> QED
  BY <1>1, <1>2, <1>3, <1>4, <1>5, <1>6, <1>7, <1>8, <1>9, <1>10, <1>11,
     <1>12, <1>13 DEF Next, GraphSteps

(***************************************************************************)
(* The history can be replayed: what a turn asks for is answered before    *)
(* the next turn.                                                          *)
(***************************************************************************)
Replayable == ToolsInOrder /\ HistoryIsReplayable

\* Away from the nodes that use the history, nothing is asked of it.
LEMMA HistoryAtRest ==
  ASSUME node' \notin {"idle", "search_memory", "call_claude", "execute_tools"}
  PROVE  Replayable'
BY DEF Replayable, ToolsInOrder, HistoryIsReplayable

LEMMA ReplayableStep ==
  ASSUME TypeOK, Accounts, Replayable, [Next]_vars
  PROVE  Replayable'
<1> USE DEF Replayable
<1>1. CASE StartLive
  BY <1>1, SuperstepMoves DEF TypeOK, ToolsInOrder, HistoryIsReplayable,
     StartLive, history
<1>2. ASSUME NEW h \in Hits, SearchMemory(h) PROVE Replayable'
  BY <1>2, SuperstepMoves DEF TypeOK, ToolsInOrder, HistoryIsReplayable,
     SearchMemory, history
<1>3. ASSUME NEW t \in Turns, CallClaude(t) PROVE Replayable'
  <2>1. node' \in {"execute_tools", "synthesize", "failed"}
    BY <1>3, SuperstepMoves DEF TypeOK, CallClaude
  <2>2. unanswered' = DOMAIN turn'.calls
    BY <1>3 DEF CallClaude, HistoryIsReplayable
  <2>3. ran' = 0 /\ 0 <= Len(turn'.calls)
    BY <1>3, TurnCalls, LimitsAssumption DEF CallClaude
  <2>4. 1..ran' \subseteq results'
    BY <2>3
  <2> QED
    BY <2>1, <2>2, <2>3, <2>4 DEF ToolsInOrder, HistoryIsReplayable
<1>4. CASE UnknownTool \/ ListCall
  <2>1. results' = results \union {Next1} /\ ran' = Next1 /\ node = "execute_tools"
    BY <1>4 DEF UnknownTool, ToolsLeft, ErrorResult, ListCall
  <2>2. Len(turn.calls) \in 0..MaxCalls
    BY TurnCalls DEF TypeOK
  <2>3. ran < Len(turn.calls)
    BY <1>4 DEF UnknownTool, ToolsLeft, ListCall, Accounts
  <2>4. ran' <= Len(turn.calls)
    BY <2>1, <2>2, <2>3, LimitsAssumption DEF TypeOK, Next1
  <2>5. 1..ran' \subseteq results'
    BY <2>1, LimitsAssumption DEF TypeOK, ToolsInOrder, Next1
  <2>6. UNCHANGED <<node, turn, unanswered, lastRole>>
    BY <1>4 DEF UnknownTool, ListCall, history
  <2> QED
    BY <2>1, <2>4, <2>5, <2>6 DEF ToolsInOrder, HistoryIsReplayable
<1>11. CASE StartCall \/ EndCall \/ \E x \in Changing : TakeEffect(x)
  <2>1. UNCHANGED <<node, turn, unanswered, lastRole, ran, results>>
    BY <1>11 DEF StartCall, EndCall, TakeEffect, history, executing
  <2> QED
    BY <2>1 DEF ToolsInOrder, HistoryIsReplayable
<1>5. CASE AnswerTools
  <2>1. node' \in {"call_claude", "failed"}
    BY <1>5, SuperstepMoves DEF TypeOK, AnswerTools
  <2>2. unanswered \subseteq 1..ran
    BY <1>5, TurnCalls DEF TypeOK, ToolsInOrder, AnswerTools
  <2>3. unanswered' = {} /\ lastRole' = "user"
    BY <1>5, <2>2 DEF ToolsInOrder, AnswerTools
  <2> QED
    BY <2>1, <2>3 DEF ToolsInOrder, HistoryIsReplayable
<1>6. CASE Synthesize
  BY <1>6, SuperstepMoves, HistoryAtRest DEF TypeOK, Synthesize
<1>7. ASSUME NEW reply \in BOOLEAN, WriteChroma(reply) \/ WriteNeo4j(reply)
      PROVE  Replayable'
  BY <1>7, HistoryAtRest DEF WriteChroma, WriteNeo4j
<1>8. CASE CallClaudeRaises \/ SynthesizeRaises \/ SkipWriting \/ StartMock
  BY <1>8, HistoryAtRest DEF CallClaudeRaises, SynthesizeRaises, SkipWriting,
     StartMock, Raise
<1>9. CASE StreamSteps \/ Disconnect
  BY <1>9, HistoryAtRest DEF StreamSteps, ReportError, AfterErrorEvent,
     StartActions, FinishActions, CloseStream, Disconnect
<1>10. CASE Over \/ UNCHANGED vars
  BY <1>10 DEF Over, vars, history, tools, executing, ToolsInOrder, HistoryIsReplayable
<1> QED
  BY <1>1, <1>2, <1>3, <1>4, <1>5, <1>6, <1>7, <1>8, <1>9, <1>10, <1>11 DEF Next,
     GraphSteps, ToolSteps

(***************************************************************************)
(* The stream tells its story in order.                                    *)
(***************************************************************************)
\* What has been shown, by node.
Story ==
  /\ Shown("[DONE]") => node \in Ended
  /\ node \in {"idle", "search_memory", "call_claude", "execute_tools",
               "synthesize"} => ~Shown("result")
  /\ node \in {"memory_writer", "memory_writer_neo4j"} => Shown("result")

\* Shown and StreamIsOrdered, of any sequence of events.
Holds(s, e) == \E i \in 1..Len(s) : s[i] = e

Ordered(s) ==
  \A i, j \in 1..Len(s) :
    /\ s[i] \in {"result", "[DONE]"} /\ s[i] = s[j] => i = j
    /\ s[i] = "[DONE]" /\ j # i => j < i
    /\ s[i] \in Reports \union {"actions_start"} =>
         \E k \in 1..(i - 1) : s[k] = "result"

\* An event may come next if nothing has been closed, a result is the first
\* one, and what needs a result has one before it.
MayFollow(e, s) ==
  /\ ~Holds(s, "[DONE]")
  /\ e = "result" => ~Holds(s, "result")
  /\ e \in Reports \union {"actions_start"} =>
       Holds(s, "result")

LEMMA AppendHolds ==
  ASSUME NEW s \in Seq(Events), NEW e \in Events
  PROVE  /\ Append(s, e) \in Seq(Events)
         /\ \A f : Holds(Append(s, e), f) <=> Holds(s, f) \/ f = e
<1>1. /\ Len(s) \in Nat
      /\ Len(Append(s, e)) = Len(s) + 1
      /\ \A i \in 1..Len(s) : Append(s, e)[i] = s[i]
      /\ Append(s, e)[Len(s) + 1] = e
  BY AppendProperties
<1>2. Append(s, e) \in Seq(Events)
  BY AppendProperties
<1> QED
  BY <1>1, <1>2 DEF Holds

LEMMA AppendKeepsOrder ==
  ASSUME NEW s \in Seq(Events), NEW e \in Events, Ordered(s), MayFollow(e, s)
  PROVE  Ordered(Append(s, e))
<1> DEFINE n == Len(s)
           t == Append(s, e)
<1>1. /\ n \in Nat
      /\ Len(t) = n + 1
      /\ \A i \in 1..n : t[i] = s[i]
      /\ t[n + 1] = e
  BY AppendProperties
<1>2. /\ \A i \in 1..n : s[i] # "[DONE]"
      /\ e = "result" => \A i \in 1..n : s[i] # "result"
      /\ e \in Reports \union {"actions_start"} =>
           \E k \in 1..n : s[k] = "result"
  BY DEF MayFollow, Holds
<1>3. \A i, j \in 1..n :
        /\ s[i] \in {"result", "[DONE]"} /\ s[i] = s[j] => i = j
        /\ s[i] \in Reports \union {"actions_start"} =>
             \E k \in 1..(i - 1) : s[k] = "result"
  BY DEF Ordered
<1> HIDE DEF n, t
<1>4. SUFFICES ASSUME NEW i \in 1..(n + 1), NEW j \in 1..(n + 1)
      PROVE  /\ t[i] \in {"result", "[DONE]"} /\ t[i] = t[j] => i = j
             /\ t[i] = "[DONE]" /\ j # i => j < i
             /\ t[i] \in Reports \union {"actions_start"}
                  => \E k \in 1..(i - 1) : t[k] = "result"
  BY <1>1 DEF Ordered, t
<1>5. CASE i \in 1..n /\ j \in 1..n
  BY <1>1, <1>2, <1>3, <1>5
<1>6. CASE i = n + 1
  BY <1>1, <1>2, <1>6
<1>7. CASE i \in 1..n /\ j = n + 1
  BY <1>1, <1>2, <1>3, <1>7
<1> QED
  BY <1>1, <1>5, <1>6, <1>7

\* What a step does to the stream, as the story sees it.
LEMMA ShowKeepsOrder ==
  ASSUME TypeOK, StreamIsOrdered, NEW e \in Events, Show(e), MayFollow(e, shown)
  PROVE  StreamIsOrdered' /\ \A f : Shown(f)' <=> Shown(f) \/ f = e
<1>1. Ordered(shown) /\ shown \in Seq(Events)
  BY DEF StreamIsOrdered, Ordered, TypeOK, Events
<1>2. Ordered(shown')
  BY <1>1, AppendKeepsOrder DEF Show
<1>3. \A f : Holds(shown', f) <=> Holds(shown, f) \/ f = e
  BY <1>1, AppendHolds DEF Show
<1> QED
  BY <1>2, <1>3 DEF StreamIsOrdered, Ordered, Shown, Holds

LEMMA ShowBothKeepsOrder ==
  ASSUME TypeOK, StreamIsOrdered, NEW e \in Events, NEW f \in Events,
         ShowBoth(e, f), MayFollow(e, shown), e # "[DONE]",
         f = "result" => e # "result" /\ ~Shown("result"),
         f \in Reports \union {"actions_start"} =>
           e = "result" \/ Shown("result")
  PROVE  StreamIsOrdered' /\ \A g : Shown(g)' <=> Shown(g) \/ g = e \/ g = f
<1> DEFINE mid == Append(shown, e)
<1>1. Ordered(shown) /\ shown \in Seq(Events)
  BY DEF StreamIsOrdered, Ordered, TypeOK, Events
<1>2. /\ mid \in Seq(Events) /\ Ordered(mid)
      /\ \A g : Holds(mid, g) <=> Holds(shown, g) \/ g = e
  BY <1>1, AppendKeepsOrder, AppendHolds
<1>3. shown' = Append(mid, f)
  BY DEF ShowBoth
<1> HIDE DEF mid
<1>4. MayFollow(f, mid)
  BY <1>2 DEF MayFollow, Shown, Holds
<1>5. Ordered(shown') /\ \A g : Holds(shown', g) <=> Holds(mid, g) \/ g = f
  BY <1>2, <1>3, <1>4, AppendKeepsOrder, AppendHolds
<1> QED
  BY <1>2, <1>5 DEF StreamIsOrdered, Ordered, Shown, Holds

\* A step that shows nothing tells the same story, if it stays on its page.
LEMMA Silence ==
  ASSUME StreamIsOrdered, UNCHANGED shown
  PROVE  StreamIsOrdered' /\ \A f : Shown(f)' <=> Shown(f)
BY DEF StreamIsOrdered, Shown

LEMMA StoryStep ==
  ASSUME TypeOK, Story, StreamIsOrdered, [Next]_vars
  PROVE  Story' /\ StreamIsOrdered'
<1> DEFINE Goal == Story' /\ StreamIsOrdered'
<1> USE DEF MayFollow, Events, Reports
<1>0. \A e : Holds(shown, e) <=> Shown(e)
  BY DEF Holds, Shown
<1>1. CASE StartLive \/ AnswerTools \/ CallClaudeRaises \/ SynthesizeRaises
  <2>1. node' \in {"search_memory", "call_claude", "failed"}
    BY <1>1, SuperstepMoves DEF TypeOK, StartLive, AnswerTools, CallClaudeRaises,
       SynthesizeRaises, Raise
  <2>2. UNCHANGED shown
    BY <1>1 DEF StartLive, AnswerTools, CallClaudeRaises, SynthesizeRaises
  <2>3. ~Shown("[DONE]") /\ (node' # "failed" => ~Shown("result"))
    BY <1>1, <2>1 DEF Story, StartLive, AnswerTools, CallClaudeRaises,
       SynthesizeRaises, Raise, Ended
  <2> QED
    BY <2>1, <2>2, <2>3, Silence DEF Story
<1>2. ASSUME NEW h \in Hits, SearchMemory(h) PROVE Goal
  <2>1. node' \in {"call_claude", "failed"} /\ UNCHANGED shown
    BY <1>2, SuperstepMoves DEF TypeOK, SearchMemory
  <2> QED
    BY <1>2, <2>1, Silence DEF Story, SearchMemory, Ended
<1>3. ASSUME NEW t \in Turns, CallClaude(t) PROVE Goal
  <2>1. node' \in {"execute_tools", "synthesize", "failed"} /\ UNCHANGED shown
    BY <1>3, SuperstepMoves DEF TypeOK, CallClaude
  <2> QED
    BY <1>3, <2>1, Silence DEF Story, CallClaude, Ended
<1>4. CASE ToolSteps \/ \E x \in Changing : TakeEffect(x)
  BY <1>4, ToolsOnly, Silence DEF Story, Ended
<1>5. CASE Synthesize
  <2>1. node' \in {"memory_writer", "failed"}
    BY <1>5, SuperstepMoves DEF TypeOK, Synthesize
  <2>2. MayFollow("result", shown)
    BY <1>0, <1>5 DEF Story, Synthesize, Ended
  <2>3. Show("result")
    BY <1>5 DEF Synthesize
  <2>4. StreamIsOrdered' /\ \A f : Shown(f)' <=> Shown(f) \/ f = "result"
    BY <2>2, <2>3, ShowKeepsOrder
  <2> QED
    BY <1>0, <2>1, <2>2, <2>4 DEF Story
<1>6. ASSUME NEW reply \in BOOLEAN, WriteChroma(reply) PROVE Goal
  BY <1>6, Silence DEF Story, WriteChroma, Ended
<1>7. ASSUME NEW e \in Reports, Show(e),
             node \in {"memory_writer", "memory_writer_neo4j"}, node' = "closing"
      PROVE  Goal
  <2>1. MayFollow(e, shown)
    BY <1>0, <1>7 DEF Story, Ended
  <2>2. StreamIsOrdered' /\ \A f : Shown(f)' <=> Shown(f) \/ f = e
    BY <1>7, <2>1, ShowKeepsOrder
  <2> QED
    BY <1>0, <1>7, <2>1, <2>2 DEF Story
<1>8. ASSUME NEW reply \in BOOLEAN, WriteNeo4j(reply) PROVE Goal
  BY <1>7, <1>8 DEF WriteNeo4j, WriteReport
<1>9. CASE SkipWriting
  BY <1>7, <1>9 DEF SkipWriting
<1>10. CASE StartMock
  <2>1. ~Shown("[DONE]") /\ ~Shown("result") /\ node' = "closing"
    BY <1>10 DEF Story, StartMock, Ended
  <2>2. ShowBoth("result", "stored_true")
    BY <1>10 DEF StartMock
  <2>3. /\ StreamIsOrdered'
        /\ \A g : Shown(g)' <=> Shown(g) \/ g = "result" \/ g = "stored_true"
    BY <1>0, <2>1, <2>2, ShowBothKeepsOrder
  <2> QED
    BY <2>1, <2>3 DEF Story
<1>11. CASE ReportError
  <2>1. ~Shown("[DONE]") /\ node' = "closing" /\ Show("error")
    BY <1>11 DEF Story, ReportError, AfterErrorEvent, Ended
  <2>2. StreamIsOrdered' /\ \A f : Shown(f)' <=> Shown(f) \/ f = "error"
    BY <1>0, <2>1, ShowKeepsOrder
  <2> QED
    BY <2>1, <2>2 DEF Story
<1>12. CASE StartActions
  <2>1. ~Shown("[DONE]") /\ Shown("result") /\ node' = "actions" /\ Show("actions_start")
    BY <1>12 DEF Story, StartActions, Acts, Ended
  <2>2. StreamIsOrdered' /\ \A f : Shown(f)' <=> Shown(f) \/ f = "actions_start"
    BY <1>0, <2>1, ShowKeepsOrder
  <2> QED
    BY <2>1, <2>2 DEF Story
<1>13. CASE FinishActions
  <2>1. CASE result = "mistyped"
    BY <1>13, <2>1, Silence DEF Story, FinishActions, Ended
  <2>2. CASE result # "mistyped"
    <3>1. ~Shown("[DONE]") /\ node' = "done" /\ ShowBoth("actions", "[DONE]")
      BY <1>13, <2>2 DEF Story, FinishActions, Ended
    <3>2. StreamIsOrdered'
      BY <1>0, <3>1, ShowBothKeepsOrder
    <3> QED
      BY <3>1, <3>2 DEF Story, Ended
  <2> QED
    BY <2>1, <2>2
<1>14. CASE CloseStream
  <2>1. ~Shown("[DONE]") /\ node' = "done" /\ Show("[DONE]")
    BY <1>14 DEF Story, CloseStream, Ended
  <2>2. StreamIsOrdered'
    BY <1>0, <2>1, ShowKeepsOrder
  <2> QED
    BY <2>1, <2>2 DEF Story, Ended
<1>15. CASE Disconnect
  BY <1>15, Silence DEF Story, Disconnect, Ended
<1>16. CASE Over \/ UNCHANGED vars
  BY <1>16, Silence DEF Story, Over, vars
<1> QED
  BY <1>1, <1>2, <1>3, <1>4, <1>5, <1>6, <1>8, <1>9, <1>10, <1>11, <1>12,
     <1>13, <1>14, <1>15, <1>16 DEF Next, GraphSteps, StreamSteps

(***************************************************************************)
(* Effects are owned up to: what has been asked for is on its way into the *)
(* result.                                                                 *)
(***************************************************************************)
\* A step that asks for nothing and lists nothing, and has shown a result only
\* if there was one.
LEMMA AccountsAtRest ==
  ASSUME Accounts, UNCHANGED <<live, requested, taken, owned>>,
         Shown("result")' => Shown("result"),
         node' # "execute_tools",
         node' \in {"idle", "search_memory", "call_claude", "synthesize"} =>
           node \in {"idle", "search_memory", "call_claude", "synthesize"}
  PROVE  Accounts'
BY DEF Accounts

LEMMA AccountsStep ==
  ASSUME TypeOK, Accounts, Story, StreamIsOrdered, [Next]_vars
  PROVE  Accounts'
<1> USE DEF MayFollow, Events, Reports, Ended
<1>0. \A e : Holds(shown, e) <=> Shown(e)
  BY DEF Holds, Shown
<1>1. CASE StartLive \/ CallClaudeRaises \/ SynthesizeRaises
  <2>1. UNCHANGED <<live, requested, taken, owned, shown>>
    BY <1>1 DEF StartLive, CallClaudeRaises, SynthesizeRaises, runVars, tools,
       actions, world
  <2>2. node \in {"idle", "call_claude", "synthesize"}
        /\ node' \in {"search_memory", "failed"}
    BY <1>1, SuperstepMoves DEF TypeOK, StartLive, CallClaudeRaises,
       SynthesizeRaises, Raise
  <2> QED
    BY <2>1, <2>2, AccountsAtRest, Silence
<1>2. CASE StartMock
  <2>1. ~live' /\ node' = "closing" /\ node' # "execute_tools"
    BY <1>2 DEF StartMock, runVars
  <2> QED
    BY <2>1 DEF Accounts
<1>3. ASSUME NEW h \in Hits, SearchMemory(h) PROVE Accounts'
  <2>1. UNCHANGED <<live, requested, taken, owned, shown>>
    BY <1>3 DEF SearchMemory, runVars, tools, actions, world
  <2>2. node = "search_memory" /\ node' \in {"call_claude", "failed"}
    BY <1>3, SuperstepMoves DEF TypeOK, SearchMemory
  <2> QED
    BY <2>1, <2>2, AccountsAtRest, Silence
<1>4. ASSUME NEW t \in Turns, CallClaude(t) PROVE Accounts'
  <2>1. UNCHANGED <<live, requested, taken, owned, shown>>
        /\ node = "call_claude" /\ calling' = "no" /\ listed' = {}
    BY <1>4 DEF CallClaude, runVars, actions, world
  <2>2. requested \subseteq taken /\ (live /\ Shown("result") => requested \subseteq owned)
    BY <2>1 DEF Accounts
  <2>3. Shown("result")' <=> Shown("result")
    BY <2>1, Silence
  <2> QED
    BY <2>1, <2>2, <2>3 DEF Accounts
<1>5. CASE ToolSteps
  <2>1. UNCHANGED <<live, node, turn, taken, owned, shown>> /\ node = "execute_tools"
    BY <1>5, ToolsOnly DEF runVars, history, actions, ToolSteps, UnknownTool,
       StartCall, EndCall, ListCall, ToolsLeft
  <2>2. ~Shown("result") /\ ~Shown("result")'
    BY <2>1, Silence DEF Story
  <2>3. CASE UnknownTool
    <3>1. calling' = calling /\ requested' = requested /\ listed' = listed
      BY <2>3 DEF UnknownTool, world
    <3>2. calling = "no"
      BY <2>1, <2>3 DEF UnknownTool, Accounts
    <3> QED
      BY <2>1, <2>2, <3>1, <3>2 DEF Accounts
  <2>4. CASE StartCall
    <3>1. calling = "no" /\ calling' = "awaited" /\ UNCHANGED <<ran, listed>>
          /\ requested' = requested \union ({Tool} \intersect Changing)
          /\ ran < Len(turn.calls) /\ Tool \in TOOL_MAP
      BY <2>4 DEF StartCall, ToolsLeft
    <3>2. Tool' = Tool
      BY <2>1, <3>1 DEF Tool, Next1
    <3> QED
      BY <2>1, <2>2, <3>1, <3>2 DEF Accounts
  <2>5. CASE EndCall
    <3>1. calling = "awaited" /\ calling' # "no" /\ UNCHANGED <<ran, listed, requested>>
      BY <2>5 DEF EndCall, world
    <3>2. Tool' = Tool
      BY <2>1, <3>1 DEF Tool, Next1
    <3> QED
      BY <2>1, <2>2, <3>1, <3>2 DEF Accounts
  <2>6. CASE ListCall
    <3>1. calling # "no" /\ calling' = "no" /\ listed' = listed \union {Tool}
          /\ requested' = requested
      BY <2>6 DEF ListCall, ListedNow, world
    <3> QED
      BY <2>1, <2>2, <3>1 DEF Accounts
  <2> QED
    BY <1>5, <2>3, <2>4, <2>5, <2>6 DEF ToolSteps
<1>6. ASSUME NEW x \in Changing, TakeEffect(x) PROVE Accounts'
  <2>1. UNCHANGED <<live, node, turn, ran, calling, listed, taken, owned, requested, shown>>
    BY <1>6 DEF TakeEffect, runVars, history, executing, actions
  <2>2. Tool' = Tool /\ (Shown("result")' <=> Shown("result"))
    BY <2>1, Silence DEF Tool, Next1
  <2> QED
    BY <2>1, <2>2 DEF Accounts
<1>7. CASE AnswerTools
  <2>1. UNCHANGED <<live, requested, owned, shown>> /\ taken' = taken \union listed
        /\ node = "execute_tools" /\ ran = Len(turn.calls)
    BY <1>7 DEF AnswerTools, runVars, world
  <2>2. node' \in {"call_claude", "failed"}
    BY <1>7, SuperstepMoves DEF TypeOK, AnswerTools
  <2>3. Len(turn.calls) \in 0..MaxCalls
    BY TurnCalls DEF TypeOK
  <2>4. calling = "no"
    BY <2>1, <2>3, LimitsAssumption DEF Accounts
  <2>5. requested \subseteq taken' /\ ~Shown("result")'
    BY <2>1, <2>4, Silence DEF Accounts, Story
  <2> QED
    BY <2>1, <2>2, <2>5 DEF Accounts
<1>8. CASE Synthesize
  <2>1. UNCHANGED <<live, requested, taken>> /\ owned' = taken /\ node = "synthesize"
    BY <1>8 DEF Synthesize, runVars, world
  <2>2. node' \in {"memory_writer", "failed"}
    BY <1>8, SuperstepMoves DEF TypeOK, Synthesize
  <2> QED
    BY <2>1, <2>2 DEF Accounts
<1>9. ASSUME NEW reply \in BOOLEAN, WriteChroma(reply) \/ WriteNeo4j(reply) \/ SkipWriting
      PROVE  Accounts'
  <2>1. UNCHANGED <<live, requested, taken, owned>>
        /\ node \in {"memory_writer", "memory_writer_neo4j"}
        /\ node' \in {"memory_writer_neo4j", "closing"}
    BY <1>9 DEF WriteChroma, WriteNeo4j, SkipWriting, runVars, tools, actions, world
  <2>2. Shown("result")
    BY <2>1 DEF Story
  <2> QED
    BY <2>1, <2>2, AccountsAtRest
<1>10. CASE ReportError \/ CloseStream
  <2>1. UNCHANGED <<live, requested, taken, owned>> /\ node' \in {"closing", "done"}
    BY <1>10 DEF ReportError, AfterErrorEvent, CloseStream, runVars, tools, actions, world
  <2>2. ~Shown("[DONE]")
    BY <1>10 DEF Story, ReportError, CloseStream
  <2>3. Shown("result")' => Shown("result")
    BY <1>0, <1>10, <2>2, ShowKeepsOrder DEF ReportError, CloseStream
  <2> QED
    BY <2>1, <2>3, AccountsAtRest
<1>11. CASE StartActions \/ FinishActions
  <2>1. UNCHANGED <<live, requested, taken, owned>>
        /\ node' \in {"actions", "done", "aborted"}
    BY <1>11 DEF StartActions, FinishActions, runVars, tools, actions, world
  <2>2. ~Shown("[DONE]") /\ node \in {"closing", "actions"}
    BY <1>11 DEF Story, StartActions, FinishActions
  <2>3. Shown("result")' => Shown("result")
    <3>1. CASE StartActions
      BY <1>0, <2>2, <3>1, ShowKeepsOrder DEF StartActions, Acts
    <3>2. CASE FinishActions
      BY <1>0, <2>2, <3>2, ShowBothKeepsOrder, Silence DEF FinishActions
    <3> QED
      BY <1>11, <3>1, <3>2
  <2> QED
    BY <2>1, <2>3, AccountsAtRest
<1>12. CASE Disconnect
  <2>1. UNCHANGED <<live, requested, taken, owned, shown>> /\ node' = "gone"
    BY <1>12 DEF Disconnect, runVars, tools, actions, world
  <2> QED
    BY <2>1, AccountsAtRest, Silence
<1>13. CASE Over \/ UNCHANGED vars
  <2>1. UNCHANGED <<live, node, turn, ran, calling, listed, taken, owned, requested, shown>>
    BY <1>13 DEF Over, vars, runVars, history, tools, executing, actions, world
  <2>2. Tool' = Tool /\ (Shown("result")' <=> Shown("result"))
    BY <2>1, Silence DEF Tool, Next1
  <2> QED
    BY <2>1, <2>2 DEF Accounts
<1> QED
  BY <1>1, <1>2, <1>3, <1>4, <1>5, <1>6, <1>7, <1>8, <1>9, <1>10, <1>11, <1>12,
     <1>13 DEF Next, GraphSteps, StreamSteps

(***************************************************************************)
(* The stream says of the stores what is so.                               *)
(***************************************************************************)
Reported == \E e \in Reports : Shown(e)

\* What the stores hold before anything is reported of them.
Writing ==
  /\ Reported => node \in {"closing", "actions"} \union Ended
  /\ node \in {"idle", "search_memory", "call_claude", "execute_tools",
               "synthesize", "memory_writer"} => stores = {} /\ confirmed = {}
  /\ node = "memory_writer_neo4j" =>
       Storable /\ stores = up \intersect {"chroma"} /\ confirmed \subseteq stores
  /\ WritesAreReported

\* A step that reports nothing and leaves the stores and the result alone.
LEMMA StoresAtRest ==
  ASSUME Writing, UNCHANGED <<live, up, result, memory>>,
         \A f \in Reports : Shown(f)' => Shown(f)
  PROVE  WritesAreReported'
BY DEF Writing, WritesAreReported, Storable, memory, Reports

LEMMA WritingStep ==
  ASSUME TypeOK, Story, StreamIsOrdered, Writing, [Next]_vars
  PROVE  Writing'
<1> USE DEF MayFollow, Events, Reports, Ended
<1>0. \A e : Holds(shown, e) <=> Shown(e)
  BY DEF Holds, Shown
<1>1. ASSUME UNCHANGED <<live, up, result, memory, shown>>,
             node' \in {"search_memory", "call_claude", "execute_tools",
                        "synthesize", "failed"},
             node \in {"idle", "search_memory", "call_claude", "execute_tools",
                       "synthesize"}
      PROVE  Writing'
  <2>1. WritesAreReported' /\ (Reported' <=> Reported)
    BY <1>1, StoresAtRest, Silence DEF Writing, Reported
  <2> QED
    BY <1>1, <2>1 DEF Writing, memory
<1>2. CASE StartLive \/ AnswerTools \/ CallClaudeRaises \/ SynthesizeRaises
  <2>1. node' \in {"search_memory", "call_claude", "failed"}
    BY <1>2, SuperstepMoves DEF TypeOK, StartLive, AnswerTools, CallClaudeRaises,
       SynthesizeRaises, Raise
  <2> QED
    BY <1>1, <1>2, <2>1 DEF StartLive, AnswerTools, CallClaudeRaises,
       SynthesizeRaises, runVars
<1>3. ASSUME NEW h \in Hits, SearchMemory(h) PROVE Writing'
  BY <1>1, <1>3, SuperstepMoves DEF TypeOK, SearchMemory, runVars
<1>4. ASSUME NEW t \in Turns, CallClaude(t) PROVE Writing'
  <2>1. node' \in {"execute_tools", "synthesize", "failed"}
    BY <1>4, SuperstepMoves DEF TypeOK, CallClaude
  <2> QED
    BY <1>1, <1>4, <2>1 DEF CallClaude, runVars
<1>5. CASE ToolSteps \/ \E x \in Changing : TakeEffect(x)
  <2>1. UNCHANGED <<live, up, node, result, memory, shown>>
    BY <1>5, ToolsOnly DEF runVars
  <2>2. WritesAreReported' /\ (Reported' <=> Reported)
    BY <2>1, StoresAtRest, Silence DEF Writing, Reported
  <2> QED
    BY <2>1, <2>2 DEF Writing, Storable, memory
<1>6. CASE Synthesize
  <2>1. node' \in {"memory_writer", "failed"} /\ Show("result")
    BY <1>6, SuperstepMoves DEF TypeOK, Synthesize
  <2>2. ~Reported /\ ~Shown("[DONE]") /\ ~Shown("result")
    BY <1>6 DEF Writing, Story, Synthesize
  <2>3. \A f : Shown(f)' <=> Shown(f) \/ f = "result"
    BY <1>0, <2>1, <2>2, ShowKeepsOrder
  <2>4. ~Reported'
    BY <2>2, <2>3 DEF Reported
  <2> QED
    BY <1>6, <2>1, <2>4 DEF Writing, WritesAreReported, Reported, Synthesize, memory
<1>7. ASSUME NEW reply \in BOOLEAN, WriteChroma(reply) PROVE Writing'
  <2>1. ~Reported'
    BY <1>7, Silence DEF Writing, Reported, WriteChroma
  <2>2. Storable' /\ stores' = up' \intersect {"chroma"} /\ confirmed' \subseteq stores'
    BY <1>7 DEF WriteChroma, Storable, runVars
  <2> QED
    BY <1>7, <2>1, <2>2 DEF Writing, WritesAreReported, Reported, WriteChroma
<1>8. ASSUME NEW reply \in BOOLEAN, WriteNeo4j(reply) PROVE Writing'
  <2>1. stores' = up' /\ confirmed' \subseteq stores' /\ Storable'
    BY <1>8 DEF TypeOK, Writing, WriteNeo4j, Neo4jTakes, Storable, runVars
  <2>2. node = "memory_writer_neo4j" /\ node' = "closing"
        /\ Show(WriteReport(confirmed'))
    BY <1>8 DEF WriteNeo4j
  <2>3. ~Reported /\ ~Shown("[DONE]") /\ Shown("result")
    BY <2>2 DEF Writing, Story
  <2>4. WriteReport(confirmed') \in Reports
    BY DEF WriteReport, Reports
  <2>5. \A f : Shown(f)' <=> Shown(f) \/ f = WriteReport(confirmed')
    BY <1>0, <2>2, <2>3, <2>4, ShowKeepsOrder
  <2>6. /\ Shown("stored_true")' => stores' # {}
        /\ Shown("stored_false")' => confirmed' = {}
    BY <2>1, <2>3, <2>5 DEF Reported, Reports, WriteReport
  <2> QED
    BY <2>1, <2>2, <2>6 DEF Writing, WritesAreReported, Reported, Reports
<1>9. CASE SkipWriting
  <2>1. node = "memory_writer" /\ node' = "closing" /\ Show("nothing_to_store")
    BY <1>9 DEF SkipWriting
  <2>2. ~Reported /\ ~Shown("[DONE]") /\ Shown("result") /\ stores = {}
    BY <2>1 DEF Writing, Story
  <2>3. \A f : Shown(f)' <=> Shown(f) \/ f = "nothing_to_store"
    BY <1>0, <2>1, <2>2, ShowKeepsOrder
  <2>4. /\ ~Storable' /\ stores' = {}
        /\ ~Shown("stored_true")' /\ ~Shown("stored_false")'
    BY <1>9, <2>2, <2>3 DEF SkipWriting, Storable, memory, Reported, Reports
  <2> QED
    BY <2>1, <2>4 DEF Writing, WritesAreReported, Reported
<1>10. CASE StartMock
  BY <1>10 DEF StartMock, Writing, WritesAreReported, runVars
<1>11. ASSUME UNCHANGED <<live, up, result, memory>>,
              node' \in {"closing", "actions"} \union Ended,
              \A f \in Reports : Shown(f)' => Shown(f)
       PROVE  Writing'
  <2>1. WritesAreReported'
    BY <1>11, StoresAtRest
  <2> QED
    BY <1>11, <2>1 DEF Writing
<1>12. CASE ReportError
  <2>1. ~Shown("[DONE]") /\ node' = "closing" /\ Show("error")
    BY <1>12 DEF Story, ReportError, AfterErrorEvent
  <2>2. \A f : Shown(f)' <=> Shown(f) \/ f = "error"
    BY <1>0, <2>1, ShowKeepsOrder
  <2> QED
    BY <1>11, <1>12, <2>1, <2>2 DEF ReportError, runVars
<1>13. CASE StartActions
  <2>1. ~Shown("[DONE]") /\ Shown("result") /\ node' = "actions" /\ Show("actions_start")
    BY <1>13 DEF Story, StartActions, Acts
  <2>2. \A f : Shown(f)' <=> Shown(f) \/ f = "actions_start"
    BY <1>0, <2>1, ShowKeepsOrder
  <2> QED
    BY <1>11, <1>13, <2>1, <2>2 DEF StartActions, runVars
<1>14. CASE FinishActions
  <2>1. CASE result = "mistyped"
    BY <1>11, <1>14, <2>1, Silence DEF FinishActions, runVars
  <2>2. CASE result # "mistyped"
    <3>1. ~Shown("[DONE]") /\ node' = "done" /\ ShowBoth("actions", "[DONE]")
      BY <1>14, <2>2 DEF Story, FinishActions
    <3>2. \A f : Shown(f)' <=> Shown(f) \/ f = "actions" \/ f = "[DONE]"
      BY <1>0, <3>1, ShowBothKeepsOrder
    <3> QED
      BY <1>11, <1>14, <3>1, <3>2 DEF FinishActions, runVars
  <2> QED
    BY <2>1, <2>2
<1>15. CASE CloseStream
  <2>1. ~Shown("[DONE]") /\ node' = "done" /\ Show("[DONE]")
    BY <1>15 DEF Story, CloseStream
  <2>2. \A f : Shown(f)' <=> Shown(f) \/ f = "[DONE]"
    BY <1>0, <2>1, ShowKeepsOrder
  <2> QED
    BY <1>11, <1>15, <2>1, <2>2 DEF CloseStream, runVars
<1>16. CASE Disconnect
  <2>1. UNCHANGED <<live, up, result, confirmed, shown>> /\ node' = "gone"
    BY <1>16 DEF Disconnect, runVars
  <2>2. CASE node \in {"memory_writer", "memory_writer_neo4j"}
    <3>1. ~Reported'
      BY <2>1, <2>2, Silence DEF Writing, Reported
    <3> QED
      BY <2>1, <3>1 DEF Writing, WritesAreReported, Reported
  <2>3. CASE node \notin {"memory_writer", "memory_writer_neo4j"}
    <3>1. stores' = stores
      BY <1>16, <2>3 DEF Disconnect
    <3>2. WritesAreReported'
      BY <2>1, <3>1, Silence DEF Writing, WritesAreReported, Storable
    <3> QED
      BY <2>1, <3>2 DEF Writing
  <2> QED
    BY <2>2, <2>3
<1>17. CASE Over \/ UNCHANGED vars
  <2>1. UNCHANGED <<live, up, result, memory, shown, node>>
    BY <1>17 DEF Over, vars, runVars
  <2>2. WritesAreReported' /\ (Reported' <=> Reported)
    BY <2>1, StoresAtRest, Silence DEF Writing, Reported
  <2> QED
    BY <2>1, <2>2 DEF Writing, Storable, memory
<1> QED
  BY <1>2, <1>3, <1>4, <1>5, <1>6, <1>7, <1>8, <1>9, <1>10, <1>12, <1>13,
     <1>14, <1>15, <1>16, <1>17 DEF Next, GraphSteps, StreamSteps

IInv ==
  /\ TypeOK
  /\ Progress /\ LoopIsBounded
  /\ Replayable
  /\ Accounts
  /\ Story /\ StreamIsOrdered
  /\ Writing

LEMMA InitEstablishes == Init => IInv
<1> SUFFICES ASSUME Init PROVE IInv
  OBVIOUS
<1>1. TypeOK
  BY NoTurnIsATurn, LimitsAssumption DEF Init, TypeOK, Hits, Running, Around, Ended
<1>2. Progress /\ LoopIsBounded
  BY LimitIsPositive DEF Init, Progress, LoopIsBounded
<1>3. \A f : ~Shown(f)
  BY DEF Init, Shown
<1>4. Replayable /\ Accounts
  BY <1>3 DEF Init, Replayable, ToolsInOrder, HistoryIsReplayable, Accounts
<1>5. Story /\ StreamIsOrdered /\ Writing
  BY <1>3 DEF Init, Story, StreamIsOrdered, Writing, WritesAreReported, Reported
<1> QED
  BY <1>1, <1>2, <1>4, <1>5 DEF IInv

\* IInv holds of every run, for ever (graph.py, api/ai.py).
THEOREM Invariance == Spec => []IInv
<1>1. IInv /\ [Next]_vars => IInv'
  BY TypeStep, ProgressStep, ReplayableStep, AccountsStep, StoryStep, WritingStep
     DEF IInv
<1> QED
  BY InitEstablishes, <1>1, PTL DEF Spec

\* Runs and streams keep their types; no run exceeds LangGraph's limit.
THEOREM TypeCorrect == Spec => []TypeOK
BY Invariance, PTL DEF IInv

\* Whatever a model asks for, known tools or not, the next turn's history has
\* an answer to each call (execute_tools_node).
THEOREM ReplayableForAnyModel == Spec => []HistoryIsReplayable
BY Invariance, PTL DEF IInv, Replayable

\* For any limits, a run calls the model at most Limit times and makes at most
\* 2 * Limit + 2 supersteps (_should_continue).
THEOREM BoundedForAnyLimits == Spec => []LoopIsBounded
BY Invariance, PTL DEF IInv

\* A result that is shown owns up to every change the run makes, whenever that
\* happens and however its call ended (execute_tools_node, synthesize_node).
THEOREM EffectsAreOwnedUpTo == Spec => []EffectsAreListed
<1>1. TypeOK /\ Accounts => EffectsAreListed
  BY DEF TypeOK, Accounts, EffectsAreListed
<1> QED
  BY <1>1, Invariance, PTL DEF IInv

\* For any run, the stream shows one result, reports and acts only after it,
\* and shows nothing after [DONE] (stream_graph, stream_analysis).
THEOREM OrderedForAnyRun == Spec => []StreamIsOrdered
BY Invariance, PTL DEF IInv

\* What the stream says of the stores is so (memory_writer_node).
THEOREM StoresAreReported == Spec => []WritesAreReported
BY Invariance, PTL DEF IInv, Writing

(***************************************************************************)
(* LangGraph's limit on supersteps against the limits of the loop.         *)
(***************************************************************************)
\* Each model call costs two supersteps, its own and the one before it: under
\* LangGraph's default of 25 a run calls the model at most 12 times.
CallsFitSupersteps == 2 * iteration <= RecursionLimit

LEMMA CallsFitStep ==
  ASSUME IInv, CallsFitSupersteps, [Next]_vars
  PROVE  CallsFitSupersteps'
<1>1. CASE \E t \in Turns : CallClaude(t)
  <2>1. iteration' = iteration + 1 /\ node = "call_claude"
    BY <1>1 DEF CallClaude
  <2>2. steps = 2 * iteration + 2 /\ steps <= RecursionLimit /\ iteration \in Nat
    BY <2>1, LimitsAssumption DEF IInv, Progress, TypeOK
  <2> QED
    BY <2>1, <2>2, LimitsAssumption DEF CallsFitSupersteps
<1>2. CASE ~\E t \in Turns : CallClaude(t)
  <2>1. iteration' = iteration
    BY <1>2 DEF Next, StartLive, StartMock, GraphSteps, SearchMemory,
       CallClaudeRaises, ToolSteps, UnknownTool, StartCall, EndCall, ListCall,
       TakeEffect, AnswerTools, Synthesize, SynthesizeRaises, SkipWriting,
       WriteChroma, WriteNeo4j, StreamSteps, ReportError, StartActions,
       FinishActions, CloseStream, Disconnect, Over, vars
  <2> QED
    BY <2>1 DEF CallsFitSupersteps
<1> QED
  BY <1>1, <1>2

\* Whatever the limit of its mode, a run makes at most half as many model calls
\* as LangGraph allows it supersteps (_build_graph, stream_graph).
THEOREM CallsHalfTheSupersteps == Spec => []CallsFitSupersteps
<1>1. Init => CallsFitSupersteps
  BY LimitsAssumption DEF Init, CallsFitSupersteps
<1>2. Spec => []IInv
  BY Invariance
<1> QED
  BY <1>1, <1>2, CallsFitStep, PTL DEF Spec
=============================================================================
