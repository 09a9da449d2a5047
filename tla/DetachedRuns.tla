---------------------------- MODULE DetachedRuns ----------------------------
(***************************************************************************)
(* The detached runs behind a chat of Odysseus (odysseus-setup/src/        *)
(* agent_runs.py) with the three routes that use them (routes/             *)
(* chat_routes.py): a POST to /chat_stream starts a run and subscribes to  *)
(* it, /chat/resume subscribes again, /chat/stop cancels.                  *)
(*                                                                         *)
(* Sessions share nothing, so this is one entry of _RUNS.  Every step runs *)
(* to its next await: one asyncio loop.  An event is its place in the      *)
(* buffer.  A run's generator is the model's answer: it writes the session *)
(* while it runs, and when it is cancelled it saves what it has.           *)
(***************************************************************************)
EXTENDS Integers, Sequences

CONSTANTS Runs,      \* bound: POSTs to /chat_stream
          Clients,   \* bound: connections, of a POST or of a resume
          MaxEvents, \* bound: events of a generator
          MaxStops   \* bound: presses of Stop

NoRun == "norun"
ASSUME RunsAssumption == NoRun \notin Runs
ASSUME EventsAssumption == MaxEvents \in Nat /\ MaxStops \in Nat

VARIABLES
  current,   \* the run in _RUNS
  task,      \* how far each drain task is
  status,    \* run.status
  prev,      \* the task that a drain waits for
  cancelled, \* tasks with a cancellation still to be delivered
  buffer,    \* length of run.buffer
  evict,     \* runs with an eviction timer
  stage,     \* how far each subscribe generator is
  run,       \* the run it subscribed to
  queue,     \* its queue
  next,      \* its next_seq
  got,       \* history: the events it has yielded
  stops      \* presses of Stop so far

drains == <<task, prev, cancelled>>
log == <<status, buffer>>
subs == <<stage, run, queue, next, got>>
vars == <<current, drains, log, evict, subs, stops>>

End == -1  \* the sentinel in a queue

TypeOK ==
  /\ current \in Runs \union {NoRun}
  /\ task \in [Runs -> {"none", "created", "waiting", "writing", "saving", "over"}]
  /\ status \in [Runs -> {"running", "done", "error", "stopped"}]
  /\ prev \in [Runs -> Runs \union {NoRun}]
  /\ cancelled \subseteq Runs
  /\ buffer \in [Runs -> Nat]
  /\ evict \subseteq Runs
  /\ stage \in [Clients -> {"off", "asked", "replay", "live", "ended", "left"}]
  /\ run \in [Clients -> Runs \union {NoRun}]
  /\ queue \in [Clients -> Seq(Nat \union {End})]
  /\ next \in [Clients -> Nat]
  /\ got \in [Clients -> Seq(Nat)]
  /\ stops \in 0..MaxStops

Init ==
  /\ current = NoRun
  /\ task = [r \in Runs |-> "none"]
  /\ status = [r \in Runs |-> "running"]
  /\ prev = [r \in Runs |-> NoRun]
  /\ cancelled = {}
  /\ buffer = [r \in Runs |-> 0]
  /\ evict = {}
  /\ stage = [c \in Clients |-> "off"]
  /\ run = [c \in Clients |-> NoRun]
  /\ queue = [c \in Clients |-> <<>>]
  /\ next = [c \in Clients |-> 0]
  /\ got = [c \in Clients |-> <<>>]
  /\ stops = 0

-----------------------------------------------------------------------------
\* run.subscribers
Subscribed(c) == stage[c] \in {"replay", "live"}
Subscribers(r) == {c \in Clients : Subscribed(c) /\ run[c] = r}
Active(r) == task[r] \in {"created", "waiting", "writing", "saving"}

\* is_active: what /chat/resume asks for.
IsActive == current # NoRun /\ status[current] = "running"

\* The queue of every subscriber of r gets these.
Fan(r, items) ==
  queue' = [c \in Clients |-> IF c \in Subscribers(r) THEN queue[c] \o items ELSE queue[c]]

\* _schedule_evict: the timer of the run in _RUNS, whichever that is.
ScheduleEvict == evict' = evict \union ({current} \ {NoRun})

\* start: a run in flight is cancelled, and the new one will wait for its task.
Start(r) ==
  /\ task[r] = "none"
  /\ task' = [task EXCEPT ![r] = "created"]
  /\ IF current # NoRun /\ Active(current)
       THEN /\ cancelled' = cancelled \union {current}
            /\ prev' = [prev EXCEPT ![r] = current]
       ELSE UNCHANGED <<cancelled, prev>>
  /\ evict' = evict \ {current}
  /\ current' = r
  /\ UNCHANGED <<log, run, queue, next, got, stops>>

\* POST /chat_stream: it starts a run, and its answer will subscribe.
Post(c, r) ==
  /\ stage[c] = "off"
  /\ Start(r)
  /\ stage' = [stage EXCEPT ![c] = "asked"]

\* GET /chat/resume
Resume(c) ==
  /\ stage[c] = "off" /\ IsActive
  /\ stage' = [stage EXCEPT ![c] = "asked"]
  /\ UNCHANGED <<current, drains, log, evict, run, queue, next, got, stops>>

\* POST /chat/stop
Stop ==
  /\ stops < MaxStops
  /\ current # NoRun /\ Active(current)
  /\ cancelled' = cancelled \union {current}
  /\ stops' = stops + 1
  /\ UNCHANGED <<current, task, prev, log, evict, subs>>

-----------------------------------------------------------------------------
\* Faulty variant: the drain does not wait for the run it replaced.
BeginAtOnce(r) ==
  /\ task[r] = "created" /\ r \notin cancelled
  /\ task' = [task EXCEPT ![r] = "writing"]
  /\ UNCHANGED <<current, prev, cancelled, log, evict, subs, stops>>

\* The first step of _drain.
Begin(r) ==
  /\ task[r] = "created" /\ r \notin cancelled
  /\ task' = [task EXCEPT ![r] = IF prev[r] = NoRun \/ ~Active(prev[r])
                                    THEN "writing" ELSE "waiting"]
  /\ UNCHANGED <<current, prev, cancelled, log, evict, subs, stops>>

\* The await of the replaced task is over.
PrevOver(r) ==
  /\ task[r] = "waiting" /\ r \notin cancelled
  /\ ~Active(prev[r])
  /\ task' = [task EXCEPT ![r] = "writing"]
  /\ UNCHANGED <<current, prev, cancelled, log, evict, subs, stops>>

\* _publish: an event of the generator.
Publish(r) ==
  /\ task[r] = "writing" /\ r \notin cancelled
  /\ buffer[r] < MaxEvents
  /\ Fan(r, <<buffer[r]>>)
  /\ buffer' = [buffer EXCEPT ![r] = @ + 1]
  /\ UNCHANGED <<current, drains, status, evict, stage, run, next, got, stops>>

\* The end of _drain, its finally included.
Over(r, st) ==
  /\ task' = [task EXCEPT ![r] = "over"]
  /\ status' = [status EXCEPT ![r] = st]
  /\ ScheduleEvict

\* Faulty variant: the subscribers are not woken.
FinishUnheard(r) ==
  /\ task[r] = "writing" /\ r \notin cancelled
  /\ Over(r, "done")
  /\ UNCHANGED <<current, prev, cancelled, buffer, subs, stops>>

\* The generator is through.
Finish(r) ==
  /\ task[r] = "writing" /\ r \notin cancelled
  /\ Over(r, "done")
  /\ Fan(r, <<End>>)
  /\ UNCHANGED <<current, prev, cancelled, buffer, stage, run, next, got, stops>>

\* It throws: two more events, the error and [DONE].
Fail(r) ==
  /\ task[r] = "writing" /\ r \notin cancelled
  /\ Over(r, "error")
  /\ Fan(r, <<buffer[r], buffer[r] + 1, End>>)
  /\ buffer' = [buffer EXCEPT ![r] = @ + 2]
  /\ UNCHANGED <<current, prev, cancelled, stage, run, next, got, stops>>

\* The cancellation arrives: in a drain that has not begun or that waits for
\* the run before it, nothing catches it; in a generator it begins the saving.
Cancel(r) ==
  /\ r \in cancelled
  /\ cancelled' = cancelled \ {r}
  /\ task' = [task EXCEPT ![r] = IF @ \in {"created", "waiting"} THEN "over"
                                  ELSE IF @ = "writing" THEN "saving" ELSE @]
  /\ UNCHANGED <<current, prev, log, evict, subs, stops>>

\* Faulty variant: a cancelled generator ends as a cancelled wait does.
SavedQuietly(r) ==
  /\ task[r] = "saving"
  /\ task' = [task EXCEPT ![r] = "over"]
  /\ UNCHANGED <<current, prev, cancelled, log, evict, subs, stops>>

\* The cancelled generator has saved its partial answer.
Saved(r) ==
  /\ task[r] = "saving"
  /\ Over(r, "stopped")
  /\ Fan(r, <<End>>)
  /\ UNCHANGED <<current, prev, cancelled, buffer, stage, run, next, got, stops>>

\* Faulty variant: the timer does not look for subscribers.
EvictAnyway(r) ==
  /\ r \in evict
  /\ evict' = evict \ {r}
  /\ current' = IF current = r /\ status[r] # "running" THEN NoRun ELSE current
  /\ UNCHANGED <<drains, log, subs, stops>>

\* _evict after its sleep.
Evict(r) ==
  /\ r \in evict
  /\ evict' = evict \ {r}
  /\ current' = IF current = r /\ status[r] # "running" /\ Subscribers(r) = {}
                  THEN NoRun ELSE current
  /\ UNCHANGED <<drains, log, subs, stops>>

-----------------------------------------------------------------------------
\* subscribe begins, when its answer is first read: the run of that moment.
Subscribe(c) ==
  /\ stage[c] = "asked"
  /\ IF current = NoRun
       THEN stage' = [stage EXCEPT ![c] = "ended"] /\ UNCHANGED <<run, evict>>
       ELSE /\ stage' = [stage EXCEPT ![c] = "replay"]
            /\ run' = [run EXCEPT ![c] = current]
            /\ evict' = evict \ {current}
  /\ UNCHANGED <<current, drains, log, queue, next, got, stops>>

\* An event is yielded.
Yield(c, seq) ==
  /\ got' = [got EXCEPT ![c] = Append(@, seq)]
  /\ next' = [next EXCEPT ![c] = seq + 1]

\* The replay of the buffer, one event at a time.
Replay(c) ==
  /\ stage[c] = "replay" /\ next[c] < buffer[run[c]]
  /\ Yield(c, next[c])
  /\ UNCHANGED <<current, drains, log, evict, stage, run, queue, stops>>

\* Faulty variant: a client that is done goes without a word.
GoneQuietly(c, st) == stage' = [stage EXCEPT ![c] = st] /\ UNCHANGED evict

\* The generator's finally: the last one out of a finished run arms the timer.
Gone(c, st) ==
  /\ stage' = [stage EXCEPT ![c] = st]
  /\ IF Subscribers(run[c]) = {c} /\ status[run[c]] # "running"
       THEN ScheduleEvict ELSE UNCHANGED evict

\* After it: a finished run is over, another goes on live.
Replayed(c) ==
  /\ stage[c] = "replay" /\ next[c] = buffer[run[c]]
  /\ IF status[run[c]] # "running"
       THEN Gone(c, "ended")
       ELSE stage' = [stage EXCEPT ![c] = "live"] /\ UNCHANGED evict
  /\ UNCHANGED <<current, drains, log, run, queue, next, got, stops>>

\* Faulty variant: what was replayed comes again.
TakeAll(c) ==
  /\ stage[c] = "live" /\ queue[c] # <<>> /\ Head(queue[c]) # End
  /\ queue' = [queue EXCEPT ![c] = Tail(@)]
  /\ Yield(c, Head(queue[c]))
  /\ UNCHANGED <<current, drains, log, evict, stage, run, stops>>

\* Faulty variant: the sentinel is yielded as an event.
TakeSentinel(c) ==
  /\ stage[c] = "live" /\ queue[c] # <<>>
  /\ queue' = [queue EXCEPT ![c] = Tail(@)]
  /\ IF Head(queue[c]) >= next[c] \/ Head(queue[c]) = End
       THEN Yield(c, Head(queue[c])) ELSE UNCHANGED <<got, next>>
  /\ UNCHANGED <<current, drains, log, evict, stage, run, stops>>

\* An event of the queue; one that was replayed is skipped.
Take(c) ==
  /\ stage[c] = "live" /\ queue[c] # <<>> /\ Head(queue[c]) # End
  /\ queue' = [queue EXCEPT ![c] = Tail(@)]
  /\ IF Head(queue[c]) >= next[c]
       THEN Yield(c, Head(queue[c])) ELSE UNCHANGED <<got, next>>
  /\ UNCHANGED <<current, drains, log, evict, stage, run, stops>>

\* The sentinel, or a timeout of the queue that finds the run finished: the
\* rest of the buffer is flushed.  Other timeouts send a heartbeat.
Ends(c) ==
  /\ stage[c] = "live"
  /\ \/ queue[c] # <<>> /\ Head(queue[c]) = End
     \/ status[run[c]] # "running"
  /\ got' = [got EXCEPT ![c] = @ \o [i \in 1..(buffer[run[c]] - next[c]) |-> next[c] + i - 1]]
  /\ next' = [next EXCEPT ![c] = buffer[run[c]]]
  /\ Gone(c, "ended")
  /\ UNCHANGED <<current, drains, log, run, queue, stops>>

\* The client disconnects.
Leave(c) ==
  /\ Subscribed(c)
  /\ Gone(c, "left")
  /\ UNCHANGED <<current, drains, log, run, queue, next, got, stops>>

DrainNext(r) ==
  \/ Begin(r) \/ PrevOver(r) \/ Publish(r) \/ Finish(r) \/ Fail(r)
  \/ Cancel(r) \/ Saved(r)

ClientNext(c) == Subscribe(c) \/ Replay(c) \/ Replayed(c) \/ Take(c) \/ Ends(c)

Next ==
  \/ \E c \in Clients, r \in Runs : Post(c, r)
  \/ \E c \in Clients : Resume(c) \/ ClientNext(c) \/ Leave(c)
  \/ \E r \in Runs : DrainNext(r) \/ Evict(r)
  \/ Stop

Spec == Init /\ [][Next]_vars

\* The loop runs every ready step, and every client that stays reads on.
FairSpec ==
  /\ Spec
  /\ \A c \in Clients : WF_vars(ClientNext(c))
  /\ \A r \in Runs : WF_vars(DrainNext(r))

-----------------------------------------------------------------------------
\* Every client gets the events of its run in order, none missing and none
\* twice: the replay and the queue join without a seam (agent_runs.py 164-198).
NothingMissed == \A c \in Clients : \A i \in 1..Len(got[c]) : got[c][i] = i - 1

\* A client whose answer ended by itself has the whole log of a finished run.
EndedHasAll ==
  \A c \in Clients :
    stage[c] = "ended" /\ run[c] # NoRun
      => status[run[c]] # "running" /\ Len(got[c]) = buffer[run[c]]

\* What a client reads, as the log of a run.
Place(c) ==
  CASE stage[c] \in {"off", "asked"} -> "new"
    [] stage[c] \in {"replay", "live"} -> "reading"
    [] stage[c] \in {"ended", "left"} -> stage[c]

Log == INSTANCE RunLog WITH
  length <- buffer,
  closed <- {r \in Runs : status[r] # "running"},
  place <- [c \in Clients |-> Place(c)],
  reads <- run

\* Whatever a run writes while a client registers, replays and reads its queue,
\* and however it ends or is replaced: the client is given the run's log from
\* the first event on, each event once, and when the answer ends by itself all
\* of it (agent_runs.py 164-198).
DeliversLog == Log!Spec

\* A finished run that nobody reads has its timer: it does not stay for ever
\* (agent_runs.py 37-40), whichever run's end and whichever client armed it.
EvictionArmed ==
  current # NoRun /\ status[current] # "running" /\ Subscribers(current) = {}
    => current \in evict

\* A run that is written to, or read, keeps its place until another replaces it.
KeptWhileUsed ==
  [][current # NoRun /\ (Active(current) \/ Subscribers(current) # {})
       => current' # NoRun]_vars

\* Two runs of the session that follow one another do not write it together.
WaitsForReplaced ==
  \A r \in Runs : task[r] \in {"writing", "saving"} /\ prev[r] # NoRun
                    => ~Active(prev[r])

\* Who reads a run whose generator was started gets to its end, or leaves.
ReadersEnd ==
  \A c \in Clients :
    (Subscribed(c) /\ (task[run[c]] \in {"writing", "saving"} \/ status[run[c]] # "running"))
      ~> ~Subscribed(c)

\* "letting it complete before we start writing keeps the two runs' session
\* saves sequential instead of interleaved" (agent_runs.py 98-99).
SavesSequential ==
  \A r, s \in Runs :
    task[r] \in {"writing", "saving"} /\ task[s] \in {"writing", "saving"} => r = s

\* A drain was cancelled before its generator began: its task is over, and its
\* finally, with the status and the sentinels, is skipped.
CutShort == \E r \in Runs : task[r] = "over" /\ status[r] = "running"

\* As long as no drain is cut short the comment holds, for any number of runs
\* that replace one another: one at a time writes the session.
SequentialUnlessCut == CutShort \/ SavesSequential

\* "Wake every subscriber with the end sentinel so their SSE closes"
\* (agent_runs.py 129): no one reads on when the task is over.
OverWakesReaders ==
  \A c \in Clients :
    stage[c] = "live" /\ task[run[c]] = "over" => \E i \in 1..Len(queue[c]) : queue[c][i] = End

\* It holds of every run whose drain was not cut short: whoever has gone on live
\* when the run finishes finds the sentinel in the queue.
EndWakesReaders ==
  \A c \in Clients :
    stage[c] = "live" /\ status[run[c]] # "running"
      => \E i \in 1..Len(queue[c]) : queue[c][i] = End
=============================================================================
