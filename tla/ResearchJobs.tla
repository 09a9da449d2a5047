---------------------------- MODULE ResearchJobs ----------------------------
(***************************************************************************)
(* The queue of research jobs in Odysseus' browser client                  *)
(* (odysseus-setup/static/js/research/jobs.js), driven by the cards of     *)
(* panel.js, against the research service it calls                         *)
(* (routes/research_routes.py and src/research_handler.py).                *)
(*                                                                         *)
(* A card is one job object.  It gets a session when POST /start answers   *)
(* or when a poll of the active sessions adopts one, and follows it by an  *)
(* event stream, then by polling.  Every await is a place where the user,  *)
(* the page, the network or the service may do something else first.       *)
(*                                                                         *)
(* Left out: progress, results and elapsed times (they do not change what  *)
(* a card does), the order of the cards, and the library's limit of 20.    *)
(***************************************************************************)
EXTENDS Naturals, FiniteSets

CONSTANTS Jobs,      \* bound: job objects alive at a time
          Sessions,  \* bound: POSTs to /start, and sessions started elsewhere
          Polls,     \* calls of _reconnectActive that may overlap
          Loops,     \* calls of startAllQueuedSequential that may
          MaxClicks, \* bound: what the user does
          MaxTroubles \* bound: reloads, restarts and lost requests

NoJob == "nojob"
NoSession == "nosession"  \* a card that still has its pending- id
ASSUME NamesAssumption == NoJob \notin Jobs /\ NoSession \notin Sessions
ASSUME BoundsAssumption == MaxClicks \in Nat /\ MaxTroubles \in Nat

VARIABLES
  jobs,      \* the cards in _jobs
  status,    \* status of each card
  sid,       \* the session that is its id
  es,        \* the session of the stream in its _es
  streams,   \* open event streams: <<card, session>>
  fallbacks, \* _pollFallback loops: [job, answer], answer "timer" when asleep
  cancels,   \* POSTs to /cancel in flight: <<card, session>>
  todo,      \* cards each startAllQueuedSequential has still to launch
  turn,      \* the card it has launched and waits for
  stage,     \* what each call of _reconnectActive holds
  seen,      \* the sessions in the answer it holds
  dismissed, \* localStorage: sessions cleared from the panel
  call,      \* the POST that asks for each session
  poster,    \* the card that sent it
  batch,     \* sessions it asked for
  task,      \* the service: status of each session
  disk,      \* sessions with a report on disk
  had,       \* history: sessions each card has followed
  reported,  \* history: sessions whose task has ended with a report
  clicks,    \* what the user has done so far
  troubles   \* reloads, restarts and lost requests so far

cards == <<jobs, status, sid, es, had>>
watch == <<streams, fallbacks, cancels>>
loop == <<todo, turn, batch>>
polls == <<stage, seen>>
posts == <<call, poster>>
service == <<task, disk, reported>>
vars == <<cards, watch, loop, polls, dismissed, posts, service, clicks, troubles>>

Statuses == {"queued", "running", "done", "error", "cancelled"}
Asked == {"sent", "answered", "refused"}

TypeOK ==
  /\ jobs \subseteq Jobs
  /\ status \in [Jobs -> Statuses]
  /\ sid \in [Jobs -> Sessions \union {NoSession}]
  /\ es \in [Jobs -> Sessions \union {NoSession}]
  /\ streams \subseteq Jobs \X Sessions
  /\ fallbacks \subseteq [job : Jobs, answer : {"timer", "running", "done", "error"}]
  /\ cancels \subseteq Jobs \X Sessions
  /\ todo \in [Loops -> SUBSET Jobs]
  /\ turn \in [Loops -> Jobs \union {NoJob}]
  /\ stage \in [Polls -> {"idle", "active", "between", "library"}]
  /\ seen \in [Polls -> SUBSET Sessions]
  /\ dismissed \subseteq Sessions
  /\ call \in [Sessions -> Asked \union {"unused", "over"}]
  /\ poster \in [Sessions -> Jobs \union {NoJob}]
  /\ batch \in [Loops -> SUBSET Sessions]
  /\ task \in [Sessions -> {"absent", "running", "done", "error", "cancelled", "gone"}]
  /\ disk \subseteq Sessions /\ reported \subseteq Sessions
  /\ had \in [Jobs -> SUBSET Sessions]
  /\ clicks \in 0..MaxClicks
  /\ troubles \in 0..MaxTroubles

Init ==
  /\ jobs = {}
  /\ status = [j \in Jobs |-> "queued"]
  /\ sid = [j \in Jobs |-> NoSession]
  /\ es = [j \in Jobs |-> NoSession]
  /\ streams = {} /\ fallbacks = {} /\ cancels = {}
  /\ todo = [l \in Loops |-> {}]
  /\ turn = [l \in Loops |-> NoJob]
  /\ batch = [l \in Loops |-> {}]
  /\ stage = [p \in Polls |-> "idle"]
  /\ seen = [p \in Polls |-> {}]
  /\ dismissed = {}
  /\ call = [s \in Sessions |-> "unused"]
  /\ poster = [s \in Sessions |-> NoJob]
  /\ task = [s \in Sessions |-> "absent"]
  /\ disk = {} /\ reported = {}
  /\ had = [j \in Jobs |-> {}]
  /\ clicks = 0 /\ troubles = 0

-----------------------------------------------------------------------------
\* Some callback of the page still holds the object.
Posting(j) == \E s \in Sessions : poster[s] = j /\ call[s] \in Asked
Referenced(j) ==
  \/ Posting(j)
  \/ \E s \in Sessions : <<j, s>> \in streams \/ <<j, s>> \in cancels
  \/ \E f \in fallbacks : f.job = j
  \/ \E l \in Loops : j \in todo[l] \union {turn[l]}

\* An object that can stand for a new one.
Fresh(j) == j \notin jobs /\ ~Referenced(j)

Listed(s) == \E j \in jobs : sid[j] = s

\* What _jobs.find may return for the id on the card of j.
Found(j) == {i \in jobs : i = j \/ (sid[j] # NoSession /\ sid[i] = sid[j])}

\* addToQueue: a card, queued, with an id of its own.
Enqueue(j) ==
  /\ Fresh(j)
  /\ jobs' = jobs \union {j}
  /\ status' = [status EXCEPT ![j] = "queued"]
  /\ sid' = [sid EXCEPT ![j] = NoSession]
  /\ es' = [es EXCEPT ![j] = NoSession]
  /\ had' = [had EXCEPT ![j] = {}]

\* _launchJob up to its await: the card keeps the status it had.
Post(j, s) ==
  /\ call[s] = "unused"
  /\ call' = [call EXCEPT ![s] = "sent"]
  /\ poster' = [poster EXCEPT ![s] = j]

AddToQueue(j) ==
  /\ Enqueue(j)
  /\ UNCHANGED <<watch, loop, polls, dismissed, posts, service>>

StartJob(j, s) ==
  /\ Enqueue(j)
  /\ Post(j, s)
  /\ UNCHANGED <<watch, loop, polls, dismissed, service>>

\* A queued card's Start, and startAllQueued, which does it for each of them.
StartQueued(j, s) ==
  /\ j \in jobs /\ status[j] = "queued"
  /\ \E i \in Found(j) : status[i] = "queued" /\ Post(i, s)
  /\ UNCHANGED <<cards, watch, loop, polls, dismissed, service>>

\* An error or cancelled card's Retry: it is queued again, under its old id.
RetryJob(j, s) ==
  /\ j \in jobs /\ status[j] \in {"error", "cancelled"}
  /\ \E i \in Found(j) : /\ status' = [status EXCEPT ![i] = "queued"]
                        /\ Post(i, s)
  /\ UNCHANGED <<jobs, sid, es, had, watch, loop, polls, dismissed, service>>

\* startAllQueuedSequential takes the queued cards once, at its beginning,
\* those that another loop has still to launch or launches among them.
BeginSequential(l) ==
  /\ todo[l] = {} /\ turn[l] = NoJob
  /\ \E j \in jobs : status[j] = "queued"
  /\ todo' = [todo EXCEPT ![l] = {j \in jobs : status[j] = "queued"}]
  /\ batch' = [batch EXCEPT ![l] = {}]
  /\ UNCHANGED <<cards, watch, turn, polls, dismissed, posts, service>>

\* It launches the next one, whatever has become of it.
LaunchNext(l, j, s) ==
  /\ turn[l] = NoJob /\ j \in todo[l]
  /\ Post(j, s)
  /\ todo' = [todo EXCEPT ![l] = @ \ {j}]
  /\ turn' = [turn EXCEPT ![l] = j]
  /\ batch' = [batch EXCEPT ![l] = @ \union {s}]
  /\ UNCHANGED <<cards, watch, polls, dismissed, service>>

\* The loop's own launch of its card is over, answered or not.
LaunchAwaited(l) == ~\E s \in batch[l] : poster[s] = turn[l] /\ call[s] \in Asked

\* Faulty variant: the loop waits for a report, not for an end.
TurnDone(l) ==
  /\ turn[l] # NoJob /\ LaunchAwaited(l)
  /\ status[turn[l]] = "done"
  /\ turn' = [turn EXCEPT ![l] = NoJob]
  /\ UNCHANGED <<cards, watch, todo, batch, polls, dismissed, posts, service>>

\* After the await of that launch, the tick of 1 s finds it not running.
TurnOver(l) ==
  /\ turn[l] # NoJob /\ LaunchAwaited(l)
  /\ status[turn[l]] # "running"
  /\ turn' = [turn EXCEPT ![l] = NoJob]
  /\ UNCHANGED <<cards, watch, todo, batch, polls, dismissed, posts, service>>

-----------------------------------------------------------------------------
\* POST /start answers: the card takes the session's id, runs and opens a
\* stream, whatever it has become in between.
Launched(j, s) ==
  /\ poster[s] = j /\ call[s] = "answered"
  /\ call' = [call EXCEPT ![s] = "over"]
  /\ sid' = [sid EXCEPT ![j] = s]
  /\ status' = [status EXCEPT ![j] = "running"]
  /\ streams' = streams \union {<<j, s>>}
  /\ es' = [es EXCEPT ![j] = s]
  /\ had' = [had EXCEPT ![j] = @ \union {s}]
  /\ UNCHANGED <<jobs, fallbacks, cancels, loop, polls, dismissed, poster, service>>

\* The launch has failed: an error card.
LaunchFails(j, s) ==
  /\ call' = [call EXCEPT ![s] = "over"]
  /\ status' = [status EXCEPT ![j] = "error"]
  /\ UNCHANGED <<jobs, sid, es, had, watch, loop, polls, dismissed, poster, service>>

\* It answers an error.
LaunchRefused(j, s) ==
  /\ poster[s] = j /\ call[s] = "refused"
  /\ LaunchFails(j, s)

\* The request or its answer is lost.
LaunchLost(j, s) ==
  /\ poster[s] = j /\ call[s] \in {"sent", "answered"}
  /\ LaunchFails(j, s)

\* _finishJob: the status, and the end of the stream that _es holds.
FinishJob(j, st) ==
  /\ status' = [status EXCEPT ![j] = st]
  /\ es' = [es EXCEPT ![j] = NoSession]

\* The stream's final event.
StreamFinal(j, s) ==
  /\ <<j, s>> \in streams
  /\ task[s] \in {"done", "cancelled", "error"}
  /\ FinishJob(j, task[s])
  /\ streams' = streams \ {<<j, s>>, <<j, es[j]>>}
  /\ UNCHANGED <<jobs, sid, had, fallbacks, cancels, loop, polls, dismissed, posts, service>>

\* Faulty variant: nothing takes over from a stream that errs.
StreamCloses(j, s) ==
  /\ <<j, s>> \in streams
  /\ streams' = streams \ {<<j, s>>}
  /\ es' = IF es[j] = s THEN [es EXCEPT ![j] = NoSession] ELSE es
  /\ UNCHANGED <<jobs, status, sid, had, fallbacks, cancels, loop, polls, dismissed, posts, service>>

\* onerror: the stream is closed, and a running card turns to polling.
OnError(j, s) ==
  /\ <<j, s>> \in streams
  /\ streams' = streams \ {<<j, s>>}
  /\ es' = IF es[j] = s THEN [es EXCEPT ![j] = NoSession] ELSE es
  /\ fallbacks' = IF status[j] = "running"
                    THEN fallbacks \union {[job |-> j, answer |-> "timer"]}
                    ELSE fallbacks
  /\ UNCHANGED <<jobs, status, sid, had, cancels, loop, polls, dismissed, posts, service>>

\* The connection breaks.
StreamError(j, s) == OnError(j, s)

\* Or there never was one: 404, a session the service has lost.
StreamNotFound(j, s) == task[s] = "gone" /\ OnError(j, s)

\* Faulty variants: the status as it is; every end taken for a success.
StatusRaw(s) == task[s]
StatusEnded(s) == IF task[s] = "running" THEN "running" ELSE "done"

\* GET /status of a session; all but running and done is an error to the card.
StatusAnswer(s) == IF task[s] \in {"running", "done"} THEN task[s] ELSE "error"

\* _pollFallback after its timer: it ends, or asks for the card's session.
PollWakes(f) ==
  /\ f \in fallbacks /\ f.answer = "timer"
  /\ IF status[f.job] # "running"
       THEN fallbacks' = fallbacks \ {f}
       ELSE fallbacks' = (fallbacks \ {f}) \union
                           {[f EXCEPT !.answer = StatusAnswer(sid[f.job])]}
  /\ UNCHANGED <<cards, streams, cancels, loop, polls, dismissed, posts, service>>

\* Faulty variant: one poll, and no timer for the next.
PollAnsweredOnce(f) ==
  /\ f \in fallbacks /\ f.answer # "timer"
  /\ fallbacks' = fallbacks \ {f}
  /\ IF f.answer = "running"
       THEN UNCHANGED <<status, es, streams>>
       ELSE /\ FinishJob(f.job, f.answer)
            /\ streams' = streams \ {<<f.job, es[f.job]>>}
  /\ UNCHANGED <<jobs, sid, had, cancels, loop, polls, dismissed, posts, service>>

\* Its answer arrives, and is applied to the card whatever that has become.
PollAnswered(f) ==
  /\ f \in fallbacks /\ f.answer # "timer"
  /\ IF f.answer = "running"
       THEN /\ fallbacks' = (fallbacks \ {f}) \union {[f EXCEPT !.answer = "timer"]}
            /\ UNCHANGED <<status, es, streams>>
       ELSE /\ fallbacks' = fallbacks \ {f}
            /\ FinishJob(f.job, f.answer)
            /\ streams' = streams \ {<<f.job, es[f.job]>>}
  /\ UNCHANGED <<jobs, sid, had, cancels, loop, polls, dismissed, posts, service>>

\* Or it is lost, or not ok: for the card that is an error.
PollFails(f) ==
  /\ f \in fallbacks /\ f.answer \in {"running", "done"}
  /\ fallbacks' = (fallbacks \ {f}) \union {[f EXCEPT !.answer = "error"]}
  /\ UNCHANGED <<cards, streams, cancels, loop, polls, dismissed, posts, service>>

-----------------------------------------------------------------------------
\* A running card's cancel button; a queued card it finds is just cancelled.
CancelJob(j) ==
  /\ j \in jobs /\ status[j] = "running"
  /\ \E i \in Found(j) :
       IF status[i] = "queued"
         THEN status' = [status EXCEPT ![i] = "cancelled"] /\ UNCHANGED cancels
         ELSE cancels' = cancels \union {<<i, sid[j]>>} /\ UNCHANGED status
  /\ UNCHANGED <<jobs, sid, es, had, streams, fallbacks, loop, polls, dismissed, posts, service>>

\* The service gets the request.
CancelArrives(j, s) ==
  /\ <<j, s>> \in cancels /\ task[s] = "running"
  /\ task' = [task EXCEPT ![s] = "cancelled"]
  /\ UNCHANGED <<cards, watch, loop, polls, dismissed, posts, disk, reported>>

\* The await of the request is over, answered or not.
Cancelled(j, s) ==
  /\ <<j, s>> \in cancels
  /\ cancels' = cancels \ {<<j, s>>}
  /\ FinishJob(j, "cancelled")
  /\ streams' = streams \ {<<j, es[j]>>}
  /\ UNCHANGED <<jobs, sid, had, fallbacks, loop, polls, dismissed, posts, service>>

\* Remove, Edit or Dismiss on any card but a running one; Delete on a done one
\* has deleted the report first.  A done card is remembered as dismissed.
RemoveJob(j) ==
  /\ j \in jobs /\ status[j] # "running"
  /\ \E i \in Found(j) :
       /\ jobs' = jobs \ {i}
       /\ dismissed' = IF status[i] = "done" THEN dismissed \union {sid[i]} ELSE dismissed
  /\ UNCHANGED <<status, sid, es, had, watch, loop, polls, posts, service>>

\* Clear: every card goes, with the stream in its _es.
ClearAll ==
  /\ jobs # {}
  /\ dismissed' = dismissed \union {sid[j] : j \in {i \in jobs : status[i] = "done"}}
  /\ streams' = streams \ {<<j, es[j]>> : j \in jobs}
  /\ es' = [j \in Jobs |-> IF j \in jobs THEN NoSession ELSE es[j]]
  /\ jobs' = {}
  /\ UNCHANGED <<status, sid, had, fallbacks, cancels, loop, polls, posts, service>>

-----------------------------------------------------------------------------
\* New cards for the sessions of an answer that no card has as its id.
Adopt(new, st) ==
  \E card \in [new -> {j \in Jobs : Fresh(j)}] :
    /\ \A s, t \in new : card[s] = card[t] => s = t
    /\ LET added == {card[s] : s \in new}
           of(j) == CHOOSE s \in new : card[s] = j
       IN /\ jobs' = jobs \union added
          /\ status' = [j \in Jobs |-> IF j \in added THEN st ELSE status[j]]
          /\ sid' = [j \in Jobs |-> IF j \in added THEN of(j) ELSE sid[j]]
          /\ had' = [j \in Jobs |-> IF j \in added THEN {of(j)} ELSE had[j]]
          /\ IF st = "running"
               THEN /\ es' = [j \in Jobs |-> IF j \in added THEN of(j) ELSE es[j]]
                    /\ streams' = streams \union {<<card[s], s>> : s \in new}
               ELSE /\ es' = [j \in Jobs |-> IF j \in added THEN NoSession ELSE es[j]]
                    /\ UNCHANGED streams

\* _reconnectActive, at load, every 12 s and on adoptSession: GET /active.
ReadActive(p) ==
  /\ stage[p] = "idle"
  /\ stage' = [stage EXCEPT ![p] = "active"]
  /\ seen' = [seen EXCEPT ![p] = {s \in Sessions : task[s] = "running"}]
  /\ UNCHANGED <<cards, watch, loop, dismissed, posts, service>>

AdoptActive(p) ==
  /\ stage[p] = "active"
  /\ Adopt({s \in seen[p] : ~Listed(s)}, "running")
  /\ stage' = [stage EXCEPT ![p] = "between"]
  /\ seen' = [seen EXCEPT ![p] = {}]
  /\ UNCHANGED <<fallbacks, cancels, loop, dismissed, posts, service>>

\* GET /library: the reports on disk.
ReadLibrary(p) ==
  /\ stage[p] = "between"
  /\ stage' = [stage EXCEPT ![p] = "library"]
  /\ seen' = [seen EXCEPT ![p] = disk]
  /\ UNCHANGED <<cards, watch, loop, dismissed, posts, service>>

\* Faulty variant: Clear is forgotten.
ToShowAgain(p) == {s \in seen[p] : ~Listed(s)}

\* The sessions of the library that the panel should show.
ToShow(p) == {s \in seen[p] \ dismissed : ~Listed(s)}

AdoptLibrary(p) ==
  /\ stage[p] = "library"
  /\ Adopt(ToShow(p), "done")
  /\ stage' = [stage EXCEPT ![p] = "idle"]
  /\ seen' = [seen EXCEPT ![p] = {}]
  /\ UNCHANGED <<fallbacks, cancels, loop, dismissed, posts, service>>

\* A request of it throws; an answer that is not ok only skips its half.
ReconnectFails(p) ==
  /\ stage[p] # "idle"
  /\ stage' \in {[stage EXCEPT ![p] = "idle"]}
                \union (IF stage[p] = "active" THEN {[stage EXCEPT ![p] = "between"]} ELSE {})
  /\ seen' = [seen EXCEPT ![p] = {}]
  /\ UNCHANGED <<cards, watch, loop, dismissed, posts, service>>

\* The page is loaded anew: all is lost but localStorage and what was sent.
Reload ==
  /\ jobs' = {}
  /\ status' = [j \in Jobs |-> "queued"]
  /\ sid' = [j \in Jobs |-> NoSession]
  /\ es' = [j \in Jobs |-> NoSession]
  /\ had' = [j \in Jobs |-> {}]
  /\ streams' = {} /\ fallbacks' = {} /\ cancels' = {}
  /\ todo' = [l \in Loops |-> {}]
  /\ turn' = [l \in Loops |-> NoJob]
  /\ batch' = [l \in Loops |-> {}]
  /\ stage' = [p \in Polls |-> "idle"]
  /\ seen' = [p \in Polls |-> {}]
  /\ poster' = [s \in Sessions |-> NoJob]
  /\ UNCHANGED <<dismissed, call, service>>

-----------------------------------------------------------------------------
\* The service takes a request, or an agent starts a session of its own.
Started(s) ==
  /\ call[s] \in {"unused", "sent"}
  /\ call' = [call EXCEPT ![s] = IF @ = "sent" THEN "answered" ELSE "over"]
  /\ task' = [task EXCEPT ![s] = "running"]
  /\ UNCHANGED <<cards, watch, loop, polls, dismissed, poster, disk, reported>>

Refused(s) ==
  /\ call[s] = "sent"
  /\ call' = [call EXCEPT ![s] = "refused"]
  /\ UNCHANGED <<cards, watch, loop, polls, dismissed, poster, service>>

\* start_research's _run ends, by itself or by its hard timeout.  With a report
\* its status is done, and only then is it saved: _save_result may refuse, and it
\* swallows every failure.
TaskEnds(s) ==
  /\ task[s] = "running"
  /\ \/ /\ task' = [task EXCEPT ![s] = "done"]
        /\ reported' = reported \union {s}
        /\ disk' \in {disk, disk \union {s}}
     \/ /\ task' = [task EXCEPT ![s] = "error"]
        /\ UNCHANGED <<disk, reported>>
  /\ UNCHANGED <<cards, watch, loop, polls, dismissed, posts>>

\* The service restarts: what is in memory is lost, the saved reports are not,
\* and every open stream errs.
Restart ==
  /\ task' = [s \in Sessions |->
                CASE task[s] = "absent" -> "absent"
                  [] s \in disk -> "done"
                  [] OTHER -> "gone"]
  /\ streams' = {}
  /\ es' = [j \in Jobs |-> NoSession]
  /\ fallbacks' = fallbacks \union
       {[job |-> j, answer |-> "timer"] :
          j \in {i \in Jobs : status[i] = "running" /\ \E s \in Sessions : <<i, s>> \in streams}}
  /\ UNCHANGED <<jobs, status, sid, had, cancels, loop, polls, dismissed, posts, disk, reported>>

User ==
  /\ clicks < MaxClicks
  /\ clicks' = clicks + 1
  /\ \/ \E j \in Jobs : AddToQueue(j) \/ CancelJob(j) \/ RemoveJob(j)
     \/ \E j \in Jobs, s \in Sessions : StartJob(j, s) \/ StartQueued(j, s) \/ RetryJob(j, s)
     \/ \E l \in Loops : BeginSequential(l)
     \/ ClearAll

Page ==
  \/ \E j \in Jobs, s \in Sessions :
       \/ \E l \in Loops : LaunchNext(l, j, s)
       \/ Launched(j, s) \/ LaunchRefused(j, s)
       \/ StreamFinal(j, s) \/ StreamNotFound(j, s) \/ Cancelled(j, s)
  \/ \E l \in Loops : TurnOver(l)
  \/ \E f \in fallbacks : PollWakes(f) \/ PollAnswered(f)
  \/ \E p \in Polls : ReadActive(p) \/ AdoptActive(p) \/ ReadLibrary(p) \/ AdoptLibrary(p)

Service ==
  \/ \E s \in Sessions : Started(s) \/ Refused(s) \/ TaskEnds(s)
  \/ \E j \in Jobs, s \in Sessions : CancelArrives(j, s)

Trouble ==
  /\ troubles < MaxTroubles
  /\ troubles' = troubles + 1
  /\ \/ \E j \in Jobs, s \in Sessions : LaunchLost(j, s) \/ StreamError(j, s)
     \/ \E f \in fallbacks : PollFails(f)
     \/ \E p \in Polls : ReconnectFails(p)
     \/ Reload \/ Restart

Next ==
  \/ User /\ UNCHANGED troubles
  \/ Trouble /\ UNCHANGED clicks
  \/ (Page \/ Service) /\ UNCHANGED <<clicks, troubles>>

Spec == Init /\ [][Next]_vars

-----------------------------------------------------------------------------
\* What is fair: timers fire, an open connection delivers, requests are answered
\* or lost, and every task ends: hard_timeout ends it (1800 s unless a setting
\* says otherwise; set to 0 it ends none, and FairSpec does not speak of that).
\* Nothing is asked of the user, of the agents or of the polls for active sessions.
Calm == UNCHANGED <<clicks, troubles>>
Follow(s) ==
  \/ TaskEnds(s)
  \/ call[s] = "sent" /\ (Started(s) \/ Refused(s))
  \/ \E j \in Jobs : \/ Launched(j, s) \/ LaunchRefused(j, s)
                     \/ StreamFinal(j, s) \/ StreamNotFound(j, s)
PollFallback(j) == \E f \in fallbacks : f.job = j /\ (PollWakes(f) \/ PollAnswered(f))

FairSpec ==
  /\ Spec
  /\ \A s \in Sessions : WF_vars(Follow(s) /\ Calm)
  /\ \A j \in Jobs : WF_vars(PollFallback(j) /\ Calm)
  /\ \A l \in Loops : WF_vars(TurnOver(l) /\ Calm)

-----------------------------------------------------------------------------
Watched(j) ==
  \/ <<j, sid[j]>> \in streams
  \/ \E f \in fallbacks : f.job = j

\* A card that says running has something that will tell it of the end: the
\* stream of the session it shows, or a polling loop (jobs.js 280-283, 299).
WatchedWhileRunning == \A j \in jobs : status[j] = "running" => Watched(j)

\* A card says done only if the task of a session it has followed has ended with
\* a report, saved or not, also when streams, polls, cancels and second launches
\* of it overlap and the service restarts.
DoneWasFinished ==
  \A j \in jobs : status[j] = "done" => had[j] \intersect reported # {}

\* s was dismissed, nothing shows it, and no answer on its way can.
Cleared(s) ==
  /\ s \in dismissed /\ ~Listed(s)
  /\ call[s] = "over" /\ task[s] # "running"
  /\ \A p \in Polls : ~(stage[p] = "active" /\ s \in seen[p])

\* From then on Clear sticks, over polls and reloads (jobs.js 10-11).
ClearedStays == [][\A s \in Sessions : Cleared(s) => Cleared(s)']_vars

\* A listed card does not say running for ever (jobs.js 264-283, 286-300).
RunningSettles ==
  \A j \in Jobs : (j \in jobs /\ status[j] = "running")
                   ~> (status[j] # "running" \/ j \notin jobs)

\* A sequential loop is stuck only behind a card that was cleared
\* (jobs.js 132-143).
BatchMoves ==
  \A l \in Loops, j \in Jobs : turn[l] = j ~> (turn[l] # j \/ j \notin jobs)

\* "Run queued jobs one at a time -- waits for each to finish before launching
\* the next" (jobs.js 130-131): of a loop's sessions one runs at a time.
OneAtATime == \A l \in Loops : Cardinality({s \in batch[l] : task[s] = "running"}) <= 1
\* "Dismissed-from-panel IDs persist across reloads so Clear actually sticks"
\* (jobs.js 10): a dismissed session never gets a card again.
ClearSticks == [][\A j \in jobs' \ jobs : sid'[j] \notin dismissed]_vars
=============================================================================
