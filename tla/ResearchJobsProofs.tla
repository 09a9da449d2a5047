-------------------------- MODULE ResearchJobsProofs --------------------------
(***************************************************************************)
(* Proofs about ResearchJobs, for any sets of cards, sessions and polls,   *)
(* and any bounds on clicks and troubles.                                  *)
(***************************************************************************)
EXTENDS ResearchJobs, TLAPS

\* A card that runs, is done or is followed has a session: without this the
\* types are not kept, for a done card's id is dismissed and a running one's asked.
Followed(j) ==
  \/ status[j] \in {"running", "done"}
  \/ \E s \in Sessions : <<j, s>> \in streams
  \/ \E f \in fallbacks : f.job = j
HasSession == \A j \in Jobs : Followed(j) => sid[j] \in Sessions

\* Every step is one of these.
LEMMA StepCases ==
  ASSUME Next
  PROVE  \/ \E j \in Jobs : AddToQueue(j) \/ CancelJob(j) \/ RemoveJob(j)
         \/ \E j \in Jobs, s \in Sessions :
              \/ StartJob(j, s) \/ StartQueued(j, s) \/ RetryJob(j, s)
              \/ \E l \in Loops : LaunchNext(l, j, s)
              \/ Launched(j, s) \/ LaunchRefused(j, s) \/ LaunchLost(j, s)
              \/ StreamFinal(j, s) \/ StreamError(j, s) \/ StreamNotFound(j, s)
              \/ CancelArrives(j, s) \/ Cancelled(j, s)
         \/ \E f \in fallbacks : PollWakes(f) \/ PollAnswered(f) \/ PollFails(f)
         \/ \E p \in Polls : \/ ReadActive(p) \/ AdoptActive(p) \/ ReadLibrary(p)
                             \/ AdoptLibrary(p) \/ ReconnectFails(p)
         \/ \E s \in Sessions : Started(s) \/ Refused(s) \/ TaskEnds(s)
         \/ \E l \in Loops : BeginSequential(l) \/ TurnOver(l)
         \/ ClearAll \/ Reload \/ Restart
  BY DEF Next, User, Page, Service, Trouble

\* The counters of clicks and troubles keep their types in every step.
LEMMA CountersTyped ==
  ASSUME TypeOK, Next
  PROVE  clicks' \in 0..MaxClicks /\ troubles' \in 0..MaxTroubles
  BY BoundsAssumption DEF TypeOK, Next, User, Trouble

\* What adopting does, card by card.
AdoptedCards(added, new, st) ==
  /\ jobs' = jobs \union added
  /\ \A j \in added : Fresh(j)
  /\ status' = [j \in Jobs |-> IF j \in added THEN st ELSE status[j]]
  /\ sid' \in [Jobs -> Sessions \union {NoSession}]
  /\ es' \in [Jobs -> Sessions \union {NoSession}]
  /\ had' \in [Jobs -> SUBSET Sessions]
  /\ \A j \in added : sid'[j] \in new /\ had'[j] = {sid'[j]}
  /\ \A j \in Jobs \ added : sid'[j] = sid[j] /\ had'[j] = had[j]
  /\ streams \subseteq streams' /\ streams' \subseteq Jobs \X Sessions
  /\ \A j \in added : st = "running" => <<j, sid'[j]>> \in streams'
  /\ \A j \in Jobs, s \in Sessions :
       <<j, s>> \in streams' \ streams => j \in added /\ s = sid'[j]

LEMMA AdoptEffect ==
  ASSUME TypeOK, NEW new \in SUBSET Sessions, NEW st \in Statuses, Adopt(new, st)
  PROVE  \E added \in SUBSET Jobs : AdoptedCards(added, new, st)
  <1>1. PICK card \in [new -> {j \in Jobs : Fresh(j)}] :
          /\ \A s, t \in new : card[s] = card[t] => s = t
          /\ LET added == {card[s] : s \in new}
                 of(j) == CHOOSE s \in new : card[s] = j
             IN /\ jobs' = jobs \union added
                /\ status' = [j \in Jobs |-> IF j \in added THEN st ELSE status[j]]
                /\ sid' = [j \in Jobs |-> IF j \in added THEN of(j) ELSE sid[j]]
                /\ had' = [j \in Jobs |-> IF j \in added THEN {of(j)} ELSE had[j]]
                /\ IF st = "running"
                     THEN /\ es' = [j \in Jobs |-> IF j \in added THEN of(j) ELSE es[j]]
                          /\ streams' = streams \union {<<card[s], s>> : s \in new}
                     ELSE /\ es' = [j \in Jobs |-> IF j \in added THEN NoSession ELSE es[j]]
                          /\ UNCHANGED streams
    BY DEF Adopt
  <1> DEFINE added == {card[s] : s \in new}
             of(j) == CHOOSE s \in new : card[s] = j
  <1>2. /\ \A s \in new : card[s] \in Jobs /\ Fresh(card[s])
        /\ new \subseteq Sessions
    OBVIOUS
  <1>3. \A j \in added : of(j) \in new /\ card[of(j)] = j
    OBVIOUS
  <1>4. \A s \in new : card[s] \in added /\ of(card[s]) = s
    BY <1>1
  <1>5. jobs' = jobs \union added
    BY <1>1
  <1>6. status' = [j \in Jobs |-> IF j \in added THEN st ELSE status[j]]
    BY <1>1
  <1>7. sid' = [j \in Jobs |-> IF j \in added THEN of(j) ELSE sid[j]]
    BY <1>1
  <1>8. had' = [j \in Jobs |-> IF j \in added THEN {of(j)} ELSE had[j]]
    BY <1>1
  <1>9. \/ es' = [j \in Jobs |-> IF j \in added THEN of(j) ELSE es[j]]
        \/ es' = [j \in Jobs |-> IF j \in added THEN NoSession ELSE es[j]]
    BY <1>1
  <1>10. /\ st = "running" => streams' = streams \union {<<card[s], s>> : s \in new}
         /\ st # "running" => streams' = streams
    BY <1>1
  <1>11. added \subseteq Jobs /\ \A j \in added : Fresh(j)
    BY <1>2
  <1> HIDE DEF added, of
  <1>12. \A j \in added : sid'[j] = of(j) /\ had'[j] = {of(j)}
    BY <1>7, <1>8, <1>11
  <1>13. \A j \in added : st = "running" => <<j, sid'[j]>> \in streams'
    BY <1>3, <1>10, <1>12
  <1>14. \A j \in Jobs, s \in Sessions :
           <<j, s>> \in streams' \ streams => j \in added /\ s = sid'[j]
    BY <1>4, <1>10, <1>12
  <1>15. streams \subseteq streams' /\ streams' \subseteq Jobs \X Sessions
    BY <1>2, <1>10 DEF TypeOK
  <1>16. /\ sid' \in [Jobs -> Sessions \union {NoSession}]
         /\ had' \in [Jobs -> SUBSET Sessions]
    BY <1>2, <1>3, <1>7, <1>8 DEF TypeOK
  <1>17. es' \in [Jobs -> Sessions \union {NoSession}]
    BY <1>2, <1>3, <1>9 DEF TypeOK
  <1>18. \A j \in Jobs \ added : sid'[j] = sid[j] /\ had'[j] = had[j]
    BY <1>7, <1>8
  <1> added \in SUBSET Jobs
    BY <1>11
  <1> WITNESS added \in SUBSET Jobs
  <1> QED
    BY <1>3, <1>5, <1>6, <1>11, <1>12, <1>13, <1>14, <1>15, <1>16, <1>17, <1>18
    DEF AdoptedCards

\* The same, for the two places that adopt.
LEMMA AdoptActiveEffect ==
  ASSUME TypeOK, NEW p \in Polls, AdoptActive(p)
  PROVE  \E added \in SUBSET Jobs :
           AdoptedCards(added, {s \in seen[p] : ~Listed(s)}, "running")
  <1>1. {s \in seen[p] : ~Listed(s)} \in SUBSET Sessions
    BY DEF TypeOK
  <1> QED
    BY <1>1, AdoptEffect DEF AdoptActive, Statuses

LEMMA AdoptLibraryEffect ==
  ASSUME TypeOK, NEW p \in Polls, AdoptLibrary(p)
  PROVE  \E added \in SUBSET Jobs : AdoptedCards(added, ToShow(p), "done")
  <1>1. ToShow(p) \in SUBSET Sessions
    BY DEF TypeOK, ToShow
  <1> QED
    BY <1>1, AdoptEffect DEF AdoptLibrary, Statuses

-----------------------------------------------------------------------------
\* The types are kept by every step.
LEMMA TypeStep ==
  ASSUME TypeOK, HasSession, [Next]_vars
  PROVE  TypeOK'
  <1> USE DEF TypeOK, Statuses, Asked, cards, watch, loop, polls, posts, service
  <1>1. CASE UNCHANGED vars
    BY <1>1 DEF vars
  <1>2. CASE Next
    <2>0. clicks' \in 0..MaxClicks /\ troubles' \in 0..MaxTroubles
      BY <1>2, CountersTyped
    <2>1. ASSUME NEW j \in Jobs, AddToQueue(j) PROVE TypeOK'
      BY <2>0, <2>1 DEF AddToQueue, Enqueue
    <2>2. ASSUME NEW j \in Jobs, CancelJob(j) PROVE TypeOK'
      <3>1. PICK i \in jobs :
              IF status[i] = "queued"
                THEN status' = [status EXCEPT ![i] = "cancelled"] /\ UNCHANGED cancels
                ELSE cancels' = cancels \union {<<i, sid[j]>>} /\ UNCHANGED status
        BY <2>2 DEF CancelJob, Found
      <3>2. sid[j] \in Sessions
        BY <2>2 DEF CancelJob, HasSession, Followed
      <3>3. /\ status' \in [Jobs -> Statuses]
            /\ cancels' \subseteq Jobs \X Sessions
        BY <3>1, <3>2
      <3>4. UNCHANGED <<jobs, sid, es, had, streams, fallbacks, loop, polls, dismissed, posts, service>>
        BY <2>2 DEF CancelJob
      <3> QED
        BY <2>0, <3>3, <3>4
    <2>3. ASSUME NEW j \in Jobs, RemoveJob(j) PROVE TypeOK'
      BY <2>0, <2>3 DEF RemoveJob, Found, HasSession, Followed
    <2>4. ASSUME NEW j \in Jobs, NEW s \in Sessions, StartJob(j, s) PROVE TypeOK'
      BY <2>0, <2>4 DEF StartJob, Enqueue, Post
    <2>5. ASSUME NEW j \in Jobs, NEW s \in Sessions, StartQueued(j, s) PROVE TypeOK'
      BY <2>0, <2>5 DEF StartQueued, Found, Post
    <2>6. ASSUME NEW j \in Jobs, NEW s \in Sessions, RetryJob(j, s) PROVE TypeOK'
      BY <2>0, <2>6 DEF RetryJob, Found, Post
    <2>7. ASSUME NEW l \in Loops, NEW j \in Jobs, NEW s \in Sessions, LaunchNext(l, j, s)
          PROVE  TypeOK'
      BY <2>0, <2>7 DEF LaunchNext, Post
    <2>8. ASSUME NEW j \in Jobs, NEW s \in Sessions, Launched(j, s) PROVE TypeOK'
      BY <2>0, <2>8 DEF Launched
    <2>9. ASSUME NEW j \in Jobs, NEW s \in Sessions, LaunchRefused(j, s) \/ LaunchLost(j, s)
          PROVE TypeOK'
      BY <2>0, <2>9 DEF LaunchRefused, LaunchLost, LaunchFails
    <2>10. ASSUME NEW j \in Jobs, NEW s \in Sessions, StreamFinal(j, s) PROVE TypeOK'
      BY <2>0, <2>10 DEF StreamFinal, FinishJob
    <2>11. ASSUME NEW j \in Jobs, NEW s \in Sessions, StreamError(j, s) \/ StreamNotFound(j, s)
           PROVE  TypeOK'
      BY <2>0, <2>11 DEF StreamError, StreamNotFound, OnError
    <2>12. ASSUME NEW j \in Jobs, NEW s \in Sessions, CancelArrives(j, s) PROVE TypeOK'
      BY <2>0, <2>12 DEF CancelArrives
    <2>13. ASSUME NEW j \in Jobs, NEW s \in Sessions, Cancelled(j, s) PROVE TypeOK'
      BY <2>0, <2>13 DEF Cancelled, FinishJob
    <2>14. ASSUME NEW f \in fallbacks, PollWakes(f) PROVE TypeOK'
      BY <2>0, <2>14 DEF PollWakes, StatusAnswer
    <2>15. ASSUME NEW f \in fallbacks, PollAnswered(f) PROVE TypeOK'
      BY <2>0, <2>15 DEF PollAnswered, FinishJob
    <2>16. ASSUME NEW f \in fallbacks, PollFails(f) PROVE TypeOK'
      BY <2>0, <2>16 DEF PollFails
    <2>17. ASSUME NEW p \in Polls, ReadActive(p) \/ ReadLibrary(p) PROVE TypeOK'
      BY <2>0, <2>17 DEF ReadActive, ReadLibrary
    <2>18. ASSUME NEW p \in Polls, AdoptActive(p) PROVE TypeOK'
      <3>1. PICK added \in SUBSET Jobs :
              AdoptedCards(added, {s \in seen[p] : ~Listed(s)}, "running")
        BY <2>18, AdoptActiveEffect
      <3>2. /\ jobs' \subseteq Jobs /\ status' \in [Jobs -> Statuses]
            /\ streams' \subseteq Jobs \X Sessions
        BY <3>1 DEF AdoptedCards
      <3> QED
        BY <2>0, <2>18, <3>1, <3>2 DEF AdoptActive, AdoptedCards
    <2>19. ASSUME NEW p \in Polls, AdoptLibrary(p) PROVE TypeOK'
      <3>1. PICK added \in SUBSET Jobs : AdoptedCards(added, ToShow(p), "done")
        BY <2>19, AdoptLibraryEffect
      <3>2. /\ jobs' \subseteq Jobs /\ status' \in [Jobs -> Statuses]
            /\ streams' \subseteq Jobs \X Sessions
        BY <3>1 DEF AdoptedCards
      <3> QED
        BY <2>0, <2>19, <3>1, <3>2 DEF AdoptLibrary, AdoptedCards
    <2>20. ASSUME NEW p \in Polls, ReconnectFails(p) PROVE TypeOK'
      BY <2>0, <2>20 DEF ReconnectFails
    <2>21. ASSUME NEW s \in Sessions, Started(s) \/ Refused(s) \/ TaskEnds(s)
           PROVE  TypeOK'
      BY <2>0, <2>21 DEF Started, Refused, TaskEnds
    <2>22. ASSUME NEW l \in Loops, BeginSequential(l) PROVE TypeOK'
      BY <2>0, <2>22 DEF BeginSequential
    <2>23. CASE ClearAll
      BY <2>0, <2>23 DEF ClearAll, HasSession, Followed
    <2>24. ASSUME NEW l \in Loops, TurnOver(l) PROVE TypeOK'
      BY <2>0, <2>24 DEF TurnOver
    <2>25. CASE Reload
      BY <2>0, <2>25 DEF Reload
    <2>26. CASE Restart
      BY <2>0, <2>26 DEF Restart
    <2> QED
      BY <1>2, <2>1, <2>2, <2>3, <2>4, <2>5, <2>6, <2>7, <2>8, <2>9, <2>10, <2>11,
         <2>12, <2>13, <2>14, <2>15, <2>16, <2>17, <2>18, <2>19, <2>20, <2>21,
         <2>22, <2>23, <2>24, <2>25, <2>26, StepCases
  <1> QED
    BY <1>1, <1>2

\* And so are the sessions of the cards.
LEMMA SessionStep ==
  ASSUME TypeOK, HasSession, [Next]_vars
  PROVE  HasSession'
  <1> USE DEF TypeOK, HasSession, Followed, cards, watch, loop, polls, posts, service
  <1>1. CASE UNCHANGED vars
    BY <1>1 DEF vars
  <1>2. CASE Next
    <2>1. ASSUME NEW j \in Jobs, AddToQueue(j) PROVE HasSession'
      BY <2>1 DEF AddToQueue, Enqueue, Fresh, Referenced
    <2>2. ASSUME NEW j \in Jobs, CancelJob(j) PROVE HasSession'
      <3>1. \A k \in Jobs : status'[k] # "cancelled" => status'[k] = status[k]
        BY <2>2 DEF CancelJob, Found
      <3> QED
        BY <2>2, <3>1 DEF CancelJob
    <2>3. ASSUME NEW j \in Jobs, RemoveJob(j) PROVE HasSession'
      BY <2>3 DEF RemoveJob
    <2>4. ASSUME NEW j \in Jobs, NEW s \in Sessions, StartJob(j, s) PROVE HasSession'
      BY <2>4 DEF StartJob, Enqueue, Fresh, Referenced
    <2>5. ASSUME NEW j \in Jobs, NEW s \in Sessions, StartQueued(j, s) PROVE HasSession'
      BY <2>5 DEF StartQueued
    <2>6. ASSUME NEW j \in Jobs, NEW s \in Sessions, RetryJob(j, s) PROVE HasSession'
      BY <2>6 DEF RetryJob, Found
    <2>7. ASSUME NEW l \in Loops, NEW j \in Jobs, NEW s \in Sessions, LaunchNext(l, j, s)
          PROVE  HasSession'
      BY <2>7 DEF LaunchNext
    <2>8. ASSUME NEW j \in Jobs, NEW s \in Sessions, Launched(j, s) PROVE HasSession'
      BY <2>8 DEF Launched
    <2>9. ASSUME NEW j \in Jobs, NEW s \in Sessions, LaunchRefused(j, s) \/ LaunchLost(j, s)
          PROVE HasSession'
      BY <2>9 DEF LaunchRefused, LaunchLost, LaunchFails
    <2>10. ASSUME NEW j \in Jobs, NEW s \in Sessions, StreamFinal(j, s)
           PROVE  HasSession'
      BY <2>10 DEF StreamFinal, FinishJob
    <2>11. ASSUME NEW j \in Jobs, NEW s \in Sessions, StreamError(j, s) \/ StreamNotFound(j, s)
           PROVE  HasSession'
      <3>1. /\ status' = status /\ sid' = sid /\ streams' \subseteq streams
            /\ <<j, s>> \in streams
        BY <2>11 DEF StreamError, StreamNotFound, OnError
      <3>2. \A f \in fallbacks' : f \in fallbacks \/ f.job = j
        BY <2>11 DEF StreamError, StreamNotFound, OnError
      <3> QED
        BY <3>1, <3>2
    <2>12. ASSUME NEW j \in Jobs, NEW s \in Sessions, CancelArrives(j, s)
           PROVE  HasSession'
      BY <2>12 DEF CancelArrives
    <2>13. ASSUME NEW j \in Jobs, NEW s \in Sessions, Cancelled(j, s) PROVE HasSession'
      BY <2>13 DEF Cancelled, FinishJob
    <2>14. ASSUME NEW f \in fallbacks, PollWakes(f) PROVE HasSession'
      <3>1. /\ status' = status /\ sid' = sid /\ streams' = streams
        BY <2>14 DEF PollWakes
      <3>2. \A g \in fallbacks' : g \in fallbacks \/ g.job = f.job
        BY <2>14 DEF PollWakes
      <3> QED
        BY <3>1, <3>2
    <2>15. ASSUME NEW f \in fallbacks, PollAnswered(f) PROVE HasSession'
      <3>1. sid' = sid /\ streams' \subseteq streams
        BY <2>15 DEF PollAnswered
      <3>2. \A g \in fallbacks' : g \in fallbacks \/ g.job = f.job
        BY <2>15 DEF PollAnswered
      <3>3. \A k \in Jobs : k # f.job => status'[k] = status[k]
        BY <2>15 DEF PollAnswered, FinishJob
      <3> QED
        BY <3>1, <3>2, <3>3
    <2>16. ASSUME NEW f \in fallbacks, PollFails(f) PROVE HasSession'
      BY <2>16 DEF PollFails
    <2>17. ASSUME NEW p \in Polls, ReadActive(p) \/ ReadLibrary(p) PROVE HasSession'
      BY <2>17 DEF ReadActive, ReadLibrary
    <2>18. ASSUME NEW p \in Polls, AdoptActive(p) PROVE HasSession'
      <3>1. PICK added \in SUBSET Jobs :
              AdoptedCards(added, {s \in seen[p] : ~Listed(s)}, "running")
        BY <2>18, AdoptActiveEffect
      <3>2. fallbacks' = fallbacks
        BY <2>18 DEF AdoptActive
      <3> QED
        BY <3>1, <3>2 DEF AdoptedCards
    <2>19. ASSUME NEW p \in Polls, AdoptLibrary(p) PROVE HasSession'
      <3>1. PICK added \in SUBSET Jobs : AdoptedCards(added, ToShow(p), "done")
        BY <2>19, AdoptLibraryEffect
      <3>2. fallbacks' = fallbacks /\ ToShow(p) \subseteq Sessions
        BY <2>19 DEF AdoptLibrary, ToShow
      <3> QED
        BY <3>1, <3>2 DEF AdoptedCards
    <2>20. ASSUME NEW p \in Polls, ReconnectFails(p) PROVE HasSession'
      BY <2>20 DEF ReconnectFails
    <2>21. ASSUME NEW s \in Sessions, Started(s) \/ Refused(s) \/ TaskEnds(s)
           PROVE  HasSession'
      BY <2>21 DEF Started, Refused, TaskEnds
    <2>22. ASSUME NEW l \in Loops, BeginSequential(l) PROVE HasSession'
      BY <2>22 DEF BeginSequential
    <2>23. CASE ClearAll
      BY <2>23 DEF ClearAll
    <2>24. ASSUME NEW l \in Loops, TurnOver(l) PROVE HasSession'
      BY <2>24 DEF TurnOver
    <2>25. CASE Reload
      BY <2>25 DEF Reload
    <2>26. CASE Restart
      BY <2>26 DEF Restart
    <2> QED
      BY <1>2, <2>1, <2>2, <2>3, <2>4, <2>5, <2>6, <2>7, <2>8, <2>9, <2>10, <2>11,
         <2>12, <2>13, <2>14, <2>15, <2>16, <2>17, <2>18, <2>19, <2>20, <2>21,
         <2>22, <2>23, <2>24, <2>25, <2>26, StepCases
  <1> QED
    BY <1>1, <1>2

LEMMA TypesAndSessions == Spec => [](TypeOK /\ HasSession)
  <1>1. Init => TypeOK /\ HasSession
    BY BoundsAssumption DEF Init, TypeOK, HasSession, Followed, Statuses, Asked
  <1>2. TypeOK /\ HasSession /\ [Next]_vars => TypeOK' /\ HasSession'
    BY TypeStep, SessionStep
  <1> QED
    BY <1>1, <1>2, PTL DEF Spec

\* Every reachable state is of the declared types.
THEOREM TypeCorrect == Spec => []TypeOK
  BY TypesAndSessions, PTL

-----------------------------------------------------------------------------
\* A step leaves every listed card that runs with its stream or its loop.
LEMMA WatchStep ==
  ASSUME TypeOK, HasSession, WatchedWhileRunning, [Next]_vars
  PROVE  WatchedWhileRunning'
  <1> USE DEF TypeOK, WatchedWhileRunning, Watched, cards, watch, loop, polls, posts, service
  <1>1. CASE UNCHANGED vars
    BY <1>1 DEF vars
  <1>2. CASE Next
    <2>1. ASSUME NEW j \in Jobs, AddToQueue(j) PROVE WatchedWhileRunning'
      BY <2>1 DEF AddToQueue, Enqueue, Fresh, Referenced
    <2>2. ASSUME NEW j \in Jobs, CancelJob(j) PROVE WatchedWhileRunning'
      BY <2>2 DEF CancelJob, Found
    <2>3. ASSUME NEW j \in Jobs, RemoveJob(j) PROVE WatchedWhileRunning'
      BY <2>3 DEF RemoveJob
    <2>4. ASSUME NEW j \in Jobs, NEW s \in Sessions, StartJob(j, s)
          PROVE  WatchedWhileRunning'
      BY <2>4 DEF StartJob, Enqueue, Post, Fresh, Referenced
    <2>5. ASSUME NEW j \in Jobs, NEW s \in Sessions, StartQueued(j, s)
          PROVE  WatchedWhileRunning'
      BY <2>5 DEF StartQueued, Post
    <2>6. ASSUME NEW j \in Jobs, NEW s \in Sessions, RetryJob(j, s)
          PROVE  WatchedWhileRunning'
      BY <2>6 DEF RetryJob, Found, Post
    <2>7. ASSUME NEW l \in Loops, NEW j \in Jobs, NEW s \in Sessions, LaunchNext(l, j, s)
          PROVE  WatchedWhileRunning'
      BY <2>7 DEF LaunchNext, Post
    <2>8. ASSUME NEW j \in Jobs, NEW s \in Sessions, Launched(j, s)
          PROVE  WatchedWhileRunning'
      BY <2>8 DEF Launched
    <2>9. ASSUME NEW j \in Jobs, NEW s \in Sessions, LaunchRefused(j, s) \/ LaunchLost(j, s)
          PROVE  WatchedWhileRunning'
      BY <2>9 DEF LaunchRefused, LaunchLost, LaunchFails
    <2>10. ASSUME NEW j \in Jobs, NEW s \in Sessions, StreamFinal(j, s)
          PROVE  WatchedWhileRunning'
      BY <2>10 DEF StreamFinal, FinishJob
    <2>11. ASSUME NEW j \in Jobs, NEW s \in Sessions, StreamError(j, s) \/ StreamNotFound(j, s)
          PROVE  WatchedWhileRunning'
      <3>1. /\ UNCHANGED <<jobs, status, sid>>
            /\ \A k \in Jobs, t \in Sessions :
                 <<k, t>> \in streams /\ k # j => <<k, t>> \in streams'
            /\ \A f \in fallbacks : f \in fallbacks'
        BY <2>11 DEF StreamError, StreamNotFound, OnError
      <3>2. status[j] = "running" => [job |-> j, answer |-> "timer"] \in fallbacks'
        BY <2>11 DEF StreamError, StreamNotFound, OnError
      <3>3. status[j] = "running" => \E f \in fallbacks' : f.job = j
        BY <3>2
      <3>4. \A k \in jobs : status[k] = "running" => sid[k] \in Sessions
        BY DEF HasSession, Followed
      <3> QED
        BY <3>1, <3>3, <3>4
    <2>12. ASSUME NEW j \in Jobs, NEW s \in Sessions, CancelArrives(j, s)
          PROVE  WatchedWhileRunning'
      BY <2>12 DEF CancelArrives
    <2>13. ASSUME NEW j \in Jobs, NEW s \in Sessions, Cancelled(j, s)
          PROVE  WatchedWhileRunning'
      BY <2>13 DEF Cancelled, FinishJob
    <2>14. ASSUME NEW f \in fallbacks, PollWakes(f) PROVE WatchedWhileRunning'
      <3>1. UNCHANGED <<jobs, status, sid, streams>>
        BY <2>14 DEF PollWakes
      <3> DEFINE h == [f EXCEPT !.answer = StatusAnswer(sid[f.job])]
      <3>2. /\ \A g \in fallbacks : g = f \/ g \in fallbacks'
            /\ status[f.job] = "running" => h \in fallbacks'
            /\ h.job = f.job
        BY <2>14 DEF PollWakes
      <3> HIDE DEF h
      <3> QED
        BY <3>1, <3>2
    <2>15. ASSUME NEW f \in fallbacks, PollAnswered(f) PROVE WatchedWhileRunning'
      <3>1. UNCHANGED <<jobs, sid>>
        BY <2>15 DEF PollAnswered
      <3>2. CASE f.answer = "running"
        <4>1. /\ UNCHANGED <<status, streams>>
              /\ fallbacks' = (fallbacks \ {f}) \union {[f EXCEPT !.answer = "timer"]}
          BY <2>15, <3>2 DEF PollAnswered
        <4> DEFINE h == [f EXCEPT !.answer = "timer"]
        <4>2. /\ \A g \in fallbacks : g = f \/ g \in fallbacks'
              /\ h \in fallbacks' /\ h.job = f.job
          BY <4>1
        <4> HIDE DEF h
        <4> QED
          BY <3>1, <4>1, <4>2
      <3>3. CASE f.answer # "running"
        <4>1. /\ status' = [status EXCEPT ![f.job] = f.answer]
              /\ streams' = streams \ {<<f.job, es[f.job]>>}
              /\ fallbacks' = fallbacks \ {f}
          BY <2>15, <3>3 DEF PollAnswered, FinishJob
        <4>2. \A k \in Jobs : status'[k] = "running" => k # f.job /\ status[k] = "running"
          BY <3>3, <4>1
        <4>3. \A k \in Jobs : k # f.job /\ Watched(k) => Watched(k)'
          BY <3>1, <4>1
        <4> QED
          BY <3>1, <4>2, <4>3
      <3> QED
        BY <3>2, <3>3
    <2>16. ASSUME NEW f \in fallbacks, PollFails(f) PROVE WatchedWhileRunning'
      <3>1. UNCHANGED <<jobs, status, sid, streams>>
        BY <2>16 DEF PollFails
      <3> DEFINE h == [f EXCEPT !.answer = "error"]
      <3>2. /\ \A g \in fallbacks : g = f \/ g \in fallbacks'
            /\ h \in fallbacks' /\ h.job = f.job
        BY <2>16 DEF PollFails
      <3> HIDE DEF h
      <3> QED
        BY <3>1, <3>2
    <2>17. ASSUME NEW p \in Polls, ReadActive(p) \/ ReadLibrary(p)
          PROVE  WatchedWhileRunning'
      BY <2>17 DEF ReadActive, ReadLibrary
    <2>18. ASSUME NEW p \in Polls, AdoptActive(p) PROVE WatchedWhileRunning'
      <3>1. PICK added \in SUBSET Jobs :
              AdoptedCards(added, {s \in seen[p] : ~Listed(s)}, "running")
        BY <2>18, AdoptActiveEffect
      <3> QED
        BY <2>18, <3>1 DEF AdoptActive, AdoptedCards
    <2>19. ASSUME NEW p \in Polls, AdoptLibrary(p) PROVE WatchedWhileRunning'
      <3>1. PICK added \in SUBSET Jobs : AdoptedCards(added, ToShow(p), "done")
        BY <2>19, AdoptLibraryEffect
      <3> QED
        BY <2>19, <3>1 DEF AdoptLibrary, AdoptedCards, ToShow
    <2>20. ASSUME NEW p \in Polls, ReconnectFails(p) PROVE WatchedWhileRunning'
      BY <2>20 DEF ReconnectFails
    <2>21. ASSUME NEW s \in Sessions, Started(s) \/ Refused(s) \/ TaskEnds(s)
          PROVE  WatchedWhileRunning'
      BY <2>21 DEF Started, Refused, TaskEnds
    <2>22. ASSUME NEW l \in Loops, BeginSequential(l) PROVE WatchedWhileRunning'
      BY <2>22 DEF BeginSequential
    <2>23. CASE ClearAll
      BY <2>23 DEF ClearAll
    <2>24. ASSUME NEW l \in Loops, TurnOver(l) PROVE WatchedWhileRunning'
      BY <2>24 DEF TurnOver
    <2>25. CASE Reload
      BY <2>25 DEF Reload
    <2>26. CASE Restart
      <3>1. UNCHANGED <<jobs, status, sid>>
        BY <2>26 DEF Restart
      <3>2. \A k \in Jobs, s \in Sessions :
              status[k] = "running" /\ <<k, s>> \in streams
                => [job |-> k, answer |-> "timer"] \in fallbacks'
        BY <2>26 DEF Restart
      <3>3. \A k \in Jobs, s \in Sessions :
              status[k] = "running" /\ <<k, s>> \in streams
                => \E f \in fallbacks' : f.job = k
        BY <3>2
      <3>4. fallbacks \subseteq fallbacks'
        BY <2>26 DEF Restart
      <3>5. \A k \in jobs : status[k] = "running" => sid[k] \in Sessions
        BY DEF HasSession, Followed
      <3> QED
        BY <3>1, <3>3, <3>4, <3>5
    <2> QED
      BY <1>2, <2>1, <2>2, <2>3, <2>4, <2>5, <2>6, <2>7, <2>8, <2>9, <2>10, <2>11,
         <2>12, <2>13, <2>14, <2>15, <2>16, <2>17, <2>18, <2>19, <2>20, <2>21,
         <2>22, <2>23, <2>24, <2>25, <2>26, StepCases
  <1> QED
    BY <1>1, <1>2

\* A listed card that says running has the stream of its session or a loop.
THEOREM RunningIsWatched == Spec => []WatchedWhileRunning
  <1>1. Init => WatchedWhileRunning
    BY DEF Init, WatchedWhileRunning
  <1>2. TypeOK /\ HasSession /\ WatchedWhileRunning /\ [Next]_vars => WatchedWhileRunning'
    BY WatchStep
  <1> QED
    BY <1>1, <1>2, TypesAndSessions, PTL DEF Spec

-----------------------------------------------------------------------------
\* Whatever can tell a card that it is done speaks of a session it followed.
Truthful ==
  /\ disk \subseteq reported
  /\ \A s \in Sessions : task[s] = "done" => s \in reported
  /\ \A j \in Jobs, s \in Sessions : <<j, s>> \in streams => s \in had[j]
  /\ \A j \in Jobs : status[j] = "running" => sid[j] \in had[j]
  /\ \A f \in fallbacks : f.answer = "done" => had[f.job] \intersect reported # {}
  /\ \A p \in Polls : stage[p] = "library" => seen[p] \subseteq reported
  /\ \A j \in Jobs : status[j] = "done" => had[j] \intersect reported # {}

\* Every step keeps them truthful.
LEMMA TruthStep ==
  ASSUME TypeOK, HasSession, Truthful, [Next]_vars
  PROVE  Truthful'
  <1> USE DEF TypeOK, Truthful, cards, watch, loop, polls, posts, service
  <1>1. CASE UNCHANGED vars
    BY <1>1 DEF vars
  <1>2. CASE Next
    <2>1. ASSUME NEW j \in Jobs, AddToQueue(j) PROVE Truthful'
      BY <2>1 DEF AddToQueue, Enqueue, Fresh, Referenced
    <2>2. ASSUME NEW j \in Jobs, CancelJob(j) PROVE Truthful'
      BY <2>2 DEF CancelJob, Found
    <2>3. ASSUME NEW j \in Jobs, RemoveJob(j) PROVE Truthful'
      BY <2>3 DEF RemoveJob
    <2>4. ASSUME NEW j \in Jobs, NEW s \in Sessions, StartJob(j, s) PROVE Truthful'
      BY <2>4 DEF StartJob, Enqueue, Post, Fresh, Referenced
    <2>5. ASSUME NEW j \in Jobs, NEW s \in Sessions, StartQueued(j, s) PROVE Truthful'
      BY <2>5 DEF StartQueued, Post
    <2>6. ASSUME NEW j \in Jobs, NEW s \in Sessions, RetryJob(j, s) PROVE Truthful'
      BY <2>6 DEF RetryJob, Found, Post
    <2>7. ASSUME NEW l \in Loops, NEW j \in Jobs, NEW s \in Sessions, LaunchNext(l, j, s)
          PROVE  Truthful'
      BY <2>7 DEF LaunchNext, Post
    <2>8. ASSUME NEW j \in Jobs, NEW s \in Sessions, Launched(j, s) PROVE Truthful'
      BY <2>8 DEF Launched
    <2>9. ASSUME NEW j \in Jobs, NEW s \in Sessions, LaunchRefused(j, s) \/ LaunchLost(j, s)
          PROVE  Truthful'
      BY <2>9 DEF LaunchRefused, LaunchLost, LaunchFails
    <2>10. ASSUME NEW j \in Jobs, NEW s \in Sessions, StreamFinal(j, s) PROVE Truthful'
      BY <2>10 DEF StreamFinal, FinishJob
    <2>11. ASSUME NEW j \in Jobs, NEW s \in Sessions, StreamError(j, s) \/ StreamNotFound(j, s)
           PROVE  Truthful'
      BY <2>11 DEF StreamError, StreamNotFound, OnError
    <2>12. ASSUME NEW j \in Jobs, NEW s \in Sessions, CancelArrives(j, s)
           PROVE  Truthful'
      BY <2>12 DEF CancelArrives
    <2>13. ASSUME NEW j \in Jobs, NEW s \in Sessions, Cancelled(j, s) PROVE Truthful'
      BY <2>13 DEF Cancelled, FinishJob
    <2>14. ASSUME NEW f \in fallbacks, PollWakes(f) PROVE Truthful'
      BY <2>14 DEF PollWakes, StatusAnswer
    <2>15. ASSUME NEW f \in fallbacks, PollAnswered(f) PROVE Truthful'
      BY <2>15 DEF PollAnswered, FinishJob
    <2>16. ASSUME NEW f \in fallbacks, PollFails(f) PROVE Truthful'
      BY <2>16 DEF PollFails
    <2>17. ASSUME NEW p \in Polls, ReadActive(p) \/ ReadLibrary(p) PROVE Truthful'
      BY <2>17 DEF ReadActive, ReadLibrary
    <2>18. ASSUME NEW p \in Polls, AdoptActive(p) PROVE Truthful'
      <3>1. PICK added \in SUBSET Jobs :
              AdoptedCards(added, {s \in seen[p] : ~Listed(s)}, "running")
        BY <2>18, AdoptActiveEffect
      <3>2. /\ UNCHANGED <<task, disk, reported, fallbacks>>
            /\ stage' = [stage EXCEPT ![p] = "between"]
            /\ seen' = [seen EXCEPT ![p] = {}]
        BY <2>18 DEF AdoptActive
      <3>3. \A f \in fallbacks : f.job \notin added
        BY <3>1 DEF AdoptedCards, Fresh, Referenced
      <3>4. \A j \in added : status'[j] = "running" /\ had'[j] = {sid'[j]}
        BY <3>1 DEF AdoptedCards
      <3>5. \A j \in Jobs \ added : status'[j] = status[j] /\ had'[j] = had[j] /\ sid'[j] = sid[j]
        BY <3>1 DEF AdoptedCards
      <3>6. \A j \in Jobs, s \in Sessions : <<j, s>> \in streams' => s \in had'[j]
        <4> SUFFICES ASSUME NEW j \in Jobs, NEW s \in Sessions, <<j, s>> \in streams'
                     PROVE  s \in had'[j]
          OBVIOUS
        <4>1. CASE <<j, s>> \in streams
          <5>1. j \notin added
            BY <3>1, <4>1 DEF AdoptedCards, Fresh, Referenced
          <5> QED
            BY <3>5, <4>1, <5>1
        <4>2. CASE <<j, s>> \notin streams
          BY <3>1, <3>4, <4>2 DEF AdoptedCards
        <4> QED
          BY <4>1, <4>2
      <3>7. \A f \in fallbacks : f.job \in Jobs
        OBVIOUS
      <3> QED
        BY <3>2, <3>3, <3>4, <3>5, <3>6, <3>7
    <2>19. ASSUME NEW p \in Polls, AdoptLibrary(p) PROVE Truthful'
      <3>1. PICK added \in SUBSET Jobs : AdoptedCards(added, ToShow(p), "done")
        BY <2>19, AdoptLibraryEffect
      <3>2. /\ UNCHANGED <<task, disk, reported, fallbacks>>
            /\ stage' = [stage EXCEPT ![p] = "idle"]
            /\ seen' = [seen EXCEPT ![p] = {}]
            /\ ToShow(p) \subseteq reported
        BY <2>19 DEF AdoptLibrary, ToShow
      <3>3. \A f \in fallbacks : f.job \notin added
        BY <3>1 DEF AdoptedCards, Fresh, Referenced
      <3>4. \A j \in added : status'[j] = "done" /\ had'[j] = {sid'[j]} /\ sid'[j] \in reported
        BY <3>1, <3>2 DEF AdoptedCards
      <3>5. \A j \in Jobs \ added : status'[j] = status[j] /\ had'[j] = had[j] /\ sid'[j] = sid[j]
        BY <3>1 DEF AdoptedCards
      <3>6. \A j \in Jobs, s \in Sessions : <<j, s>> \in streams' => s \in had'[j]
        <4> SUFFICES ASSUME NEW j \in Jobs, NEW s \in Sessions, <<j, s>> \in streams'
                     PROVE  s \in had'[j]
          OBVIOUS
        <4>1. CASE <<j, s>> \in streams
          <5>1. j \notin added
            BY <3>1, <4>1 DEF AdoptedCards, Fresh, Referenced
          <5> QED
            BY <3>5, <4>1, <5>1
        <4>2. CASE <<j, s>> \notin streams
          BY <3>1, <3>4, <4>2 DEF AdoptedCards
        <4> QED
          BY <4>1, <4>2
      <3>7. \A f \in fallbacks : f.job \in Jobs
        OBVIOUS
      <3> QED
        BY <3>2, <3>3, <3>4, <3>5, <3>6, <3>7
    <2>20. ASSUME NEW p \in Polls, ReconnectFails(p) PROVE Truthful'
      BY <2>20 DEF ReconnectFails
    <2>21. ASSUME NEW s \in Sessions, Started(s) \/ Refused(s) \/ TaskEnds(s)
          PROVE  Truthful'
      BY <2>21 DEF Started, Refused, TaskEnds
    <2>22. ASSUME NEW l \in Loops, BeginSequential(l) PROVE Truthful'
      BY <2>22 DEF BeginSequential
    <2>23. CASE ClearAll
      BY <2>23 DEF ClearAll
    <2>24. ASSUME NEW l \in Loops, TurnOver(l) PROVE Truthful'
      BY <2>24 DEF TurnOver
    <2>25. CASE Reload
      BY <2>25 DEF Reload
    <2>26. CASE Restart
      BY <2>26 DEF Restart
    <2> QED
      BY <1>2, <2>1, <2>2, <2>3, <2>4, <2>5, <2>6, <2>7, <2>8, <2>9, <2>10, <2>11,
         <2>12, <2>13, <2>14, <2>15, <2>16, <2>17, <2>18, <2>19, <2>20, <2>21,
         <2>22, <2>23, <2>24, <2>25, <2>26, StepCases
  <1> QED
    BY <1>1, <1>2

\* A card says done only if the task of a session it has followed has ended with
\* a report, whether or not that was saved.
THEOREM DoneIsFinished == Spec => []DoneWasFinished
  <1>1. Init => Truthful
    BY DEF Init, Truthful
  <1>2. TypeOK /\ HasSession /\ Truthful /\ [Next]_vars => Truthful'
    BY TruthStep
  <1>3. TypeOK /\ Truthful => DoneWasFinished
    BY DEF TypeOK, Truthful, DoneWasFinished
  <1> QED
    BY <1>1, <1>2, <1>3, TypesAndSessions, PTL DEF Spec

-----------------------------------------------------------------------------
\* A cleared session stays cleared in every step.
LEMMA ClearedStep ==
  ASSUME TypeOK, NEW t \in Sessions, Cleared(t), [Next]_vars
  PROVE  Cleared(t)'
  <1> USE DEF TypeOK, Cleared, Listed, cards, watch, loop, polls, posts, service
  <1>1. CASE UNCHANGED vars
    BY <1>1 DEF vars
  <1>2. CASE Next
    <2>1. ASSUME NEW j \in Jobs, AddToQueue(j) PROVE Cleared(t)'
      <3>1. /\ jobs' = jobs \union {j} /\ sid' = [sid EXCEPT ![j] = NoSession]
            /\ UNCHANGED <<polls, dismissed, posts, service>>
        BY <2>1 DEF AddToQueue, Enqueue
      <3> QED
        BY <3>1, NamesAssumption
    <2>2. ASSUME NEW j \in Jobs, CancelJob(j) PROVE Cleared(t)'
      BY <2>2 DEF CancelJob, Found
    <2>3. ASSUME NEW j \in Jobs, RemoveJob(j) PROVE Cleared(t)'
      BY <2>3 DEF RemoveJob
    <2>4. ASSUME NEW j \in Jobs, NEW s \in Sessions, StartJob(j, s) PROVE Cleared(t)'
      <3>1. /\ jobs' = jobs \union {j} /\ sid' = [sid EXCEPT ![j] = NoSession]
            /\ call[s] = "unused" /\ call' = [call EXCEPT ![s] = "sent"]
            /\ UNCHANGED <<polls, dismissed, service>>
        BY <2>4 DEF StartJob, Enqueue, Post
      <3> QED
        BY <3>1, NamesAssumption
    <2>5. ASSUME NEW j \in Jobs, NEW s \in Sessions, StartQueued(j, s) PROVE Cleared(t)'
      BY <2>5 DEF StartQueued, Post
    <2>6. ASSUME NEW j \in Jobs, NEW s \in Sessions, RetryJob(j, s) PROVE Cleared(t)'
      BY <2>6 DEF RetryJob, Found, Post
    <2>7. ASSUME NEW l \in Loops, NEW j \in Jobs, NEW s \in Sessions, LaunchNext(l, j, s)
          PROVE  Cleared(t)'
      BY <2>7 DEF LaunchNext, Post
    <2>8. ASSUME NEW j \in Jobs, NEW s \in Sessions, Launched(j, s) PROVE Cleared(t)'
      BY <2>8 DEF Launched
    <2>9. ASSUME NEW j \in Jobs, NEW s \in Sessions, LaunchRefused(j, s) \/ LaunchLost(j, s)
          PROVE  Cleared(t)'
      BY <2>9 DEF LaunchRefused, LaunchLost, LaunchFails
    <2>10. ASSUME NEW j \in Jobs, NEW s \in Sessions, StreamFinal(j, s)
           PROVE  Cleared(t)'
      BY <2>10 DEF StreamFinal, FinishJob
    <2>11. ASSUME NEW j \in Jobs, NEW s \in Sessions, StreamError(j, s) \/ StreamNotFound(j, s)
           PROVE  Cleared(t)'
      BY <2>11 DEF StreamError, StreamNotFound, OnError
    <2>12. ASSUME NEW j \in Jobs, NEW s \in Sessions, CancelArrives(j, s)
           PROVE  Cleared(t)'
      BY <2>12 DEF CancelArrives
    <2>13. ASSUME NEW j \in Jobs, NEW s \in Sessions, Cancelled(j, s) PROVE Cleared(t)'
      BY <2>13 DEF Cancelled, FinishJob
    <2>14. ASSUME NEW f \in fallbacks, PollWakes(f) PROVE Cleared(t)'
      BY <2>14 DEF PollWakes, StatusAnswer
    <2>15. ASSUME NEW f \in fallbacks, PollAnswered(f) PROVE Cleared(t)'
      BY <2>15 DEF PollAnswered, FinishJob
    <2>16. ASSUME NEW f \in fallbacks, PollFails(f) PROVE Cleared(t)'
      BY <2>16 DEF PollFails
    <2>17. ASSUME NEW p \in Polls, ReadActive(p) \/ ReadLibrary(p) PROVE Cleared(t)'
      BY <2>17 DEF ReadActive, ReadLibrary
    <2>18. ASSUME NEW p \in Polls, AdoptActive(p) PROVE Cleared(t)'
      <3>1. PICK added \in SUBSET Jobs :
              AdoptedCards(added, {s \in seen[p] : ~Listed(s)}, "running")
        BY <2>18, AdoptActiveEffect
      <3> QED
        BY <2>18, <3>1 DEF AdoptActive, AdoptedCards
    <2>19. ASSUME NEW p \in Polls, AdoptLibrary(p) PROVE Cleared(t)'
      <3>1. PICK added \in SUBSET Jobs : AdoptedCards(added, ToShow(p), "done")
        BY <2>19, AdoptLibraryEffect
      <3> QED
        BY <2>19, <3>1 DEF AdoptLibrary, AdoptedCards, ToShow
    <2>20. ASSUME NEW p \in Polls, ReconnectFails(p) PROVE Cleared(t)'
      BY <2>20 DEF ReconnectFails
    <2>21. ASSUME NEW s \in Sessions, Started(s) \/ Refused(s) \/ TaskEnds(s)
          PROVE  Cleared(t)'
      BY <2>21 DEF Started, Refused, TaskEnds
    <2>22. ASSUME NEW l \in Loops, BeginSequential(l) PROVE Cleared(t)'
      BY <2>22 DEF BeginSequential
    <2>23. CASE ClearAll
      BY <2>23 DEF ClearAll
    <2>24. ASSUME NEW l \in Loops, TurnOver(l) PROVE Cleared(t)'
      BY <2>24 DEF TurnOver
    <2>25. CASE Reload
      BY <2>25 DEF Reload
    <2>26. CASE Restart
      BY <2>26 DEF Restart
    <2> QED
      BY <1>2, <2>1, <2>2, <2>3, <2>4, <2>5, <2>6, <2>7, <2>8, <2>9, <2>10, <2>11,
         <2>12, <2>13, <2>14, <2>15, <2>16, <2>17, <2>18, <2>19, <2>20, <2>21,
         <2>22, <2>23, <2>24, <2>25, <2>26, StepCases
  <1> QED
    BY <1>1, <1>2

\* A cleared session that nothing on its way can show never gets a card again.
THEOREM ClearingIsFinal == Spec => ClearedStays
  <1>1. TypeOK /\ [Next]_vars => \A s \in Sessions : Cleared(s) => Cleared(s)'
    BY ClearedStep
  <1> QED
    BY <1>1, TypeCorrect, PTL DEF Spec, ClearedStays

=============================================================================
