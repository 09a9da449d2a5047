-------------------------- MODULE DetachedRunsProofs --------------------------
(***************************************************************************)
(* Proofs about DetachedRuns, for any sets of runs and clients and any     *)
(* bounds.  The heart is Seam: what is in a subscriber's queue continues   *)
(* what its replay has yielded, up to the end of the buffer.               *)
(***************************************************************************)
EXTENDS DetachedRuns, SequenceTheorems, TLAPS

Items == Nat \union {End}

\* The sentinel is in the queue q.
Told(q) == q # <<>> /\ q[Len(q)] = End
\* The events in it.
Pending(q) == IF Told(q) THEN Len(q) - 1 ELSE Len(q)

\* The queue q ends with the last of n events.
UpTo(q, n) ==
  /\ Pending(q) <= n
  /\ \A i \in 1..Pending(q) : q[i] = n - Pending(q) + i - 1

\* A run that has another status than running has no task.
Settled == \A r \in Runs : status[r] # "running" => task[r] = "over"

\* What a client has is what its next_seq says, and no more than the buffer.
GotIsNext ==
  \A c \in Clients :
    /\ Len(got[c]) = next[c]
    /\ \A i \in 1..next[c] : got[c][i] = i - 1

Fresh(c) == run[c] = NoRun /\ queue[c] = <<>> /\ next[c] = 0

SeamOf(c) ==
  /\ stage[c] \in {"off", "asked"} => Fresh(c)
  /\ Subscribed(c) =>
       /\ run[c] \in Runs
       /\ next[c] <= buffer[run[c]]
       /\ UpTo(queue[c], buffer[run[c]])
       /\ Told(queue[c]) => status[run[c]] # "running"
       /\ stage[c] = "live" => next[c] >= buffer[run[c]] - Pending(queue[c])
  /\ stage[c] = "ended" /\ run[c] # NoRun
       => status[run[c]] # "running" /\ next[c] = buffer[run[c]]

Seam == \A c \in Clients : SeamOf(c)

\* A run that another waits for has been started.
PrevStarted == \A r \in Runs : prev[r] # NoRun => task[prev[r]] # "none"

IInv ==
  TypeOK /\ Settled /\ GotIsNext /\ Seam /\ EvictionArmed /\ PrevStarted /\ WaitsForReplaced

-----------------------------------------------------------------------------
\* What appending does to a queue that has no sentinel yet.
LEMMA ItemsAppend ==
  ASSUME NEW q \in Seq(Items), NEW t \in Seq(Items)
  PROVE  /\ q \o t \in Seq(Items)
         /\ Len(q \o t) = Len(q) + Len(t)
         /\ \A i \in 1..Len(q) : (q \o t)[i] = q[i]
         /\ \A i \in 1..Len(t) : (q \o t)[Len(q) + i] = t[i]
  <1>1. /\ q \o t \in Seq(Items)
        /\ Len(q \o t) = Len(q) + Len(t)
        /\ \A i \in 1 .. Len(q) + Len(t) :
             (q \o t)[i] = IF i <= Len(q) THEN q[i] ELSE t[i - Len(q)]
    BY ConcatProperties
  <1>2. Len(q) \in Nat /\ Len(t) \in Nat
    OBVIOUS
  <1>3. ASSUME NEW i \in 1..Len(t) PROVE (q \o t)[Len(q) + i] = t[i]
    <2>1. Len(q) + i \in 1 .. Len(q) + Len(t) /\ ~(Len(q) + i <= Len(q)) /\ Len(q) + i - Len(q) = i
      BY <1>2
    <2> QED
      BY <1>1, <2>1
  <1> QED
    BY <1>1, <1>2, <1>3

LEMMA EventAppended ==
  ASSUME NEW q \in Seq(Items), NEW n \in Nat, UpTo(q, n), ~Told(q)
  PROVE  /\ q \o <<n>> \in Seq(Items)
         /\ UpTo(q \o <<n>>, n + 1) /\ ~Told(q \o <<n>>)
         /\ Pending(q \o <<n>>) = Pending(q) + 1
  <1> DEFINE t == <<n>>
             w == q \o t
  <1>1. t \in Seq(Items) /\ Len(t) = 1 /\ t[1] = n /\ n # End
    BY DEF Items, End
  <1> HIDE DEF t
  <1>2. /\ w \in Seq(Items) /\ Len(w) = Len(q) + 1
        /\ \A i \in 1..Len(q) : w[i] = q[i]
        /\ w[Len(q) + 1] = n
    BY <1>1, ItemsAppend
  <1>3. Len(q) \in Nat
    OBVIOUS
  <1> HIDE DEF w
  <1>4. ~Told(w)
    BY <1>1, <1>2, <1>3 DEF Told
  <1>5. Pending(w) = Len(q) + 1 /\ Pending(q) = Len(q)
    BY <1>2, <1>4 DEF Pending
  <1>6. UpTo(w, n + 1)
    BY <1>2, <1>3, <1>5 DEF UpTo
  <1> QED
    BY <1>2, <1>4, <1>5, <1>6 DEF w, t

LEMMA EndAppended ==
  ASSUME NEW q \in Seq(Items), NEW n \in Nat, UpTo(q, n), ~Told(q)
  PROVE  /\ q \o <<End>> \in Seq(Items)
         /\ UpTo(q \o <<End>>, n) /\ Told(q \o <<End>>)
         /\ Pending(q \o <<End>>) = Pending(q)
  <1> DEFINE t == <<End>>
             w == q \o t
  <1>1. t \in Seq(Items) /\ Len(t) = 1 /\ t[1] = End
    BY DEF Items
  <1> HIDE DEF t
  <1>2. /\ w \in Seq(Items) /\ Len(w) = Len(q) + 1
        /\ \A i \in 1..Len(q) : w[i] = q[i]
        /\ w[Len(q) + 1] = End
    BY <1>1, ItemsAppend
  <1>3. Len(q) \in Nat
    OBVIOUS
  <1> HIDE DEF w
  <1>4. Told(w)
    BY <1>2, <1>3 DEF Told
  <1>5. Pending(w) = Len(q) /\ Pending(q) = Len(q)
    BY <1>2, <1>3, <1>4 DEF Pending
  <1>6. UpTo(w, n)
    BY <1>2, <1>3, <1>5 DEF UpTo
  <1> QED
    BY <1>2, <1>4, <1>5, <1>6 DEF w, t

LEMMA FailureAppended ==
  ASSUME NEW q \in Seq(Items), NEW n \in Nat, UpTo(q, n), ~Told(q)
  PROVE  /\ q \o <<n, n + 1, End>> \in Seq(Items)
         /\ UpTo(q \o <<n, n + 1, End>>, n + 2) /\ Told(q \o <<n, n + 1, End>>)
         /\ Pending(q \o <<n, n + 1, End>>) = Pending(q) + 2
  <1> DEFINE t == <<n, n + 1, End>>
             w == q \o t
  <1>1. t \in Seq(Items) /\ Len(t) = 3 /\ t[1] = n /\ t[2] = n + 1 /\ t[3] = End
    BY DEF Items
  <1> HIDE DEF t
  <1>2. /\ w \in Seq(Items) /\ Len(w) = Len(q) + 3
        /\ \A i \in 1..Len(q) : w[i] = q[i]
        /\ w[Len(q) + 1] = n /\ w[Len(q) + 2] = n + 1 /\ w[Len(q) + 3] = End
    <2>1. 1 \in 1..Len(t) /\ 2 \in 1..Len(t) /\ 3 \in 1..Len(t)
      BY <1>1
    <2>2. /\ w \in Seq(Items) /\ Len(w) = Len(q) + Len(t)
          /\ \A i \in 1..Len(q) : w[i] = q[i]
          /\ \A i \in 1..Len(t) : w[Len(q) + i] = t[i]
      BY <1>1, ItemsAppend
    <2> HIDE DEF w
    <2> QED
      BY <1>1, <2>1, <2>2
  <1>3. Len(q) \in Nat
    OBVIOUS
  <1> HIDE DEF w
  <1>4. Told(w)
    BY <1>2, <1>3 DEF Told
  <1>5. Pending(w) = Len(q) + 2 /\ Pending(q) = Len(q)
    BY <1>2, <1>3, <1>4 DEF Pending
  <1>6. UpTo(w, n + 2)
    <2>0. Pending(w) <= n + 2
      BY <1>3, <1>5 DEF UpTo
    <2> SUFFICES ASSUME NEW i \in 1..(Len(q) + 2) PROVE w[i] = n - Len(q) + i - 1
      BY <2>0, <1>3, <1>5 DEF UpTo
    <2>1. CASE i \in 1..Len(q)
      BY <1>2, <1>5, <2>1 DEF UpTo
    <2>2. CASE i = Len(q) + 1
      BY <1>2, <1>3, <2>2
    <2>3. CASE i = Len(q) + 2
      BY <1>2, <1>3, <2>3
    <2> QED
      BY <1>3, <2>1, <2>2, <2>3
  <1> QED
    BY <1>2, <1>4, <1>5, <1>6 DEF w, t

\* And what taking the head of a queue does.
LEMMA EventTaken ==
  ASSUME NEW q \in Seq(Items), NEW n \in Nat, UpTo(q, n), q # <<>>, Head(q) # End
  PROVE  /\ Pending(q) \in 1..n /\ Head(q) = n - Pending(q)
         /\ UpTo(Tail(q), n) /\ (Told(Tail(q)) <=> Told(q))
         /\ Pending(Tail(q)) = Pending(q) - 1
  <1> DEFINE w == Tail(q)
  <1>1. /\ Len(q) \in Nat \ {0} /\ Head(q) = q[1] /\ w \in Seq(Items)
        /\ Len(w) = Len(q) - 1 /\ \A i \in 1..Len(w) : w[i] = q[i + 1]
    BY EmptySeq, HeadTailProperties
  <1> HIDE DEF w
  <1>2. Told(q) => Len(q) > 1
    BY <1>1 DEF Told
  <1>3. Told(w) <=> Told(q)
    <2>1. CASE Len(q) = 1
      BY <1>1, <1>2, <2>1 DEF Told
    <2>2. CASE Len(q) > 1
      <3>1. w[Len(w)] = q[Len(q)] /\ w # <<>>
        BY <1>1, <2>2
      <3> QED
        BY <1>1, <3>1 DEF Told
    <2> QED
      BY <1>1, <2>1, <2>2
  <1>4. Pending(q) \in Nat \ {0} /\ Pending(w) = Pending(q) - 1 /\ Pending(q) <= Len(q)
    BY <1>1, <1>2, <1>3 DEF Pending
  <1>5. Pending(q) \in 1..n /\ q[1] = n - Pending(q)
    BY <1>4 DEF UpTo
  <1>6. UpTo(w, n)
    <2> SUFFICES ASSUME NEW i \in 1..Pending(w) PROVE w[i] = n - Pending(w) + i - 1
      BY <1>4, <1>5 DEF UpTo
    <2>1. i \in 1..Len(w) /\ i + 1 \in 1..Pending(q)
      BY <1>1, <1>4
    <2>2. w[i] = q[i + 1] /\ q[i + 1] = n - Pending(q) + (i + 1) - 1
      BY <1>1, <2>1 DEF UpTo
    <2> QED
      BY <1>4, <1>5, <2>2
  <1> QED
    BY <1>1, <1>3, <1>4, <1>5, <1>6 DEF w

LEMMA EndAtHead ==
  ASSUME NEW q \in Seq(Items), NEW n \in Nat, UpTo(q, n), q # <<>>, Head(q) = End
  PROVE  Told(q) /\ Pending(q) = 0
  <1>1. Len(q) \in Nat \ {0} /\ q[1] = End
    BY EmptySeq, HeadTailProperties
  <1>2. Pending(q) \in Nat
    BY <1>1 DEF Pending
  <1>3. ~(Pending(q) >= 1)
    <2> SUFFICES ASSUME Pending(q) >= 1 PROVE FALSE
      OBVIOUS
    <2>1. q[1] = n - Pending(q) /\ Pending(q) <= n
      BY <1>2 DEF UpTo
    <2> QED
      BY <1>1, <1>2, <2>1 DEF End
  <1> QED
    BY <1>1, <1>2, <1>3 DEF Pending, Told

-----------------------------------------------------------------------------
\* Every step is one of these.
LEMMA StepCases ==
  ASSUME Next
  PROVE  \/ \E c \in Clients, r \in Runs : Post(c, r)
         \/ \E c \in Clients :
              \/ Resume(c) \/ Subscribe(c) \/ Replay(c) \/ Replayed(c)
              \/ Take(c) \/ Ends(c) \/ Leave(c)
         \/ \E r \in Runs :
              \/ Begin(r) \/ PrevOver(r) \/ Publish(r) \/ Finish(r) \/ Fail(r)
              \/ Cancel(r) \/ Saved(r) \/ Evict(r)
         \/ Stop
  BY DEF Next, ClientNext, DrainNext

LEMMA FanTyped ==
  ASSUME TypeOK, NEW r \in Runs, NEW items \in Seq(Items), Fan(r, items)
  PROVE  queue' \in [Clients -> Seq(Items)]
  <1>1. \A c \in Clients : queue[c] \in Seq(Items)
    BY DEF TypeOK, Items
  <1>2. \A c \in Clients : queue[c] \o items \in Seq(Items)
    BY <1>1, ItemsAppend
  <1> QED
    BY <1>1, <1>2 DEF Fan

\* The types are kept by every step.
LEMMA TypeStep ==
  ASSUME TypeOK, Seam, [Next]_vars
  PROVE  TypeOK'
  <1> USE DEF TypeOK, drains, log, subs
  <1>1. CASE UNCHANGED vars
    BY <1>1 DEF vars
  <1>2. ASSUME NEW c \in Clients, NEW r \in Runs, Post(c, r) PROVE TypeOK'
    BY <1>2 DEF Post, Start
  <1>3. ASSUME NEW c \in Clients, Resume(c) PROVE TypeOK'
    BY <1>3 DEF Resume
  <1>4. ASSUME NEW c \in Clients, Subscribe(c) PROVE TypeOK'
    BY <1>4 DEF Subscribe
  <1>5. ASSUME NEW c \in Clients, Replay(c) PROVE TypeOK'
    <2>1. Append(got[c], next[c]) \in Seq(Nat) /\ next[c] + 1 \in Nat
      BY AppendProperties
    <2> QED
      BY <1>5, <2>1 DEF Replay, Yield
  <1>6. ASSUME NEW c \in Clients, Replayed(c) PROVE TypeOK'
    BY <1>6 DEF Replayed, Gone, ScheduleEvict
  <1>7. ASSUME NEW c \in Clients, Take(c) PROVE TypeOK'
    <2>1. Head(queue[c]) \in Nat /\ Tail(queue[c]) \in Seq(Items)
      BY <1>7, HeadTailProperties DEF Take, Items
    <2>2. Append(got[c], Head(queue[c])) \in Seq(Nat) /\ Head(queue[c]) + 1 \in Nat
      BY <2>1, AppendProperties
    <2>3. got' \in [Clients -> Seq(Nat)] /\ next' \in [Clients -> Nat]
      BY <1>7, <2>2 DEF Take, Yield
    <2>4. queue' \in [Clients -> Seq(Items)]
      BY <1>7, <2>1 DEF Take, Items
    <2> QED
      BY <1>7, <2>3, <2>4 DEF Take, Items
  <1>8. ASSUME NEW c \in Clients, Ends(c) PROVE TypeOK'
    <2>1. run[c] \in Runs /\ next[c] <= buffer[run[c]]
      BY <1>8 DEF Ends, Seam, SeamOf, Subscribed
    <2> DEFINE rest == [i \in 1..(buffer[run[c]] - next[c]) |-> next[c] + i - 1]
    <2>2. rest \in Seq(Nat)
      <3>1. PICK k \in Nat : k = buffer[run[c]] - next[c]
        BY <2>1
      <3>2. rest \in [1..k -> Nat]
        BY <2>1, <3>1
      <3> HIDE DEF rest
      <3>3. rest \in UNION {[1..n -> Nat] : n \in Nat}
        BY ONLY <3>2, k \in Nat
      <3> QED
        BY ONLY <3>3, SeqDef
    <2> HIDE DEF rest
    <2>3. got[c] \o rest \in Seq(Nat)
      BY <2>2, ConcatProperties
    <2>4. got' = [got EXCEPT ![c] = @ \o rest]
      BY <1>8 DEF Ends, rest
    <2>5. got' \in [Clients -> Seq(Nat)]
      BY <2>3, <2>4
    <2> QED
      BY <1>8, <2>1, <2>5 DEF Ends, Gone, ScheduleEvict
  <1>9. ASSUME NEW c \in Clients, Leave(c) PROVE TypeOK'
    BY <1>9 DEF Leave, Gone, ScheduleEvict
  <1>10. ASSUME NEW r \in Runs, Begin(r) \/ PrevOver(r) \/ Cancel(r) PROVE TypeOK'
    BY <1>10 DEF Begin, PrevOver, Cancel
  <1>11. ASSUME NEW r \in Runs, Publish(r) PROVE TypeOK'
    <2>1. <<buffer[r]>> \in Seq(Items)
      BY DEF Items
    <2>2. queue' \in [Clients -> Seq(Items)]
      BY <1>11, <2>1, FanTyped DEF Publish
    <2> QED
      BY <1>11, <2>2 DEF Publish, Items
  <1>12. ASSUME NEW r \in Runs, Finish(r) \/ Saved(r) PROVE TypeOK'
    <2>1. <<End>> \in Seq(Items)
      BY DEF Items
    <2>2. queue' \in [Clients -> Seq(Items)]
      BY <1>12, <2>1, FanTyped DEF Finish, Saved
    <2> QED
      BY <1>12, <2>2 DEF Finish, Saved, Items, Over, ScheduleEvict
  <1>13. ASSUME NEW r \in Runs, Fail(r) PROVE TypeOK'
    <2>1. <<buffer[r], buffer[r] + 1, End>> \in Seq(Items)
      BY DEF Items
    <2>2. queue' \in [Clients -> Seq(Items)]
      BY <1>13, <2>1, FanTyped DEF Fail
    <2> QED
      BY <1>13, <2>2 DEF Fail, Items, Over, ScheduleEvict
  <1>14. ASSUME NEW r \in Runs, Evict(r) PROVE TypeOK'
    BY <1>14 DEF Evict
  <1>15. CASE Stop
    BY <1>15, EventsAssumption DEF Stop
  <1> QED
    BY <1>1, <1>2, <1>3, <1>4, <1>5, <1>6, <1>7, <1>8, <1>9, <1>10, <1>11, <1>12,
       <1>13, <1>14, <1>15, StepCases

-----------------------------------------------------------------------------
\* The drains: a status is final, and a run waits for the one it replaced.
Drained == Settled /\ PrevStarted /\ WaitsForReplaced

LEMMA DrainStep ==
  ASSUME TypeOK, Drained, [Next]_vars
  PROVE  Drained'
  <1> USE RunsAssumption DEF TypeOK, Drained, Settled, PrevStarted, WaitsForReplaced, Active,
                             drains, log
  <1>1. CASE UNCHANGED vars
    BY <1>1 DEF vars
  <1>2. ASSUME NEW c \in Clients, NEW r \in Runs, Post(c, r) PROVE Drained'
    BY <1>2 DEF Post, Start
  <1>3. ASSUME NEW c \in Clients,
               Resume(c) \/ Subscribe(c) \/ Replay(c) \/ Replayed(c) \/ Take(c) \/ Ends(c) \/ Leave(c)
        PROVE  Drained'
    BY <1>3 DEF Resume, Subscribe, Replay, Replayed, Take, Ends, Leave
  <1>4. ASSUME NEW r \in Runs, Begin(r) PROVE Drained'
    BY <1>4 DEF Begin
  <1>5. ASSUME NEW r \in Runs, PrevOver(r) PROVE Drained'
    <2>1. task' = [task EXCEPT ![r] = "writing"] /\ UNCHANGED <<prev, status>>
      BY <1>5 DEF PrevOver
    <2>2. ~Active(prev[r])
      BY <1>5 DEF PrevOver
    <2> QED
      BY <1>5, <2>1, <2>2 DEF PrevOver
  <1>6. ASSUME NEW r \in Runs, Publish(r) \/ Evict(r) PROVE Drained'
    BY <1>6 DEF Publish, Evict
  <1>7. ASSUME NEW r \in Runs, Finish(r) \/ Fail(r) \/ Saved(r) PROVE Drained'
    <2>1. /\ task' = [task EXCEPT ![r] = "over"] /\ UNCHANGED prev
          /\ \E st \in {"done", "error", "stopped"} : status' = [status EXCEPT ![r] = st]
      BY <1>7 DEF Finish, Fail, Saved, Over
    <2>2. Settled' /\ PrevStarted'
      BY <2>1
    <2>3. WaitsForReplaced'
      BY <2>1
    <2> QED
      BY <2>2, <2>3
  <1>8. ASSUME NEW r \in Runs, Cancel(r) PROVE Drained'
    BY <1>8 DEF Cancel
  <1>9. CASE Stop
    BY <1>9 DEF Stop
  <1> QED
    BY <1>1, <1>2, <1>3, <1>4, <1>5, <1>6, <1>7, <1>8, <1>9, StepCases

-----------------------------------------------------------------------------
\* The timers.
LEMMA EvictionStep ==
  ASSUME TypeOK, Settled, Seam, EvictionArmed, [Next]_vars
  PROVE  EvictionArmed'
  <1> USE RunsAssumption DEF TypeOK, EvictionArmed, Subscribers, Subscribed, drains, log, subs
  <1>1. CASE UNCHANGED vars
    BY <1>1 DEF vars
  <1>2. ASSUME NEW c \in Clients, NEW r \in Runs, Post(c, r) PROVE EvictionArmed'
    BY <1>2 DEF Post, Start, Settled
  <1>3. ASSUME NEW c \in Clients, Resume(c) PROVE EvictionArmed'
    BY <1>3 DEF Resume
  <1>4. ASSUME NEW c \in Clients, Subscribe(c) PROVE EvictionArmed'
    BY <1>4 DEF Subscribe
  <1>5. ASSUME NEW c \in Clients, Replay(c) \/ Take(c) PROVE EvictionArmed'
    BY <1>5 DEF Replay, Take
  <1>6. ASSUME NEW c \in Clients, Replayed(c) \/ Ends(c) \/ Leave(c) PROVE EvictionArmed'
    BY <1>6 DEF Replayed, Ends, Leave, Gone, ScheduleEvict
  <1>7. ASSUME NEW r \in Runs, Begin(r) \/ PrevOver(r) \/ Cancel(r) PROVE EvictionArmed'
    BY <1>7 DEF Begin, PrevOver, Cancel
  <1>8. ASSUME NEW r \in Runs, Publish(r) PROVE EvictionArmed'
    BY <1>8 DEF Publish
  <1>9. ASSUME NEW r \in Runs, Finish(r) \/ Fail(r) \/ Saved(r) PROVE EvictionArmed'
    BY <1>9 DEF Finish, Fail, Saved, Over, ScheduleEvict
  <1>10. ASSUME NEW r \in Runs, Evict(r) PROVE EvictionArmed'
    BY <1>10 DEF Evict
  <1>11. CASE Stop
    BY <1>11 DEF Stop
  <1> QED
    BY <1>1, <1>2, <1>3, <1>4, <1>5, <1>6, <1>7, <1>8, <1>9, <1>10, <1>11, StepCases

-----------------------------------------------------------------------------
\* The seam.  Events for the subscribers of a run extend the buffer and every
\* queue alike.
LEMMA FanSeam ==
  ASSUME TypeOK, Seam, NEW r \in Runs, status[r] = "running",
         NEW items \in Seq(Items), NEW k \in Nat,
         Fan(r, items), UNCHANGED <<stage, run, next>>,
         \A s \in Runs : buffer'[s] = IF s = r THEN buffer[s] + k ELSE buffer[s],
         \A s \in Runs \ {r} : status'[s] = status[s],
         \A q \in Seq(Items) : UpTo(q, buffer[r]) /\ ~Told(q) =>
           /\ UpTo(q \o items, buffer[r] + k)
           /\ Pending(q \o items) = Pending(q) + k
           /\ Told(q \o items) => status'[r] # "running"
  PROVE  Seam'
  <1> SUFFICES ASSUME NEW c \in Clients PROVE SeamOf(c)'
    BY DEF Seam
  <1>0. /\ SeamOf(c) /\ queue[c] \in Seq(Items) /\ next[c] \in Nat /\ buffer[r] \in Nat
        /\ run[c] \in Runs \union {NoRun} /\ stage'[c] = stage[c] /\ run'[c] = run[c]
        /\ next'[c] = next[c]
    BY DEF Seam, TypeOK, Items
  <1>1. CASE c \in Subscribers(r)
    <2>1. /\ Subscribed(c) /\ run[c] = r /\ queue'[c] = queue[c] \o items
      BY <1>1 DEF Subscribers, Fan
    <2>2. UpTo(queue[c], buffer[r]) /\ ~Told(queue[c]) /\ next[c] <= buffer[r]
      BY <1>0, <2>1 DEF SeamOf
    <2>3. /\ UpTo(queue'[c], buffer'[r])
          /\ Pending(queue'[c]) = Pending(queue[c]) + k
          /\ Told(queue'[c]) => status'[r] # "running"
          /\ buffer'[r] = buffer[r] + k
      BY <1>0, <2>1, <2>2
    <2>4. Pending(queue[c]) \in Int
      BY <1>0 DEF Pending
    <2>5. stage[c] = "live" => next[c] >= buffer'[r] - Pending(queue'[c])
      BY <1>0, <2>1, <2>3, <2>4 DEF SeamOf
    <2> QED
      BY <1>0, <2>1, <2>2, <2>3, <2>5 DEF SeamOf, Subscribed
  <1>2. CASE c \notin Subscribers(r)
    <2>1. queue'[c] = queue[c] /\ (Subscribed(c) => run[c] # r)
      BY <1>2 DEF Subscribers, Fan
    <2>2. stage[c] = "ended" /\ run[c] # NoRun => run[c] # r
      BY <1>0 DEF SeamOf
    <2>3. Subscribed(c) => run[c] \in Runs
      BY <1>0 DEF SeamOf
    <2> QED
      BY <1>0, <2>1, <2>2, <2>3 DEF SeamOf, Subscribed, Fresh
  <1> QED
    BY <1>1, <1>2

\* A step of the client c that leaves the runs alone concerns its own seam only.
LEMMA OwnSeam ==
  ASSUME Seam, NEW c \in Clients, UNCHANGED log,
         \A d \in Clients \ {c} :
           /\ stage'[d] = stage[d] /\ run'[d] = run[d]
           /\ queue'[d] = queue[d] /\ next'[d] = next[d],
         SeamOf(c)'
  PROVE  Seam'
  BY DEF Seam, SeamOf, log, Subscribed, Fresh

LEMMA ClientSeam ==
  ASSUME TypeOK, Seam, NEW c \in Clients,
         \/ Resume(c) \/ Subscribe(c) \/ Replay(c) \/ Replayed(c)
         \/ Take(c) \/ Ends(c) \/ Leave(c)
  PROVE  Seam'
  <1>0. /\ SeamOf(c) /\ queue[c] \in Seq(Items) /\ next[c] \in Nat
        /\ stage \in [Clients -> {"off", "asked", "replay", "live", "ended", "left"}]
        /\ run \in [Clients -> Runs \union {NoRun}]
        /\ queue \in [Clients -> Seq(Items)] /\ next \in [Clients -> Nat]
        /\ buffer \in [Runs -> Nat] /\ current \in Runs \union {NoRun}
    BY DEF Seam, TypeOK, Items
  <1> SUFFICES ASSUME TRUE
               PROVE /\ UNCHANGED log
                     /\ \A d \in Clients \ {c} :
                          /\ stage'[d] = stage[d] /\ run'[d] = run[d]
                          /\ queue'[d] = queue[d] /\ next'[d] = next[d]
                     /\ SeamOf(c)'
    BY OwnSeam
  <1>1. CASE Resume(c)
    BY <1>0, <1>1 DEF Resume, SeamOf, Subscribed, Fresh, log
  <1>2. CASE Subscribe(c)
    <2>1. CASE current = NoRun
      <3>1. stage' = [stage EXCEPT ![c] = "ended"] /\ UNCHANGED <<run, log, queue, next>>
        BY <1>2, <2>1 DEF Subscribe
      <3>2. run[c] = NoRun
        BY <1>0, <1>2 DEF Subscribe, SeamOf, Fresh
      <3> QED
        BY <1>0, <3>1, <3>2 DEF SeamOf, Subscribed, log
    <2>2. CASE current # NoRun
      <3>1. /\ stage' = [stage EXCEPT ![c] = "replay"] /\ run' = [run EXCEPT ![c] = current]
            /\ UNCHANGED <<log, queue, next>> /\ stage[c] = "asked"
        BY <1>2, <2>2 DEF Subscribe
      <3>2. Fresh(c) /\ current \in Runs
        BY <1>0, <2>2, <3>1 DEF SeamOf
      <3>3. UpTo(<<>>, buffer[current]) /\ ~Told(<<>>)
        BY <1>0, <3>2 DEF UpTo, Told, Pending
      <3> QED
        BY <1>0, <3>1, <3>2, <3>3 DEF SeamOf, Subscribed, Fresh, log
    <2> QED
      BY <2>1, <2>2
  <1>3. CASE Replay(c)
    BY <1>0, <1>3 DEF Replay, Yield, SeamOf, Subscribed, log
  <1>4. CASE Replayed(c)
    <2>1. /\ stage[c] = "replay" /\ next[c] = buffer[run[c]]
          /\ stage' = [stage EXCEPT ![c] = IF status[run[c]] # "running" THEN "ended" ELSE "live"]
          /\ UNCHANGED <<log, run, queue, next>>
      BY <1>4 DEF Replayed, Gone
    <2>2. run[c] \in Runs /\ UpTo(queue[c], buffer[run[c]])
      BY <1>0, <2>1 DEF SeamOf, Subscribed
    <2>3. Pending(queue[c]) \in Nat
      BY <1>0, EmptySeq DEF Pending, Told
    <2>4. next[c] >= buffer[run[c]] - Pending(queue[c])
      BY <1>0, <2>1, <2>2, <2>3
    <2> QED
      BY <1>0, <2>1, <2>2, <2>4 DEF SeamOf, Subscribed, log
  <1>5. CASE Take(c)
    <2>1. /\ stage[c] = "live" /\ queue[c] # <<>> /\ Head(queue[c]) # End
          /\ queue' = [queue EXCEPT ![c] = Tail(@)]
          /\ next' = IF Head(queue[c]) >= next[c]
                       THEN [next EXCEPT ![c] = Head(queue[c]) + 1] ELSE next
          /\ UNCHANGED <<log, stage, run>>
      BY <1>5 DEF Take, Yield
    <2> DEFINE n == buffer[run[c]]
    <2>2. /\ run[c] \in Runs /\ n \in Nat /\ UpTo(queue[c], n) /\ next[c] <= n
          /\ Told(queue[c]) => status[run[c]] # "running"
          /\ next[c] >= n - Pending(queue[c])
      BY <1>0, <2>1 DEF SeamOf, Subscribed
    <2> HIDE DEF n
    <2>3. /\ Pending(queue[c]) \in 1..n /\ Head(queue[c]) = n - Pending(queue[c])
          /\ UpTo(Tail(queue[c]), n) /\ (Told(Tail(queue[c])) => Told(queue[c]))
          /\ Pending(Tail(queue[c])) = Pending(queue[c]) - 1
      BY <1>0, <2>1, <2>2, EventTaken
    <2>4. /\ queue'[c] = Tail(queue[c])
          /\ next'[c] = IF Head(queue[c]) >= next[c] THEN Head(queue[c]) + 1 ELSE next[c]
      BY <1>0, <2>1
    <2>5. next'[c] <= n /\ next'[c] >= n - Pending(queue'[c])
      BY <1>0, <2>2, <2>3, <2>4
    <2>6. SeamOf(c)'
      BY <2>1, <2>2, <2>3, <2>4, <2>5 DEF SeamOf, Subscribed, log, n
    <2> QED
      BY <1>0, <2>1, <2>6
  <1>6. CASE Ends(c)
    <2>1. /\ stage[c] = "live"
          /\ (queue[c] # <<>> /\ Head(queue[c]) = End) \/ status[run[c]] # "running"
          /\ stage' = [stage EXCEPT ![c] = "ended"]
          /\ next' = [next EXCEPT ![c] = buffer[run[c]]]
          /\ UNCHANGED <<log, run, queue>>
      BY <1>6 DEF Ends, Gone
    <2>2. run[c] \in Runs /\ UpTo(queue[c], buffer[run[c]])
          /\ (Told(queue[c]) => status[run[c]] # "running")
      BY <1>0, <2>1 DEF SeamOf, Subscribed
    <2>3. status[run[c]] # "running"
      BY <1>0, <2>1, <2>2, EndAtHead
    <2> QED
      BY <1>0, <2>1, <2>2, <2>3 DEF SeamOf, Subscribed, log
  <1>7. CASE Leave(c)
    BY <1>0, <1>7 DEF Leave, Gone, SeamOf, Subscribed, log
  <1> QED
    BY <1>1, <1>2, <1>3, <1>4, <1>5, <1>6, <1>7

LEMMA SeamStep ==
  ASSUME TypeOK, Settled, Seam, [Next]_vars
  PROVE  Seam'
  <1>1. CASE UNCHANGED vars
    BY <1>1 DEF vars, log, subs, Seam, SeamOf, Subscribed, Fresh
  <1>2. ASSUME NEW c \in Clients, NEW r \in Runs, Post(c, r) PROVE Seam'
    BY <1>2 DEF Post, Start, TypeOK, log, Seam, SeamOf, Subscribed, Fresh
  <1>3. ASSUME NEW c \in Clients,
               Resume(c) \/ Subscribe(c) \/ Replay(c) \/ Replayed(c) \/ Take(c) \/ Ends(c) \/ Leave(c)
        PROVE  Seam'
    BY <1>3, ClientSeam
  <1>4. ASSUME NEW r \in Runs, Begin(r) \/ PrevOver(r) \/ Cancel(r) \/ Evict(r) PROVE Seam'
    BY <1>4 DEF Begin, PrevOver, Cancel, Evict, log, subs, Seam, SeamOf, Subscribed, Fresh
  <1>5. ASSUME NEW r \in Runs, Publish(r) PROVE Seam'
    <2>1. /\ status[r] = "running" /\ Fan(r, <<buffer[r]>>) /\ UNCHANGED <<stage, run, next, status>>
          /\ buffer[r] \in Nat /\ <<buffer[r]>> \in Seq(Items)
      BY <1>5 DEF Publish, Settled, TypeOK, Items
    <2>2. \A s \in Runs : buffer'[s] = IF s = r THEN buffer[s] + 1 ELSE buffer[s]
      BY <1>5 DEF Publish, TypeOK
    <2>3. \A q \in Seq(Items) : UpTo(q, buffer[r]) /\ ~Told(q) =>
            /\ UpTo(q \o <<buffer[r]>>, buffer[r] + 1)
            /\ Pending(q \o <<buffer[r]>>) = Pending(q) + 1
            /\ ~Told(q \o <<buffer[r]>>)
      BY <2>1, EventAppended
    <2> QED
      BY <2>1, <2>2, <2>3, FanSeam
  <1>6. ASSUME NEW r \in Runs, Finish(r) \/ Saved(r) PROVE Seam'
    <2>1. /\ status[r] = "running" /\ Fan(r, <<End>>) /\ UNCHANGED <<stage, run, next, buffer>>
          /\ buffer[r] \in Nat /\ <<End>> \in Seq(Items)
          /\ status'[r] # "running" /\ \A s \in Runs \ {r} : status'[s] = status[s]
      BY <1>6 DEF Finish, Saved, Over, Settled, TypeOK, Items
    <2>2. \A s \in Runs : buffer'[s] = IF s = r THEN buffer[s] + 0 ELSE buffer[s]
      BY <2>1 DEF TypeOK
    <2>3. \A q \in Seq(Items) : UpTo(q, buffer[r]) /\ ~Told(q) =>
            /\ UpTo(q \o <<End>>, buffer[r] + 0)
            /\ Pending(q \o <<End>>) = Pending(q) + 0
      <3> SUFFICES ASSUME NEW q \in Seq(Items), UpTo(q, buffer[r]), ~Told(q)
                   PROVE  /\ UpTo(q \o <<End>>, buffer[r] + 0)
                          /\ Pending(q \o <<End>>) = Pending(q) + 0
        OBVIOUS
      <3>1. Pending(q) + 0 = Pending(q) /\ buffer[r] + 0 = buffer[r]
        BY <2>1 DEF Pending
      <3> QED
        BY <2>1, <3>1, EndAppended
    <2> QED
      BY <2>1, <2>2, <2>3, FanSeam
  <1>7. ASSUME NEW r \in Runs, Fail(r) PROVE Seam'
    <2> DEFINE t == <<buffer[r], buffer[r] + 1, End>>
    <2>1. /\ status[r] = "running" /\ Fan(r, t) /\ UNCHANGED <<stage, run, next>>
          /\ buffer[r] \in Nat /\ t \in Seq(Items)
          /\ status'[r] # "running" /\ \A s \in Runs \ {r} : status'[s] = status[s]
      BY <1>7 DEF Fail, Over, Settled, TypeOK, Items
    <2>2. \A s \in Runs : buffer'[s] = IF s = r THEN buffer[s] + 2 ELSE buffer[s]
      BY <1>7 DEF Fail, TypeOK
    <2>3. \A q \in Seq(Items) : UpTo(q, buffer[r]) /\ ~Told(q) =>
            UpTo(q \o t, buffer[r] + 2) /\ Pending(q \o t) = Pending(q) + 2
      BY <2>1, FailureAppended
    <2> HIDE DEF t
    <2> QED
      BY <2>1, <2>2, <2>3, FanSeam
  <1>8. CASE Stop
    BY <1>8 DEF Stop, log, subs, Seam, SeamOf, Subscribed, Fresh
  <1> QED
    BY <1>1, <1>2, <1>3, <1>4, <1>5, <1>6, <1>7, <1>8, StepCases
-----------------------------------------------------------------------------
\* What a client has.
LEMMA GotStep ==
  ASSUME TypeOK, Seam, GotIsNext, [Next]_vars
  PROVE  GotIsNext'
  <1>0. ASSUME NEW c \in Clients
        PROVE  /\ got[c] \in Seq(Nat) /\ next[c] \in Nat /\ Len(got[c]) = next[c]
               /\ \A i \in 1..next[c] : got[c][i] = i - 1
    BY DEF TypeOK, GotIsNext
  <1>1. CASE UNCHANGED <<got, next>>
    BY <1>1 DEF GotIsNext
  <1>2. ASSUME NEW c \in Clients, Yield(c, next[c]) PROVE GotIsNext'
    <2> SUFFICES ASSUME NEW d \in Clients
                 PROVE  /\ Len(got'[d]) = next'[d]
                        /\ \A i \in 1..next'[d] : got'[d][i] = i - 1
      BY DEF GotIsNext
    <2>1. CASE d = c
      <3>1. got'[c] = Append(got[c], next[c]) /\ next'[c] = next[c] + 1
        BY <1>2 DEF Yield, TypeOK
      <3>2. /\ Len(got'[c]) = Len(got[c]) + 1
            /\ \A i \in 1..Len(got[c]) : got'[c][i] = got[c][i]
            /\ got'[c][Len(got[c]) + 1] = next[c]
        BY <1>0, <3>1, AppendProperties
      <3> QED
        BY <1>0, <2>1, <3>1, <3>2
    <2>2. CASE d # c
      BY <1>0, <1>2, <2>2 DEF Yield, TypeOK
    <2> QED
      BY <2>1, <2>2
  <1>3. ASSUME NEW c \in Clients, Take(c) PROVE GotIsNext'
    <2>1. /\ run[c] \in Runs /\ buffer[run[c]] \in Nat /\ UpTo(queue[c], buffer[run[c]])
          /\ next[c] >= buffer[run[c]] - Pending(queue[c])
          /\ queue[c] \in Seq(Items) /\ queue[c] # <<>> /\ Head(queue[c]) # End
      BY <1>3 DEF Take, Seam, SeamOf, Subscribed, TypeOK, Items
    <2>2. /\ Pending(queue[c]) \in 1..buffer[run[c]]
          /\ Head(queue[c]) = buffer[run[c]] - Pending(queue[c])
      BY <2>1, EventTaken
    <2>3. Head(queue[c]) >= next[c] => Head(queue[c]) = next[c]
      BY <1>0, <2>1, <2>2
    <2> QED
      BY <1>1, <1>2, <1>3, <2>3 DEF Take
  <1>4. ASSUME NEW c \in Clients, Ends(c) PROVE GotIsNext'
    <2> DEFINE k == buffer[run[c]] - next[c]
               rest == [i \in 1..k |-> next[c] + i - 1]
    <2>1. run[c] \in Runs /\ next[c] <= buffer[run[c]] /\ k \in Nat
      BY <1>4 DEF Ends, Seam, SeamOf, Subscribed, TypeOK
    <2>2. Len(rest) = k /\ \A i \in 1..k : rest[i] = next[c] + i - 1
      BY <2>1
    <2>3. rest \in Seq(Nat)
      <3>1. rest \in [1..k -> Nat]
        BY <1>0, <2>1
      <3> HIDE DEF rest, k
      <3>2. rest \in UNION {[1..n -> Nat] : n \in Nat}
        BY ONLY <3>1, <2>1
      <3> QED
        BY ONLY <3>2, SeqDef
    <2>4. next[c] + k = buffer[run[c]]
      BY <1>0, <2>1 DEF TypeOK
    <2>5. got'[c] = got[c] \o rest /\ next'[c] = buffer[run[c]]
      BY <1>4 DEF Ends, TypeOK
    <2> HIDE DEF rest, k
    <2>6. got[c] \in Seq(Nat) /\ Len(got[c]) = next[c] /\ next[c] \in Nat /\ k \in Nat
      BY <1>0, <2>1
    <2>7. /\ Len(got[c] \o rest) = Len(got[c]) + Len(rest)
          /\ \A i \in 1 .. Len(got[c]) + Len(rest) :
               (got[c] \o rest)[i] = IF i <= Len(got[c]) THEN got[c][i] ELSE rest[i - Len(got[c])]
      BY <2>3, <2>6, ConcatProperties
    <2>8. ASSUME NEW i \in 1..(next[c] + k) PROVE (got[c] \o rest)[i] = i - 1
      <3>1. CASE i <= next[c]
        <4>1. (got[c] \o rest)[i] = got[c][i] /\ i \in 1..next[c]
          BY <2>2, <2>6, <2>7, <3>1
        <4> QED
          BY <1>0, <4>1
      <3>2. CASE i > next[c]
        <4>1. i - next[c] \in 1..k
          BY <2>6, <3>2
        <4>2. (got[c] \o rest)[i] = rest[i - next[c]]
          BY <2>2, <2>6, <2>7, <3>2
        <4> QED
          BY <2>2, <2>6, <4>1, <4>2
      <3>3. i <= next[c] \/ i > next[c]
        BY <2>6
      <3> QED
        BY <3>1, <3>2, <3>3
    <2>9. Len(got'[c]) = next'[c] /\ \A i \in 1..next'[c] : got'[c][i] = i - 1
      BY <2>2, <2>6, <2>4, <2>5, <2>7, <2>8
    <2>10. \A d \in Clients \ {c} : got'[d] = got[d] /\ next'[d] = next[d]
      BY <1>4 DEF Ends, TypeOK
    <2> QED
      BY <1>0, <2>9, <2>10 DEF GotIsNext
  <1>5. ASSUME NEW c \in Clients, Replay(c) PROVE GotIsNext'
    BY <1>2, <1>5 DEF Replay
  <1>6. ASSUME NEW c \in Clients, Resume(c) \/ Subscribe(c) \/ Replayed(c) \/ Leave(c)
        PROVE  GotIsNext'
    BY <1>1, <1>6 DEF Resume, Subscribe, Replayed, Leave
  <1>7. ASSUME NEW r \in Runs,
               \/ Begin(r) \/ PrevOver(r) \/ Publish(r) \/ Finish(r) \/ Fail(r)
               \/ Cancel(r) \/ Saved(r) \/ Evict(r)
        PROVE  GotIsNext'
    BY <1>1, <1>7 DEF Begin, PrevOver, Publish, Finish, Fail, Cancel, Saved, Evict, subs
  <1>8. ASSUME NEW c \in Clients, NEW r \in Runs, Post(c, r) PROVE GotIsNext'
    BY <1>1, <1>8 DEF Post, Start
  <1>9. CASE Stop \/ UNCHANGED vars
    BY <1>1, <1>9 DEF Stop, vars, subs
  <1> QED
    BY <1>3, <1>4, <1>5, <1>6, <1>7, <1>8, <1>9, StepCases

-----------------------------------------------------------------------------
LEMMA InitIInv == Init => IInv
  <1> SUFFICES ASSUME Init PROVE IInv
    OBVIOUS
  <1>1. TypeOK
    BY EventsAssumption DEF Init, TypeOK
  <1>2. Settled /\ PrevStarted /\ WaitsForReplaced /\ EvictionArmed
    BY DEF Init, Settled, PrevStarted, WaitsForReplaced, EvictionArmed
  <1>3. GotIsNext
    BY DEF Init, GotIsNext
  <1>4. Seam
    BY DEF Init, Seam, SeamOf, Subscribed, Fresh
  <1> QED
    BY <1>1, <1>2, <1>3, <1>4 DEF IInv

LEMMA StepIInv == IInv /\ [Next]_vars => IInv'
  <1> SUFFICES ASSUME IInv, [Next]_vars PROVE IInv'
    OBVIOUS
  <1>1. TypeOK /\ Drained /\ Settled /\ GotIsNext /\ Seam /\ EvictionArmed
    BY DEF IInv, Drained
  <1>2. TypeOK' /\ Drained' /\ GotIsNext' /\ Seam' /\ EvictionArmed'
    BY <1>1, TypeStep, DrainStep, GotStep, SeamStep, EvictionStep
  <1> QED
    BY <1>2 DEF IInv, Drained

LEMMA Inductive == Spec => []IInv
  BY InitIInv, StepIInv, PTL DEF Spec

\* The types of the run, of its tasks and of its subscribers, in every state.
THEOREM TypeCorrect == Spec => []TypeOK
  <1>1. IInv => TypeOK
    BY DEF IInv
  <1> QED
    BY <1>1, Inductive, PTL

\* Whatever the run does while a client replays its buffer, and however often
\* clients come and go: each one yields the events from the first on, in their
\* order, without a gap and without a repeat.
THEOREM EventsInOrder == Spec => []NothingMissed
  <1>1. IInv => NothingMissed
    BY DEF IInv, NothingMissed, GotIsNext
  <1> QED
    BY <1>1, Inductive, PTL

\* An answer that ends by itself has carried the whole log of a finished run,
\* the error's two events included.
THEOREM EndedIsComplete == Spec => []EndedHasAll
  <1>1. IInv => EndedHasAll
    BY DEF IInv, EndedHasAll, GotIsNext, Seam, SeamOf
  <1> QED
    BY <1>1, Inductive, PTL

\* A finished run that nobody reads has an eviction timer, so that no session
\* keeps its buffer for ever.
THEOREM EvictionIsArmed == Spec => []EvictionArmed
  <1>1. IInv => EvictionArmed
    BY DEF IInv
  <1> QED
    BY <1>1, Inductive, PTL

\* A run writes the session only when the one it replaced no longer does.
THEOREM ReplacedIsOver == Spec => []WaitsForReplaced
  <1>1. IInv => WaitsForReplaced
    BY DEF IInv
  <1> QED
    BY <1>1, Inductive, PTL

\* The table does not lose a run that is written to, or that somebody reads.
THEOREM UsedIsKept == Spec => KeptWhileUsed
  <1> DEFINE A == current # NoRun /\ (Active(current) \/ Subscribers(current) # {})
                    => current' # NoRun
  <1>1. IInv /\ [Next]_vars => [A]_vars
    <2> SUFFICES ASSUME IInv, Next, current # NoRun, current' = NoRun
                 PROVE  ~Active(current) /\ Subscribers(current) = {}
      OBVIOUS
    <2>1. PICK r \in Runs : Evict(r)
      BY StepCases, RunsAssumption
         DEF Post, Start, Resume, Subscribe, Replay, Replayed, Take, Ends, Leave, Begin, PrevOver,
             Publish, Finish, Fail, Cancel, Saved, Stop
    <2>2. current = r /\ status[r] # "running" /\ Subscribers(r) = {}
      BY <2>1 DEF Evict
    <2>3. task[r] = "over"
      BY <2>2 DEF IInv, Settled
    <2> QED
      BY <2>2, <2>3 DEF Active
  <1> QED
    BY <1>1, Inductive, PTL DEF Spec, KeptWhileUsed
-----------------------------------------------------------------------------
(* What clients are given is the run's log                                 *)

LEMMA PlaceOf ==
  ASSUME TypeOK, NEW c \in Clients
  PROVE  /\ Place(c) = "new" <=> stage[c] \in {"off", "asked"}
         /\ Place(c) = "reading" <=> Subscribed(c)
         /\ Place(c) = "ended" <=> stage[c] = "ended"
         /\ Place(c) = "left" <=> stage[c] = "left"
  BY DEF Place, Subscribed, TypeOK

LEMMA WholeLog ==
  ASSUME NEW s \in Seq(Nat), NEW n \in Nat, Len(s) = n, \A i \in 1..n : s[i] = i - 1
  PROVE  s = [i \in 1..n |-> i - 1]
  <1>1. s \in [1..n -> Nat]
    BY LenProperties
  <1> QED
    BY <1>1

placeBar == [c \in Clients |-> Place(c)]
closedBar == {r \in Runs : status[r] # "running"}

LEMMA LogInit == Init => Log!Init
  BY DEF Init, Log!Init, Place

\* A step of a client that changes its place only is seen as that change.
LEMMA PlaceMoves ==
  ASSUME TypeOK, NEW c \in Clients, NEW st,
         stage' = [stage EXCEPT ![c] = st]
  PROVE  placeBar' = [placeBar EXCEPT ![c] = Place(c)']
  <1>1. ASSUME NEW d \in Clients \ {c} PROVE Place(d)' = Place(d)
    <2>1. stage'[d] = stage[d]
      BY DEF TypeOK
    <2> QED
      BY <2>1 DEF Place
  <1> QED
    BY <1>1 DEF placeBar

LEMMA PlaceStays ==
  ASSUME UNCHANGED stage
  PROVE  placeBar' = placeBar
  <1>1. \A c \in Clients : Place(c)' = Place(c)
    BY DEF Place
  <1> QED
    BY <1>1 DEF placeBar

LEMMA AttachStep ==
  ASSUME TypeOK, TypeOK', Seam, NEW c \in Clients, Subscribe(c)
  PROVE  Log!Next
  <1> USE DEF log
  <1>1. Place(c) = "new" /\ stage[c] = "asked"
    BY PlaceOf DEF Subscribe
  <1>2. CASE current = NoRun
    <2>1. stage' = [stage EXCEPT ![c] = "ended"] /\ UNCHANGED <<buffer, status, run, got>>
      BY <1>2 DEF Subscribe
    <2>2. Place(c)' = "ended"
      BY <2>1 DEF Place, TypeOK
    <2>3. Log!TurnAway(c)
      BY <1>1, <2>1, <2>2, PlaceMoves DEF Log!TurnAway, placeBar
    <2> QED
      BY <2>3 DEF Log!Next
  <1>3. CASE current # NoRun
    <2>1. /\ stage' = [stage EXCEPT ![c] = "replay"] /\ run' = [run EXCEPT ![c] = current]
          /\ UNCHANGED <<buffer, status, got>> /\ current \in Runs
      BY <1>3 DEF Subscribe, TypeOK
    <2>2. Place(c)' = "reading"
      BY <2>1 DEF Place, TypeOK
    <2>3. Log!Attach(c, current)
      BY <1>1, <2>1, <2>2, PlaceMoves DEF Log!Attach, placeBar
    <2> QED
      BY <2>1, <2>3 DEF Log!Next
  <1> QED
    BY <1>2, <1>3

\* An event that is yielded is the next of the log.
LEMMA DeliverStep ==
  ASSUME TypeOK, GotIsNext, Seam, NEW c \in Clients, Replay(c) \/ Take(c)
  PROVE  Log!Next \/ UNCHANGED Log!vars
  <1> USE DEF log
  <1>1. /\ Subscribed(c) /\ run[c] \in Runs /\ Len(got[c]) = next[c] /\ next[c] \in Nat
        /\ next[c] <= buffer[run[c]] /\ buffer[run[c]] \in Nat
    BY DEF Replay, Take, Subscribed, GotIsNext, Seam, SeamOf, TypeOK
  <1>2. UNCHANGED <<buffer, status, run>> /\ placeBar' = placeBar
    BY PlaceStays DEF Replay, Take
  <1>3. ASSUME Yield(c, next[c]), next[c] < buffer[run[c]] PROVE Log!Next
    <2>1. got' = [got EXCEPT ![c] = Append(@, Len(@))]
      BY <1>1, <1>3 DEF Yield, TypeOK
    <2>2. placeBar[c] = "reading"
      BY <1>1, PlaceOf DEF placeBar
    <2>3. Log!Deliver(c)
      BY <1>1, <1>2, <1>3, <2>1, <2>2 DEF Log!Deliver, placeBar
    <2> QED
      BY <2>3 DEF Log!Next
  <1>4. CASE Replay(c)
    BY <1>3, <1>4 DEF Replay
  <1>5. CASE Take(c)
    <2>1. /\ UpTo(queue[c], buffer[run[c]]) /\ next[c] >= buffer[run[c]] - Pending(queue[c])
          /\ queue[c] \in Seq(Items) /\ queue[c] # <<>> /\ Head(queue[c]) # End
      BY <1>5 DEF Take, Seam, SeamOf, Subscribed, TypeOK, Items
    <2>2. /\ Pending(queue[c]) \in 1..buffer[run[c]]
          /\ Head(queue[c]) = buffer[run[c]] - Pending(queue[c])
      BY <1>1, <2>1, EventTaken
    <2>3. CASE Head(queue[c]) >= next[c]
      <3>1. Head(queue[c]) = next[c] /\ next[c] < buffer[run[c]]
        BY <1>1, <2>1, <2>2, <2>3
      <3> QED
        BY <1>3, <1>5, <2>3, <3>1 DEF Take
    <2>4. CASE ~(Head(queue[c]) >= next[c])
      BY <1>2, <1>5, <2>4 DEF Take, Log!vars, placeBar
    <2> QED
      BY <2>3, <2>4
  <1> QED
    BY <1>4, <1>5

\* An answer ends with the whole of a closed log.
LEMMA DismissStep ==
  ASSUME IInv, IInv', NEW c \in Clients, Replayed(c) \/ Ends(c)
  PROVE  Log!Next \/ UNCHANGED Log!vars
  <1> USE DEF log, IInv
  <1>1. /\ Subscribed(c) /\ run[c] \in Runs /\ UNCHANGED <<buffer, status, run>>
        /\ buffer[run[c]] \in Nat
    BY DEF Replayed, Ends, Subscribed, Seam, SeamOf, TypeOK
  <1>2. CASE stage'[c] = "ended"
    <2>1. /\ stage' = [stage EXCEPT ![c] = "ended"]
          /\ \E s : got' = [got EXCEPT ![c] = s]
      BY <1>2 DEF Replayed, Ends, Gone, TypeOK
    <2>2. /\ status'[run'[c]] # "running" /\ next'[c] = buffer'[run'[c]]
      BY <1>1, <1>2, RunsAssumption DEF Seam, SeamOf
    <2>3. got'[c] = [i \in 1..buffer[run[c]] |-> i - 1]
      <3>1. got'[c] \in Seq(Nat) /\ Len(got'[c]) = next'[c] /\ \A i \in 1..next'[c] : got'[c][i] = i - 1
        BY DEF TypeOK, GotIsNext
      <3> QED
        BY <1>1, <2>2, <3>1, WholeLog
    <2>4. got' = [got EXCEPT ![c] = [i \in 1..buffer[run[c]] |-> i - 1]]
      BY <2>1, <2>3 DEF TypeOK
    <2>5. placeBar[c] = "reading" /\ Place(c)' = "ended"
      BY <1>1, <1>2, PlaceOf DEF placeBar, Place
    <2>6. placeBar' = [placeBar EXCEPT ![c] = "ended"]
      BY <2>1, <2>5, PlaceMoves
    <2>7. run[c] \in closedBar
      BY <1>1, <2>2 DEF closedBar
    <2>8. Log!Dismiss(c)
      BY <1>1, <2>4, <2>5, <2>6, <2>7 DEF Log!Dismiss, placeBar, closedBar
    <2> QED
      BY <2>8 DEF Log!Next
  <1>3. CASE stage'[c] # "ended"
    <2>1. stage' = [stage EXCEPT ![c] = "live"] /\ UNCHANGED got /\ stage[c] = "replay"
      BY <1>3 DEF Replayed, Ends, Gone, TypeOK
    <2>2. placeBar' = placeBar
      BY <2>1 DEF placeBar, Place, TypeOK
    <2> QED
      BY <1>1, <2>1, <2>2 DEF Log!vars, placeBar
  <1> QED
    BY <1>2, <1>3

\* A drain writes and closes the log of its run.
LEMMA WriteStep ==
  ASSUME TypeOK, Settled, NEW r \in Runs, Publish(r) \/ Finish(r) \/ Fail(r) \/ Saved(r)
  PROVE  Log!Next
  <1> USE DEF log
  <1>1. r \notin closedBar
    BY DEF closedBar, Settled, Publish, Finish, Fail, Saved
  <1>2. placeBar' = placeBar /\ UNCHANGED <<run, got>>
    BY PlaceStays DEF Publish, Finish, Fail, Saved
  <1>3. CASE Publish(r)
    <2>1. buffer' = [buffer EXCEPT ![r] = @ + 1] /\ UNCHANGED status
      BY <1>3 DEF Publish
    <2>2. Log!Write(r)
      BY <1>1, <1>2, <2>1 DEF Log!Write, closedBar, placeBar
    <2> QED
      BY <2>2 DEF Log!Next
  <1>4. CASE Finish(r) \/ Fail(r) \/ Saved(r)
    <2>1. PICK st \in {"done", "error", "stopped"} : status' = [status EXCEPT ![r] = st]
      BY <1>4 DEF Finish, Fail, Saved, Over
    <2>2. closedBar' = closedBar \union {r}
      BY <2>1 DEF closedBar, TypeOK
    <2>3. \E last \in {0, 2} : buffer' = [buffer EXCEPT ![r] = @ + last]
      <3>1. CASE Fail(r)
        BY <3>1 DEF Fail
      <3>2. CASE Finish(r) \/ Saved(r)
        <4>1. buffer[r] + 0 = buffer[r] /\ UNCHANGED buffer
          BY <3>2 DEF Finish, Saved, TypeOK
        <4>2. buffer' = [buffer EXCEPT ![r] = @ + 0]
          BY <4>1 DEF TypeOK
        <4> QED
          BY <4>2
      <3> QED
        BY <1>4, <3>1, <3>2
    <2>4. Log!Close(r)
      BY <1>1, <1>2, <2>2, <2>3 DEF Log!Close, closedBar, placeBar
    <2> QED
      BY <2>4 DEF Log!Next
  <1> QED
    BY <1>3, <1>4

LEMMA LogStep ==
  ASSUME IInv, IInv', [Next]_vars
  PROVE  [Log!Next]_(Log!vars)
  <1> USE DEF log, drains, subs
  <1>0. TypeOK /\ TypeOK' /\ Settled /\ GotIsNext /\ Seam
    BY DEF IInv
  <1>1. ASSUME UNCHANGED <<status, buffer, run, got>>, placeBar' = placeBar
        PROVE  UNCHANGED Log!vars
    BY <1>1 DEF Log!vars, placeBar
  <1>2. ASSUME UNCHANGED <<status, buffer, stage, run, got>> PROVE UNCHANGED Log!vars
    BY <1>1, <1>2, PlaceStays
  <1>3. CASE UNCHANGED vars
    BY <1>2, <1>3 DEF vars
  <1>4. ASSUME NEW c \in Clients, Resume(c) \/ \E r \in Runs : Post(c, r)
        PROVE  UNCHANGED Log!vars
    <2>1. /\ stage[c] = "off" /\ stage' = [stage EXCEPT ![c] = "asked"]
          /\ UNCHANGED <<status, buffer, run, got>>
      BY <1>4 DEF Resume, Post, Start
    <2>2. placeBar' = placeBar
      BY <1>0, <2>1 DEF placeBar, Place, TypeOK
    <2> QED
      BY <1>1, <2>1, <2>2
  <1>5. ASSUME NEW c \in Clients, Subscribe(c) PROVE Log!Next
    BY <1>0, <1>5, AttachStep
  <1>6. ASSUME NEW c \in Clients, Replay(c) \/ Take(c) PROVE [Log!Next]_(Log!vars)
    BY <1>0, <1>6, DeliverStep
  <1>7. ASSUME NEW c \in Clients, Replayed(c) \/ Ends(c) PROVE [Log!Next]_(Log!vars)
    BY <1>7, DismissStep
  <1>8. ASSUME NEW c \in Clients, Leave(c) PROVE Log!Next
    <2>1. /\ Subscribed(c) /\ stage' = [stage EXCEPT ![c] = "left"]
          /\ UNCHANGED <<status, buffer, run, got>>
      BY <1>8 DEF Leave, Gone
    <2>2. placeBar[c] = "reading" /\ Place(c)' = "left"
      BY <1>0, <2>1, PlaceOf DEF placeBar, Place, TypeOK
    <2>3. Log!Leave(c)
      BY <1>0, <2>1, <2>2, PlaceMoves DEF Log!Leave, placeBar
    <2> QED
      BY <2>3 DEF Log!Next
  <1>9. ASSUME NEW r \in Runs, Publish(r) \/ Finish(r) \/ Fail(r) \/ Saved(r) PROVE Log!Next
    BY <1>0, <1>9, WriteStep
  <1>10. ASSUME NEW r \in Runs, Begin(r) \/ PrevOver(r) \/ Cancel(r) \/ Evict(r)
         PROVE  UNCHANGED Log!vars
    BY <1>2, <1>10 DEF Begin, PrevOver, Cancel, Evict
  <1>11. CASE Stop
    BY <1>2, <1>11 DEF Stop
  <1> QED
    BY <1>3, <1>4, <1>5, <1>6, <1>7, <1>8, <1>9, <1>10, <1>11, StepCases

\* Whatever overlaps with a client's registration, replay and queue, it is given
\* the log of the run as RunLog says.
THEOREM ImplementsRunLog == Spec => DeliversLog
  <1>1. IInv /\ IInv' /\ [Next]_vars => [Log!Next]_(Log!vars)
    BY LogStep
  <1> QED
    BY <1>1, LogInit, Inductive, PTL DEF Spec, DeliversLog, Log!Spec
-----------------------------------------------------------------------------
(* The sentinel reaches who reads live                                     *)

Woken ==
  \A c \in Clients :
    stage[c] = "live" /\ status[run[c]] # "running" => Told(queue[c])

\* A run that ends puts the sentinel last into the queue of each subscriber.
LEMMA EndTold ==
  ASSUME TypeOK, Settled, Seam, NEW r \in Runs, Finish(r) \/ Fail(r) \/ Saved(r),
         NEW c \in Subscribers(r)
  PROVE  Told(queue'[c])
  <1>1. status[r] = "running" /\ buffer[r] \in Nat
    BY DEF Settled, TypeOK, Finish, Fail, Saved
  <1>2. /\ c \in Clients /\ queue[c] \in Seq(Items)
        /\ UpTo(queue[c], buffer[r]) /\ ~Told(queue[c])
    BY <1>1 DEF Subscribers, Seam, SeamOf, TypeOK, Items
  <1>3. CASE Finish(r) \/ Saved(r)
    <2>1. queue'[c] = queue[c] \o <<End>>
      BY <1>2, <1>3 DEF Finish, Saved, Fan
    <2> QED
      BY <1>1, <1>2, <2>1, EndAppended
  <1>4. CASE Fail(r)
    <2>1. queue'[c] = queue[c] \o <<buffer[r], buffer[r] + 1, End>>
      BY <1>2, <1>4 DEF Fail, Fan
    <2> QED
      BY <1>1, <1>2, <2>1, FailureAppended
  <1> QED
    BY <1>3, <1>4

LEMMA WokenStep ==
  ASSUME TypeOK, Settled, Seam, Woken, [Next]_vars
  PROVE  Woken'
  <1> USE DEF drains, log, subs
  <1>1. ASSUME \A c \in Clients :
                 stage'[c] = "live" =>
                   /\ stage[c] = "live" /\ run'[c] = run[c] /\ queue'[c] = queue[c]
                   /\ status'[run[c]] = status[run[c]]
        PROVE  Woken'
    BY <1>1 DEF Woken
  <1>2. CASE UNCHANGED vars
    BY <1>1, <1>2 DEF vars
  <1>3. ASSUME NEW c \in Clients,
               (\E r \in Runs : Post(c, r)) \/ Resume(c) \/ Subscribe(c) \/ Replay(c)
                 \/ Ends(c) \/ Leave(c)
        PROVE  Woken'
    BY <1>1, <1>3 DEF Post, Start, Resume, Subscribe, Replay, Ends, Leave, Gone, Subscribed, TypeOK
  <1>4. ASSUME NEW c \in Clients, Replayed(c) PROVE Woken'
    BY <1>4 DEF Replayed, Gone, Woken, TypeOK
  <1>5. ASSUME NEW c \in Clients, Take(c) PROVE Woken'
    <2>1. /\ stage[c] = "live" /\ queue[c] # <<>> /\ Head(queue[c]) # End
          /\ queue' = [queue EXCEPT ![c] = Tail(@)] /\ UNCHANGED <<stage, run, status>>
      BY <1>5 DEF Take
    <2>2. UpTo(queue[c], buffer[run[c]]) /\ buffer[run[c]] \in Nat /\ queue[c] \in Seq(Items)
      BY <2>1 DEF Seam, SeamOf, Subscribed, TypeOK, Items
    <2>3. Told(Tail(queue[c])) <=> Told(queue[c])
      BY <2>1, <2>2, EventTaken
    <2> QED
      BY <2>1, <2>3 DEF Woken, TypeOK
  <1>6. ASSUME NEW r \in Runs, Begin(r) \/ PrevOver(r) \/ Cancel(r) \/ Evict(r) PROVE Woken'
    BY <1>1, <1>6 DEF Begin, PrevOver, Cancel, Evict
  <1>7. ASSUME NEW r \in Runs, Publish(r) PROVE Woken'
    <2>1. status[r] = "running" /\ UNCHANGED <<status, stage, run>> /\ Fan(r, <<buffer[r]>>)
      BY <1>7 DEF Publish, Settled
    <2> SUFFICES ASSUME NEW c \in Clients, stage'[c] = "live", status'[run'[c]] # "running"
                 PROVE  Told(queue'[c])
      BY DEF Woken
    <2>2. run[c] # r
      BY <2>1
    <2>3. queue'[c] = queue[c]
      BY <2>1, <2>2 DEF Fan, Subscribers
    <2> QED
      BY <2>1, <2>3 DEF Woken
  <1>8. ASSUME NEW r \in Runs, Finish(r) \/ Fail(r) \/ Saved(r) PROVE Woken'
    <2>1. /\ UNCHANGED <<stage, run>>
          /\ \A s \in Runs \ {r} : status'[s] = status[s]
          /\ \E items : Fan(r, items)
      BY <1>8 DEF Finish, Fail, Saved, Over, TypeOK
    <2> SUFFICES ASSUME NEW c \in Clients, stage'[c] = "live", status'[run'[c]] # "running"
                 PROVE  Told(queue'[c])
      BY DEF Woken
    <2>2. Subscribed(c) /\ run[c] \in Runs
      BY <2>1 DEF Subscribed, Seam, SeamOf
    <2>3. CASE run[c] = r
      BY <1>8, <2>2, <2>3, EndTold DEF Subscribers
    <2>4. CASE run[c] # r
      <3>1. queue'[c] = queue[c]
        BY <2>1, <2>4 DEF Fan, Subscribers
      <3> QED
        BY <2>1, <2>2, <2>4, <3>1 DEF Woken
    <2> QED
      BY <2>3, <2>4
  <1>9. CASE Stop
    BY <1>1, <1>9 DEF Stop
  <1> QED
    BY <1>2, <1>3, <1>4, <1>5, <1>6, <1>7, <1>8, <1>9, StepCases

\* A run that ends, however it ends, has its sentinel in the queue of everyone
\* who reads it live, also of those who were still replaying when it ended.
THEOREM EndReachesReaders == Spec => []EndWakesReaders
  <1>1. Init => Woken
    BY DEF Init, Woken
  <1>2. IInv /\ Woken /\ [Next]_vars => Woken'
    BY WokenStep DEF IInv
  <1>3. IInv /\ Woken => EndWakesReaders
    <2> SUFFICES ASSUME IInv, Woken, NEW c \in Clients,
                        stage[c] = "live", status[run[c]] # "running"
                 PROVE  \E i \in 1..Len(queue[c]) : queue[c][i] = End
      BY DEF EndWakesReaders
    <2>1. queue[c] # <<>> /\ queue[c][Len(queue[c])] = End
      BY DEF Woken, Told
    <2>2. queue[c] \in Seq(Items)
      BY DEF IInv, TypeOK, Items
    <2>3. Len(queue[c]) \in 1..Len(queue[c])
      BY <2>1, <2>2, EmptySeq
    <2> QED
      BY <2>1, <2>3
  <1> QED
    BY <1>1, <1>2, <1>3, Inductive, PTL DEF Spec

-----------------------------------------------------------------------------
(* Runs that replace one another queue up                                  *)

\* The runs with a task, each waiting for the one before it, the last of them
\* in the table.
InLine(q) ==
  /\ \A r \in Runs : Active(r) => \E i \in 1..Len(q) : q[i] = r
  /\ \A i \in 1..Len(q) : Active(q[i])
  /\ \A i, j \in 1..Len(q) : q[i] = q[j] => i = j
  /\ \A i \in 1..Len(q) : i > 1 => prev[q[i]] = q[i - 1]
  /\ Len(q) > 0 => q[Len(q)] = current

Line == \E q \in Seq(Runs) : InLine(q)

\* A run that is started joins the line.
LEMMA Joins ==
  ASSUME TypeOK, Line, NEW c \in Clients, NEW r \in Runs, Post(c, r)
  PROVE  Line'
  <1>1. /\ task[r] = "none" /\ task' = [task EXCEPT ![r] = "created"] /\ current' = r
        /\ IF current # NoRun /\ Active(current)
             THEN prev' = [prev EXCEPT ![r] = current] ELSE UNCHANGED prev
    BY DEF Post, Start
  <1>2. PICK q \in Seq(Runs) : InLine(q)
    BY DEF Line
  <1>3. Len(q) \in Nat /\ \A i \in 1..Len(q) : q[i] \in Runs
    BY ElementOfSeq
  <1>4. ~Active(r) /\ \A s \in Runs : Active(s)' <=> Active(s) \/ s = r
    BY <1>1 DEF Active, TypeOK
  <1>5. \A i \in 1..Len(q) : q[i] # r
    BY <1>2, <1>4 DEF InLine
  <1> DEFINE w == Append(q, r)
  <1>6. /\ w \in Seq(Runs) /\ Len(w) = Len(q) + 1
        /\ \A i \in 1..Len(q) : w[i] = q[i]
        /\ w[Len(q) + 1] = r
    BY AppendProperties
  <1> HIDE DEF w
  <1>7. Len(q) > 0 => current # NoRun /\ Active(current) /\ q[Len(q)] = current
    BY <1>2, <1>3, RunsAssumption DEF InLine
  <1>8. InLine(w)'
    <2>1. \A s \in Runs : Active(s)' => \E i \in 1..Len(w) : w[i] = s
      <3>1. ASSUME NEW s \in Runs, Active(s) PROVE \E i \in 1..Len(w) : w[i] = s
        <4>1. PICK i \in 1..Len(q) : q[i] = s
          BY <1>2, <3>1 DEF InLine
        <4> QED
          BY <1>3, <1>6, <4>1
      <3>2. \E i \in 1..Len(w) : w[i] = r
        BY <1>3, <1>6
      <3> QED
        BY <1>4, <3>1, <3>2
    <2>2. \A i \in 1..Len(w) : i \in 1..Len(q) \/ i = Len(q) + 1
      BY <1>3, <1>6
    <2>3. \A i \in 1..Len(w) : Active(w[i])'
      BY <1>2, <1>3, <1>4, <1>6, <2>2 DEF InLine
    <2>4. \A i, j \in 1..Len(w) : w[i] = w[j] => i = j
      BY <1>2, <1>5, <1>6, <2>2 DEF InLine
    <2>5. \A i \in 1..Len(w) : i > 1 => prev'[w[i]] = w[i - 1]
      <3> SUFFICES ASSUME NEW i \in 1..Len(w), i > 1 PROVE prev'[w[i]] = w[i - 1]
        OBVIOUS
      <3>1. CASE i \in 1..Len(q)
        <4>1. w[i] = q[i] /\ w[i - 1] = q[i - 1] /\ prev[q[i]] = q[i - 1]
          BY <1>2, <1>3, <1>6, <3>1 DEF InLine
        <4>2. prev'[q[i]] = prev[q[i]]
          BY <1>1, <1>3, <1>5, <3>1 DEF TypeOK
        <4> QED
          BY <4>1, <4>2
      <3>2. CASE i = Len(q) + 1
        <4>1. Len(q) > 0 /\ Len(q) \in 1..Len(q)
          BY <1>3, <3>2
        <4>2. prev'[r] = current
          BY <1>1, <1>7, <4>1 DEF TypeOK
        <4> QED
          BY <1>3, <1>6, <1>7, <3>2, <4>1, <4>2
      <3> QED
        BY <2>2, <3>1, <3>2
    <2>6. w[Len(w)] = current'
      BY <1>1, <1>6
    <2> QED
      BY <2>1, <2>3, <2>4, <2>5, <2>6 DEF InLine
  <1> QED
    BY <1>6, <1>8 DEF Line

\* Only the first of the line writes: the others wait.
LEMMA FirstWrites ==
  ASSUME TypeOK, WaitsForReplaced, NEW q \in Seq(Runs), InLine(q),
         NEW i \in 1..Len(q), task[q[i]] \in {"writing", "saving"}
  PROVE  i = 1
  <1> SUFFICES ASSUME i > 1 PROVE FALSE
    OBVIOUS
  <1>1. i - 1 \in 1..Len(q) /\ q[i] \in Runs /\ q[i - 1] \in Runs
    BY ElementOfSeq
  <1>2. prev[q[i]] = q[i - 1] /\ Active(q[i - 1])
    BY <1>1 DEF InLine
  <1> QED
    BY <1>1, <1>2, RunsAssumption DEF WaitsForReplaced

\* It leaves the line to the next one when it ends.
LEMMA FirstLeaves ==
  ASSUME TypeOK, WaitsForReplaced, Line, NEW r \in Runs, Finish(r) \/ Fail(r) \/ Saved(r)
  PROVE  Line'
  <1>1. /\ task[r] \in {"writing", "saving"} /\ task' = [task EXCEPT ![r] = "over"]
        /\ UNCHANGED <<current, prev>>
    BY DEF Finish, Fail, Saved, Over
  <1>2. PICK q \in Seq(Runs) : InLine(q)
    BY DEF Line
  <1>3. \A s \in Runs : Active(s)' <=> Active(s) /\ s # r
    BY <1>1 DEF Active, TypeOK
  <1>4. PICK i \in 1..Len(q) : q[i] = r
    BY <1>1, <1>2 DEF InLine, Active
  <1>5. i = 1
    BY <1>1, <1>2, <1>4, FirstWrites
  <1>6. q # <<>> /\ q[1] = r /\ Len(q) \in Nat \ {0}
    BY <1>4, <1>5, EmptySeq
  <1> DEFINE w == Tail(q)
  <1>7. /\ w \in Seq(Runs) /\ Len(w) = Len(q) - 1
        /\ \A j \in 1..Len(w) : w[j] = q[j + 1]
    BY <1>6, HeadTailProperties
  <1> HIDE DEF w
  <1>8. \A j \in 1..Len(w) : j + 1 \in 1..Len(q) /\ w[j] = q[j + 1] /\ w[j] \in Runs /\ w[j] # r
    <2> SUFFICES ASSUME NEW j \in 1..Len(w)
                 PROVE  j + 1 \in 1..Len(q) /\ w[j] = q[j + 1] /\ w[j] \in Runs /\ w[j] # r
      OBVIOUS
    <2>1. j + 1 \in 1..Len(q) /\ w[j] = q[j + 1] /\ 1 \in 1..Len(q) /\ j + 1 # 1
      BY <1>6, <1>7
    <2>2. q[j + 1] # q[1]
      BY <1>2, <2>1 DEF InLine
    <2> QED
      BY <1>6, <2>1, <2>2, ElementOfSeq
  <1>9. InLine(w)'
    <2>1. \A s \in Runs : Active(s)' => \E j \in 1..Len(w) : w[j] = s
      <3> SUFFICES ASSUME NEW s \in Runs, Active(s), s # r PROVE \E j \in 1..Len(w) : w[j] = s
        BY <1>3
      <3>1. PICK k \in 1..Len(q) : q[k] = s
        BY <1>2 DEF InLine
      <3>2. k # 1 /\ k - 1 \in 1..Len(w) /\ (k - 1) + 1 = k
        BY <1>6, <1>7, <3>1
      <3> QED
        BY <1>7, <3>1, <3>2
    <2>2. \A j \in 1..Len(w) : Active(w[j])'
      BY <1>2, <1>3, <1>8 DEF InLine
    <2>3. \A j, k \in 1..Len(w) : w[j] = w[k] => j = k
      <3> SUFFICES ASSUME NEW j \in 1..Len(w), NEW k \in 1..Len(w), w[j] = w[k] PROVE j = k
        OBVIOUS
      <3>1. j + 1 = k + 1
        BY <1>2, <1>8 DEF InLine
      <3> QED
        BY <1>7, <3>1
    <2>4. \A j \in 1..Len(w) : j > 1 => prev'[w[j]] = w[j - 1]
      <3> SUFFICES ASSUME NEW j \in 1..Len(w), j > 1 PROVE prev'[w[j]] = w[j - 1]
        OBVIOUS
      <3>1. j - 1 \in 1..Len(w) /\ (j - 1) + 1 = j /\ j + 1 > 1 /\ (j + 1) - 1 = j
        BY <1>6, <1>7
      <3>2. w[j - 1] = q[j] /\ w[j] = q[j + 1] /\ prev[q[j + 1]] = q[j]
        BY <1>2, <1>8, <3>1 DEF InLine
      <3> QED
        BY <1>1, <3>2
    <2>5. Len(w) > 0 => w[Len(w)] = current'
      <3> HAVE Len(w) > 0
      <3>1. Len(w) \in 1..Len(w) /\ Len(w) + 1 = Len(q) /\ Len(q) > 0
        BY <1>6, <1>7
      <3> QED
        BY <1>1, <1>2, <1>8, <3>1 DEF InLine
    <2> QED
      BY <2>1, <2>2, <2>3, <2>4, <2>5 DEF InLine
  <1> QED
    BY <1>7, <1>9 DEF Line

\* Who has been cut short stays so.
LEMMA CutStays ==
  ASSUME TypeOK, CutShort, [Next]_vars
  PROVE  CutShort'
  <1>1. PICK r \in Runs : task[r] = "over" /\ status[r] = "running"
    BY DEF CutShort
  <1>2. task'[r] = "over" /\ status'[r] = "running"
    BY <1>1, StepCases
    DEF vars, drains, log, TypeOK, Post, Start, Resume, Subscribe, Replay, Replayed, Take, Ends,
        Leave, Begin, PrevOver, Publish, Finish, Fail, Cancel, Saved, Over, Evict, Stop
  <1> QED
    BY <1>2 DEF CutShort

LEMMA LineStep ==
  ASSUME TypeOK, Drained, CutShort \/ Line, [Next]_vars
  PROVE  (CutShort \/ Line)'
  <1> USE DEF drains, log
  <1>1. CASE CutShort
    BY <1>1, CutStays
  <1> SUFFICES ASSUME Line PROVE CutShort' \/ Line'
    BY <1>1
  <1>2. ASSUME UNCHANGED <<current, prev>>, \A r \in Runs : Active(r)' <=> Active(r)
        PROVE  Line'
    <2>1. PICK q \in Seq(Runs) : InLine(q)
      BY DEF Line
    <2>2. \A i \in 1..Len(q) : q[i] \in Runs
      BY ElementOfSeq
    <2>3. InLine(q)'
      BY <1>2, <2>1, <2>2 DEF InLine
    <2> QED
      BY <2>3 DEF Line
  <1>3. CASE UNCHANGED vars
    BY <1>2, <1>3 DEF vars, Active
  <1>4. ASSUME NEW c \in Clients, NEW r \in Runs, Post(c, r) PROVE Line'
    BY <1>4, Joins
  <1>5. ASSUME NEW c \in Clients,
               Resume(c) \/ Subscribe(c) \/ Replay(c) \/ Replayed(c) \/ Take(c) \/ Ends(c) \/ Leave(c)
        PROVE  Line'
    BY <1>2, <1>5 DEF Resume, Subscribe, Replay, Replayed, Take, Ends, Leave, Active
  <1>6. ASSUME NEW r \in Runs, Begin(r) \/ PrevOver(r) \/ Publish(r) PROVE Line'
    BY <1>2, <1>6 DEF Begin, PrevOver, Publish, Active, TypeOK
  <1>7. ASSUME NEW r \in Runs, Finish(r) \/ Fail(r) \/ Saved(r) PROVE Line'
    BY <1>7, FirstLeaves DEF Drained
  <1>8. ASSUME NEW r \in Runs, Cancel(r) PROVE CutShort' \/ Line'
    <2>1. CASE task[r] \in {"created", "waiting"}
      <3>1. task'[r] = "over" /\ status'[r] = "running"
        BY <1>8, <2>1 DEF Cancel, TypeOK, Drained, Settled
      <3> QED
        BY <3>1 DEF CutShort
    <2>2. CASE task[r] \notin {"created", "waiting"}
      BY <1>2, <1>8, <2>2 DEF Cancel, TypeOK, Active
    <2> QED
      BY <2>1, <2>2
  <1>9. ASSUME NEW r \in Runs, Evict(r) PROVE Line'
    <2>1. /\ UNCHANGED <<task, prev>>
          /\ current' # current => status[current] # "running" /\ current = r
      BY <1>9 DEF Evict
    <2>2. CASE current' = current
      BY <1>2, <2>1, <2>2 DEF Active
    <2>3. CASE status[current] # "running" /\ current = r
      <3>1. ~Active(current)
        BY <2>3 DEF Drained, Settled, Active
      <3>2. PICK q \in Seq(Runs) : InLine(q)
        BY DEF Line
      <3>3. Len(q) = 0
        <4>1. Len(q) \in Nat /\ (Len(q) > 0 => Active(current))
          BY <3>2 DEF InLine
        <4> QED
          BY <3>1, <4>1
      <3>4. InLine(q)'
        BY <2>1, <3>2, <3>3 DEF InLine, Active
      <3> QED
        BY <3>4 DEF Line
    <2> QED
      BY <2>1, <2>2, <2>3
  <1>10. CASE Stop
    BY <1>2, <1>10 DEF Stop, Active
  <1> QED
    BY <1>3, <1>4, <1>5, <1>6, <1>7, <1>8, <1>9, <1>10, StepCases

\* However many runs replace one another, and however they end: unless one of
\* them is cut short while it waits, no two write the session together.
THEOREM SavesAreSequential == Spec => []SequentialUnlessCut
  <1>1. Init => CutShort \/ Line
    <2> SUFFICES ASSUME Init PROVE Line
      OBVIOUS
    <2>1. <<>> \in Seq(Runs) /\ Len(<<>>) = 0
      OBVIOUS
    <2>2. InLine(<<>>)
      BY <2>1 DEF Init, InLine, Active
    <2> QED
      BY <2>1, <2>2 DEF Line
  <1>2. IInv /\ (CutShort \/ Line) /\ [Next]_vars => (CutShort \/ Line)'
    BY LineStep DEF IInv, Drained
  <1>3. IInv /\ (CutShort \/ Line) => SequentialUnlessCut
    <2> SUFFICES ASSUME IInv, Line, NEW r \in Runs, NEW s \in Runs,
                        task[r] \in {"writing", "saving"}, task[s] \in {"writing", "saving"}
                 PROVE  r = s
      BY DEF SequentialUnlessCut, SavesSequential
    <2>1. PICK q \in Seq(Runs) : InLine(q)
      BY DEF Line
    <2>2. PICK i \in 1..Len(q) : q[i] = r
      BY <2>1 DEF InLine, Active
    <2>3. PICK j \in 1..Len(q) : q[j] = s
      BY <2>1 DEF InLine, Active
    <2>4. i = 1 /\ j = 1
      BY <2>1, <2>2, <2>3, FirstWrites DEF IInv
    <2> QED
      BY <2>2, <2>3, <2>4
  <1> QED
    BY <1>1, <1>2, <1>3, Inductive, PTL DEF Spec
===============================================================================
