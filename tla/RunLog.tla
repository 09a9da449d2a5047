------------------------------- MODULE RunLog -------------------------------
(***************************************************************************)
(* What a detached run promises its readers, without tasks, queues or      *)
(* replays: every run has one log, which grows until it is closed.  Who    *)
(* reads it is given its events one by one from the first on, whenever he  *)
(* comes, and is dismissed only with the whole of a closed log.            *)
(***************************************************************************)
EXTENDS Naturals, Sequences

CONSTANTS Runs, Clients, NoRun

VARIABLES
  length,   \* events in the log of each run
  closed,   \* runs whose log is closed
  place,    \* whether each client has come, reads, or is through
  reads,    \* the run it reads
  got       \* the events it has been given, each its place in the log

vars == <<length, closed, place, reads, got>>

Init ==
  /\ length = [r \in Runs |-> 0]
  /\ closed = {}
  /\ place = [c \in Clients |-> "new"]
  /\ reads = [c \in Clients |-> NoRun]
  /\ got = [c \in Clients |-> <<>>]

Write(r) ==
  /\ r \notin closed
  /\ length' = [length EXCEPT ![r] = @ + 1]
  /\ UNCHANGED <<closed, place, reads, got>>

\* A log is closed as it is, or with the two events of an error.
Close(r) ==
  /\ r \notin closed
  /\ closed' = closed \union {r}
  /\ \E last \in {0, 2} : length' = [length EXCEPT ![r] = @ + last]
  /\ UNCHANGED <<place, reads, got>>

Attach(c, r) ==
  /\ place[c] = "new"
  /\ place' = [place EXCEPT ![c] = "reading"]
  /\ reads' = [reads EXCEPT ![c] = r]
  /\ UNCHANGED <<length, closed, got>>

\* There is nothing to read.
TurnAway(c) ==
  /\ place[c] = "new"
  /\ place' = [place EXCEPT ![c] = "ended"]
  /\ UNCHANGED <<length, closed, reads, got>>

Deliver(c) ==
  /\ place[c] = "reading" /\ Len(got[c]) < length[reads[c]]
  /\ got' = [got EXCEPT ![c] = Append(@, Len(@))]
  /\ UNCHANGED <<length, closed, place, reads>>

\* What is left of a closed log is delivered, and the reading is over.
Dismiss(c) ==
  /\ place[c] = "reading" /\ reads[c] \in closed
  /\ place' = [place EXCEPT ![c] = "ended"]
  /\ got' = [got EXCEPT ![c] = [i \in 1..length[reads[c]] |-> i - 1]]
  /\ UNCHANGED <<length, closed, reads>>

Leave(c) ==
  /\ place[c] = "reading"
  /\ place' = [place EXCEPT ![c] = "left"]
  /\ UNCHANGED <<length, closed, reads, got>>

Next ==
  \/ \E r \in Runs : Write(r) \/ Close(r)
  \/ \E c \in Clients :
       \/ \E r \in Runs : Attach(c, r)
       \/ TurnAway(c) \/ Deliver(c) \/ Dismiss(c) \/ Leave(c)

Spec == Init /\ [][Next]_vars
=============================================================================
