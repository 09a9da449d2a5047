--------------------------- MODULE Neo4jConnection ---------------------------
(***************************************************************************)
(* How the backend comes by, shares and loses its Neo4j driver             *)
(* (aeon/backend/memory/neo4j_store.py).                                   *)
(*                                                                         *)
(* One Neo4jStore serves every request.  A call looks at self.driver on    *)
(* the event loop; without one it runs _ensure_driver in a worker thread   *)
(* (asyncio.to_thread), and queries run in worker threads too.  Nothing    *)
(* locks the store: threads interleave at every statement that touches it. *)
(*                                                                         *)
(* Time is the age of the last attempt to connect, up to the cooldown.     *)
(***************************************************************************)
EXTENDS Integers

CONSTANTS Calls,        \* concurrent calls of the store's async methods
          COOLDOWN      \* _reconnect_cooldown, in ticks of the clock

ASSUME CooldownAssumption == COOLDOWN \in Nat \ {0}

NoDriver == "None"
Boot == "boot"
ASSUME NamesAssumption == NoDriver \notin Calls /\ Boot \notin Calls

\* A driver is named for the thread that made it.
Drivers == Calls \union {Boot}

VARIABLES
  up,        \* Neo4j answers
  driver,    \* self.driver
  age,       \* time.monotonic() - self._last_connect_attempt, capped
  pc,        \* what each call does next
  using,     \* the driver a call is verifying or querying with
  flawed,    \* calls whose exchange with Neo4j overlapped with an outage
  verified,  \* drivers that verify_connectivity has vouched for
  answer     \* what the call returned to its caller

vars == <<up, driver, age, pc, using, flawed, verified, answer>>

Connecting == {"create", "verify", "verifying"}

TypeOK ==
  /\ up \in BOOLEAN
  /\ driver \in Drivers \union {NoDriver}
  /\ age \in 0..COOLDOWN
  /\ pc \in [Calls -> {"idle", "ensure", "throttle", "connect", "ensured",
                       "query", "querying"} \union Connecting]
  /\ using \in [Calls -> Drivers \union {NoDriver}]
  /\ flawed \subseteq Calls
  /\ verified \subseteq Drivers
  /\ answer \in [Calls -> {"none", "ok", "fallback"}]

\* __init__ has tried once, before the server takes requests.
Init ==
  /\ up \in BOOLEAN
  /\ driver = IF up THEN Boot ELSE NoDriver
  /\ age \in 0..COOLDOWN
  /\ pc = [c \in Calls |-> "idle"]
  /\ using = [c \in Calls |-> NoDriver]
  /\ flawed = {}
  /\ verified = IF up THEN {Boot} ELSE {}
  /\ answer = [c \in Calls |-> "none"]

Go(c, p) == pc' = [pc EXCEPT ![c] = p]
Return(c, a) == Go(c, "idle") /\ answer' = [answer EXCEPT ![c] = a]

\* c begins an exchange with Neo4j on the driver it has just read.
Exchange(c, p) ==
  /\ Go(c, p)
  /\ using' = [using EXCEPT ![c] = driver]
  /\ flawed' = IF up THEN flawed \ {c} ELSE flawed \union {c}

-----------------------------------------------------------------------------
\* A request calls the store: self.driver is None, or not.
Call(c) ==
  /\ pc[c] = "idle"
  /\ Go(c, IF driver = NoDriver THEN "ensure" ELSE "query")
  /\ answer' = [answer EXCEPT ![c] = "none"]
  /\ UNCHANGED <<up, driver, age, using, flawed, verified>>

\* _ensure_driver, in a thread: somebody else may have connected since.
LookAgain(c) ==
  /\ pc[c] = "ensure"
  /\ Go(c, IF driver = NoDriver THEN "throttle" ELSE "query")
  /\ UNCHANGED <<up, driver, age, using, flawed, verified, answer>>

\* Faulty variants: a call that is turned away starts the cooldown afresh, or
\* draws it out.
AgeWhenRestarted == 0
AgeWhenExtended == age - 1

\* A call within the cooldown leaves the time of the last attempt alone.
AgeWhenThrottled == age

Throttle(c) ==
  /\ pc[c] = "throttle"
  /\ IF age < COOLDOWN
       THEN Return(c, "fallback") /\ age' = AgeWhenThrottled
       ELSE Go(c, "connect") /\ UNCHANGED <<answer, age>>
  /\ UNCHANGED <<up, driver, using, flawed, verified>>

\* _connect: stamp the attempt, make a driver, verify it.
Stamp(c) ==
  /\ pc[c] = "connect"
  /\ age' = 0
  /\ Go(c, "create")
  /\ UNCHANGED <<up, driver, using, flawed, verified, answer>>

CreateDriver(c) ==
  /\ pc[c] = "create"
  /\ driver' = c
  /\ verified' = verified \ {c}
  /\ Go(c, "verify")
  /\ UNCHANGED <<up, age, using, flawed, answer>>

\* self.driver.verify_connectivity(), on whatever self.driver is by now.
BeginVerify(c) ==
  /\ pc[c] = "verify" /\ driver # NoDriver
  /\ Exchange(c, "verifying")
  /\ UNCHANGED <<up, driver, age, verified, answer>>

VerifyOk(c) ==
  /\ pc[c] = "verifying" /\ up
  /\ verified' = verified \union {using[c]}
  /\ Go(c, "ensured")
  /\ UNCHANGED <<up, driver, age, using, flawed, answer>>

\* Faulty variant: the driver that failed stays.
DriverAfterKept == driver

\* The except clause, whosever driver it drops.
DriverAfterFailure == NoDriver

\* The exchange failed, or another thread's failure has taken the driver away.
VerifyFails(c) ==
  /\ \/ pc[c] = "verifying" /\ c \in flawed
     \/ pc[c] = "verify" /\ driver = NoDriver
  /\ driver' = DriverAfterFailure
  /\ Go(c, "ensured")
  /\ UNCHANGED <<up, age, using, flawed, verified, answer>>

\* return self.driver is not None
Ensured(c) ==
  /\ pc[c] = "ensured"
  /\ IF driver = NoDriver
       THEN Return(c, "fallback")
       ELSE Go(c, "query") /\ UNCHANGED answer
  /\ UNCHANGED <<up, driver, age, using, flawed, verified>>

\* self.driver.session(): None by now if somebody's attempt failed meanwhile.
BeginQuery(c) ==
  /\ pc[c] = "query"
  /\ IF driver = NoDriver
       THEN Return(c, "fallback") /\ UNCHANGED <<using, flawed>>
       ELSE Exchange(c, "querying") /\ UNCHANGED answer
  /\ UNCHANGED <<up, driver, age, verified>>

\* Faulty variant: a query waits for Neo4j to come back.
EndQueryWaits(c) ==
  /\ pc[c] = "querying" /\ up
  /\ Return(c, "ok")
  /\ UNCHANGED <<up, driver, age, using, flawed, verified>>

\* Every exception becomes the call's empty answer.
EndQuery(c) ==
  /\ pc[c] = "querying"
  /\ \/ up /\ Return(c, "ok")
     \/ c \in flawed /\ Return(c, "fallback")
  /\ UNCHANGED <<up, driver, age, using, flawed, verified>>

-----------------------------------------------------------------------------
(* Around the store                                                        *)

ServerUp ==
  /\ ~up
  /\ up' = TRUE
  /\ UNCHANGED <<driver, age, pc, using, flawed, verified, answer>>

ServerDown ==
  /\ up
  /\ up' = FALSE
  /\ flawed' = flawed \union {c \in Calls : pc[c] \in {"verifying", "querying"}}
  /\ UNCHANGED <<driver, age, pc, using, verified, answer>>

Tick ==
  /\ age < COOLDOWN
  /\ age' = age + 1
  /\ UNCHANGED <<up, driver, pc, using, flawed, verified, answer>>

Work(c) ==
  \/ LookAgain(c) \/ Throttle(c) \/ Stamp(c) \/ CreateDriver(c)
  \/ BeginVerify(c) \/ VerifyOk(c) \/ VerifyFails(c) \/ Ensured(c)
  \/ BeginQuery(c) \/ EndQuery(c)

Next ==
  \/ \E c \in Calls : Call(c) \/ Work(c)
  \/ ServerUp \/ ServerDown \/ Tick

Spec == Init /\ [][Next]_vars

\* Threads run, exchanges end, time passes.  Nobody has to call.
FairSpec == Spec /\ WF_vars(Tick) /\ \A c \in Calls : WF_vars(Work(c))

-----------------------------------------------------------------------------
(* Properties                                                              *)

\* However the attempts overlap and whichever of them fails, the driver the
\* store has is one that has reached Neo4j, or the thread that made it is still
\* to verify that very driver: no dead driver is left that nobody will look at
\* (_connect, _ensure_driver).
DriverIsVouchedFor ==
  driver # NoDriver =>
    \/ driver \in verified
    \/ /\ driver \in Calls
       /\ \/ pc[driver] = "verify"
          \/ pc[driver] = "verifying" /\ using[driver] = driver

\* "Self-heal the cold-start race ... instead of no-op'ing for the rest of the
\* process life" (_ensure_driver): once Neo4j stays up and calls keep coming,
\* the store has a driver for good.
SelfHeals ==
  <>[]up /\ []<>(\E c \in Calls : pc[c] = "ensure" \/ driver # NoDriver)
    => <>[](driver # NoDriver)

\* A call returns to its request, with an answer or with the fallback, through
\* outages, throttling and drivers that vanish under it.
CallsReturn == \A c \in Calls : pc[c] # "idle" ~> pc[c] = "idle"

\* "Throttled so a genuinely down Neo4j isn't hammered on every call"
\* (_ensure_driver): no attempt begins within the cooldown of the last.  The
\* threads test the clock and stamp it in separate steps.
AttemptsAreSpaced ==
  [][\A c \in Calls : pc[c] = "connect" /\ pc'[c] = "create" => age >= COOLDOWN]_vars
=============================================================================
