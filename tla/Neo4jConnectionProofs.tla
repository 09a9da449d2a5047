----------------------- MODULE Neo4jConnectionProofs -----------------------
(***************************************************************************)
(* Theorems about Neo4jConnection, for any number of overlapping calls and *)
(* any cooldown.                                                           *)
(***************************************************************************)
EXTENDS Neo4jConnection, TLAPS

\* A thread that waits for verify_connectivity has a driver it asked.
VerifiesADriver == \A c \in Calls : pc[c] = "verifying" => using[c] # NoDriver

\* The inductive invariant.
IInv == TypeOK /\ VerifiesADriver /\ DriverIsVouchedFor

\* The variables keep their types: VerifyOk vouches for a driver.
LEMMA TypeStep == ASSUME TypeOK, VerifiesADriver, [Next]_vars PROVE TypeOK'
<1> USE CooldownAssumption
<1>1. ASSUME NEW c \in Calls, Call(c) PROVE TypeOK'
  BY <1>1 DEF TypeOK, Call, Go, Connecting
<1>2. ASSUME NEW c \in Calls, LookAgain(c) PROVE TypeOK'
  BY <1>2 DEF TypeOK, LookAgain, Go, Connecting
<1>3. ASSUME NEW c \in Calls, Throttle(c) PROVE TypeOK'
  BY <1>3 DEF TypeOK, Throttle, AgeWhenThrottled, Return, Go, Connecting
<1>4. ASSUME NEW c \in Calls, Stamp(c) PROVE TypeOK'
  BY <1>4 DEF TypeOK, Stamp, Go, Connecting
<1>5. ASSUME NEW c \in Calls, CreateDriver(c) PROVE TypeOK'
  BY <1>5 DEF TypeOK, CreateDriver, Drivers, Go, Connecting
<1>6. ASSUME NEW c \in Calls, BeginVerify(c) PROVE TypeOK'
  BY <1>6 DEF TypeOK, BeginVerify, Exchange, Go, Connecting
<1>7. ASSUME NEW c \in Calls, VerifyOk(c) PROVE TypeOK'
  <2>1. using[c] \in Drivers
    BY <1>7 DEF TypeOK, VerifyOk, VerifiesADriver
  <2> QED
    BY <1>7, <2>1 DEF TypeOK, VerifyOk, Go, Connecting
<1>8. ASSUME NEW c \in Calls, VerifyFails(c) PROVE TypeOK'
  BY <1>8 DEF TypeOK, VerifyFails, DriverAfterFailure, Go, Connecting
<1>9. ASSUME NEW c \in Calls, Ensured(c) PROVE TypeOK'
  BY <1>9 DEF TypeOK, Ensured, Return, Go, Connecting
<1>10. ASSUME NEW c \in Calls, BeginQuery(c) PROVE TypeOK'
  BY <1>10 DEF TypeOK, BeginQuery, Exchange, Return, Go, Connecting
<1>11. ASSUME NEW c \in Calls, EndQuery(c) PROVE TypeOK'
  BY <1>11 DEF TypeOK, EndQuery, Return, Go, Connecting
<1>12. CASE ServerUp
  BY <1>12 DEF TypeOK, ServerUp
<1>13. CASE ServerDown
  <2>1. flawed' \subseteq Calls
    BY <1>13 DEF TypeOK, ServerDown
  <2>2. up' \in BOOLEAN
    BY <1>13, Zenon DEF ServerDown
  <2> QED
    BY <1>13, <2>1, <2>2, Zenon DEF TypeOK, ServerDown
<1>14. CASE Tick
  BY <1>14 DEF TypeOK, Tick
<1>15. CASE UNCHANGED vars
  BY <1>15 DEF TypeOK, vars
<1> QED
  BY <1>1, <1>2, <1>3, <1>4, <1>5, <1>6, <1>7, <1>8, <1>9, <1>10, <1>11,
     <1>12, <1>13, <1>14, <1>15 DEF Next, Work

\* Only BeginVerify enters the wait, and it has just read a driver.
LEMMA VerifiesADriverStep ==
  ASSUME TypeOK, VerifiesADriver, [Next]_vars
  PROVE  VerifiesADriver'
<1>1. ASSUME NEW c \in Calls, BeginVerify(c) PROVE VerifiesADriver'
  BY <1>1 DEF TypeOK, VerifiesADriver, BeginVerify, Exchange, Go
<1>2. ASSUME NEW c \in Calls, BeginQuery(c) PROVE VerifiesADriver'
  BY <1>2 DEF TypeOK, VerifiesADriver, BeginQuery, Exchange, Return, Go
<1>3. ASSUME NEW c \in Calls, Call(c) \/ LookAgain(c) \/ Stamp(c) \/ CreateDriver(c)
      PROVE  VerifiesADriver'
  BY <1>3 DEF TypeOK, VerifiesADriver, Call, LookAgain, Stamp, CreateDriver, Go
<1>4. ASSUME NEW c \in Calls,
             Throttle(c) \/ VerifyOk(c) \/ VerifyFails(c) \/ Ensured(c) \/ EndQuery(c)
      PROVE  VerifiesADriver'
  BY <1>4 DEF TypeOK, VerifiesADriver, Throttle, VerifyOk, VerifyFails, Ensured,
     EndQuery, Return, Go
<1>5. CASE ServerUp \/ ServerDown \/ Tick \/ UNCHANGED vars
  BY <1>5 DEF VerifiesADriver, ServerUp, ServerDown, Tick, vars
<1> QED
  BY <1>1, <1>2, <1>3, <1>4, <1>5 DEF Next, Work

\* Whoever assigns the driver is the one to verify it, and any failure takes
\* away whatever driver there is.
LEMMA VouchedForStep ==
  ASSUME TypeOK, DriverIsVouchedFor, [Next]_vars
  PROVE  DriverIsVouchedFor'
<1>1. ASSUME NEW c \in Calls, Call(c) \/ LookAgain(c) \/ Stamp(c)
      PROVE  DriverIsVouchedFor'
  BY <1>1 DEF TypeOK, DriverIsVouchedFor, Call, LookAgain, Stamp, Go
<1>2. ASSUME NEW c \in Calls, Throttle(c) \/ Ensured(c) \/ EndQuery(c)
      PROVE  DriverIsVouchedFor'
  BY <1>2 DEF TypeOK, DriverIsVouchedFor, Throttle, Ensured, EndQuery, Return, Go
<1>3. ASSUME NEW c \in Calls, CreateDriver(c) PROVE DriverIsVouchedFor'
  BY <1>3 DEF TypeOK, DriverIsVouchedFor, CreateDriver, Go
<1>4. ASSUME NEW c \in Calls, BeginVerify(c) PROVE DriverIsVouchedFor'
  BY <1>4 DEF TypeOK, DriverIsVouchedFor, BeginVerify, Exchange, Go
<1>5. ASSUME NEW c \in Calls, VerifyOk(c) PROVE DriverIsVouchedFor'
  BY <1>5 DEF TypeOK, DriverIsVouchedFor, VerifyOk, Go
<1>6. ASSUME NEW c \in Calls, VerifyFails(c) PROVE DriverIsVouchedFor'
  BY <1>6 DEF DriverIsVouchedFor, VerifyFails, DriverAfterFailure
<1>7. ASSUME NEW c \in Calls, BeginQuery(c) PROVE DriverIsVouchedFor'
  BY <1>7 DEF TypeOK, DriverIsVouchedFor, BeginQuery, Exchange, Return, Go
<1>8. CASE ServerUp \/ ServerDown \/ Tick \/ UNCHANGED vars
  BY <1>8 DEF DriverIsVouchedFor, ServerUp, ServerDown, Tick, vars
<1> QED
  BY <1>1, <1>2, <1>3, <1>4, <1>5, <1>6, <1>7, <1>8 DEF Next, Work

\* A store that connected at boot has verified its driver (__init__).
LEMMA InitEstablishes == Init => IInv
BY NamesAssumption DEF Init, IInv, TypeOK, VerifiesADriver, DriverIsVouchedFor,
   Drivers, Connecting, NoDriver, Boot

\* IInv holds of the store for ever: _connect and every step of a call keep it.
THEOREM Invariance == Spec => []IInv
<1>1. IInv /\ [Next]_vars => IInv'
  BY TypeStep, VerifiesADriverStep, VouchedForStep DEF IInv
<1> QED
  BY InitEstablishes, <1>1, PTL DEF Spec

\* The store and its calls keep their types (neo4j_store.py).
THEOREM TypeCorrect == Spec => []TypeOK
BY Invariance, PTL DEF IInv

\* However many calls overlap, the store's driver has reached Neo4j or is about
\* to be verified by the thread that made it (_connect, _ensure_driver).
THEOREM NoForgottenDriver == Spec => []DriverIsVouchedFor
BY Invariance, PTL DEF IInv
=============================================================================
