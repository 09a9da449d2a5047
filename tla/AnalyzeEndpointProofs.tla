------------------------ MODULE AnalyzeEndpointProofs ------------------------
(***************************************************************************)
(* Proofs about AnalyzeEndpoint, for any number of requests.               *)
(***************************************************************************)
EXTENDS AnalyzeEndpoint, TLAPS

\* A request past the agent holds a dict and has an incident id.
Underway ==
  \A r \in Requests :
    pc[r] \in {"chroma", "neo4j", "actions"} => holds[r] \in Objects /\ incident[r] \in Ids

\* What a dict carries as its id both stores have been called with, and a
\* request that waits for Neo4j has been through Chroma.
Backed ==
  /\ \A o \in Objects : idOf[o] # None => \A s \in Stores : <<s, idOf[o]>> \in stored
  /\ \A r \in Requests : pc[r] = "neo4j" => <<"chroma", incident[r]>> \in stored

\* With a provider nobody writes into _MOCK_RESULT.
MockIsClean == live => idOf[Mock] = None /\ actionsOf[Mock] = None

\* A request's dict is its own, and so is what is in it.
OwnDict(r) ==
  /\ pc[r] \in {"idle", "agent"} =>
       idOf[r] = None /\ actionsOf[r] = None /\ answer[r] = NoAnswer
  /\ pc[r] \in {"chroma", "neo4j", "actions"} => holds[r] = r
  /\ pc[r] \in {"chroma", "neo4j"} => incident[r] = <<"ai", r>> /\ want[r].store
  /\ pc[r] = "actions" => want[r].execute
  /\ idOf[r] # None => idOf[r] = incident[r] /\ incident[r] = <<"ai", r>> /\ want[r].store
  /\ actionsOf[r] # None => actionsOf[r] = r /\ want[r].execute

DictsAreOwn == live => \A r \in Requests : OwnDict(r)

IInv == TypeOK /\ Underway /\ Backed /\ AnsweredIdsAreStored
        /\ MockIsClean /\ DictsAreOwn /\ AnswersAreOwn

USE NoneAssumption, MockAssumption

-----------------------------------------------------------------------------
\* What GotResult does, with the two ways on from it told apart.
LEMMA GotResultSteps ==
  ASSUME TypeOK, NEW r \in Requests, NEW o \in Objects, NEW h \in BOOLEAN,
         NEW b \in SUBSET (Stores \X Ids),
         idOf' \in [Objects -> Ids \union {None}],
         actionsOf' \in [Objects -> Requests \union {None}],
         GotResult(r, o, h, b)
  PROVE  /\ holds' = [holds EXCEPT ![r] = o]
         /\ found' = [found EXCEPT ![r] = h]
         /\ incident' = [incident EXCEPT ![r] = IF idOf'[o] = None THEN <<"ai", r>> ELSE idOf'[o]]
         /\ stored' = stored \union b
         /\ live' = live /\ want' = want
         /\ \/ /\ idOf'[o] = None /\ want[r].store
               /\ pc' = [pc EXCEPT ![r] = "chroma"] /\ answer' = answer
            \/ /\ want[r].execute
               /\ pc' = [pc EXCEPT ![r] = "actions"] /\ answer' = answer
            \/ /\ pc' = [pc EXCEPT ![r] = "done"]
               /\ answer' = [answer EXCEPT ![r] = [id |-> idOf'[o], actions |-> actionsOf'[o]]]
<1>1. holds'[r] = o
  BY DEF GotResult, TypeOK
<1> QED
  BY <1>1 DEF GotResult, ExecuteOrAnswer, Answer, given

\* Types are preserved by GotResult.
LEMMA GotResultTypes ==
  ASSUME TypeOK, NEW r \in Requests, NEW o \in Objects, NEW h \in BOOLEAN,
         NEW b \in SUBSET (Stores \X Ids),
         idOf' \in [Objects -> Ids \union {None}],
         actionsOf' \in [Objects -> Requests \union {None}],
         GotResult(r, o, h, b)
  PROVE  TypeOK'
<1> DEFINE id == IF idOf'[o] = None THEN <<"ai", r>> ELSE idOf'[o]
<1>1. id \in Ids
  BY DEF Ids
<1>2. /\ holds' = [holds EXCEPT ![r] = o]
      /\ found' = [found EXCEPT ![r] = h]
      /\ incident' = [incident EXCEPT ![r] = id]
      /\ stored' = stored \union b
      /\ live' = live /\ want' = want
  BY GotResultSteps
<1>3. \/ pc' = [pc EXCEPT ![r] = "chroma"] /\ answer' = answer
      \/ pc' = [pc EXCEPT ![r] = "actions"] /\ answer' = answer
      \/ /\ pc' = [pc EXCEPT ![r] = "done"]
         /\ answer' = [answer EXCEPT ![r] = [id |-> idOf'[o], actions |-> actionsOf'[o]]]
  BY GotResultSteps
<1>4. [id |-> idOf'[o], actions |-> actionsOf'[o]]
        \in [id : Ids \union {None}, actions : Requests \union {None}]
  OBVIOUS
<1> HIDE DEF id
<1>5. /\ holds' \in [Requests -> Objects \union {None}]
      /\ found' \in [Requests -> BOOLEAN]
      /\ incident' \in [Requests -> Ids \union {None}]
      /\ stored' \subseteq Stores \X Ids
      /\ live' \in BOOLEAN /\ want' \in [Requests -> Wants]
  BY <1>1, <1>2 DEF TypeOK
<1>6. pc' \in [Requests -> {"idle", "agent", "chroma", "neo4j", "actions", "done"}]
  BY <1>3 DEF TypeOK
<1>7. answer' \in [Requests -> [id : Ids \union {None}, actions : Requests \union {None}]]
  <2> DEFINE Shown == [id : Ids \union {None}, actions : Requests \union {None}]
             shown == [id |-> idOf'[o], actions |-> actionsOf'[o]]
  <2>1. answer \in [Requests -> Shown] /\ shown \in Shown
    BY <1>4 DEF TypeOK
  <2>2. answer' = answer \/ answer' = [answer EXCEPT ![r] = shown]
    BY <1>3
  <2> HIDE DEF Shown, shown
  <2>3. answer' \in [Requests -> Shown]
    BY <2>1, <2>2
  <2> QED
    BY <2>3 DEF Shown
<1> QED
  BY <1>5, <1>6, <1>7 DEF TypeOK

\* GotResult preserves the invariant, whether the dict is the request's own,
\* a copy of _MOCK_RESULT, or (without a provider) _MOCK_RESULT itself.
LEMMA GotResultInv ==
  ASSUME IInv, NEW r \in Requests, NEW o \in Objects, NEW h \in BOOLEAN,
         NEW b \in SUBSET (Stores \X Ids),
         pc[r] \in {"idle", "agent"},
         live => o = r,
         idOf' \in [Objects -> Ids \union {None}],
         actionsOf' \in [Objects -> Requests \union {None}],
         \A x \in Objects \ {o} : idOf'[x] = idOf[x] /\ actionsOf'[x] = actionsOf[x],
         idOf'[o] \in {idOf[o], idOf[Mock]},
         actionsOf'[o] \in {actionsOf[o], actionsOf[Mock]},
         GotResult(r, o, h, b)
  PROVE  IInv'
<1> DEFINE id == IF idOf'[o] = None THEN <<"ai", r>> ELSE idOf'[o]
           shown == [id |-> idOf'[o], actions |-> actionsOf'[o]]
<1>0. TypeOK /\ TypeOK'
  BY GotResultTypes DEF IInv
<1>1. /\ holds' = [holds EXCEPT ![r] = o]
      /\ incident' = [incident EXCEPT ![r] = id]
      /\ stored \subseteq stored'
      /\ live' = live /\ want' = want
  BY GotResultSteps, <1>0
<1>2. \/ /\ idOf'[o] = None /\ want[r].store
         /\ pc' = [pc EXCEPT ![r] = "chroma"] /\ answer' = answer
      \/ /\ want[r].execute
         /\ pc' = [pc EXCEPT ![r] = "actions"] /\ answer' = answer
      \/ /\ pc' = [pc EXCEPT ![r] = "done"]
         /\ answer' = [answer EXCEPT ![r] = shown]
  BY GotResultSteps, <1>0
<1>3. shown.id = idOf'[o] /\ shown.actions = actionsOf'[o]
  OBVIOUS
<1>4. id \in Ids
  BY DEF Ids
<1>5. idOf'[o] = None => id = <<"ai", r>>
  OBVIOUS
<1> HIDE DEF id, shown
<1>6. \A q \in Requests \ {r} :
        /\ pc'[q] = pc[q] /\ holds'[q] = holds[q] /\ incident'[q] = incident[q]
        /\ answer'[q] = answer[q]
  BY <1>0, <1>1, <1>2 DEF TypeOK
<1>7. /\ holds'[r] = o /\ incident'[r] = id
      /\ pc'[r] \in {"chroma", "actions", "done"}
      /\ pc'[r] = "chroma" => idOf'[o] = None /\ want[r].store
      /\ pc'[r] = "actions" => want[r].execute
      /\ answer'[r] \in {answer[r], shown}
  BY <1>0, <1>1, <1>2 DEF TypeOK
<1>8. Mock \in Objects /\ r \in Objects /\ r # Mock
  BY DEF Objects
<1>9. Underway'
  BY <1>4, <1>6, <1>7 DEF IInv, Underway
<1>10. Backed'
  <2>1. ASSUME NEW x \in Objects, idOf'[x] # None, NEW s \in Stores
        PROVE  <<s, idOf'[x]>> \in stored'
    BY <2>1, <1>1, <1>8 DEF IInv, Backed
  <2>2. ASSUME NEW q \in Requests, pc'[q] = "neo4j"
        PROVE  <<"chroma", incident'[q]>> \in stored'
    BY <2>2, <1>1, <1>6, <1>7 DEF IInv, Backed
  <2> QED
    BY <2>1, <2>2 DEF Backed
<1>11. AnsweredIdsAreStored'
  <2> SUFFICES ASSUME NEW q \in Requests, answer'[q].id # None, NEW s \in Stores
               PROVE  <<s, answer'[q].id>> \in stored'
    BY DEF AnsweredIdsAreStored
  <2>1. CASE answer'[q] = answer[q]
    BY <2>1, <1>1 DEF IInv, AnsweredIdsAreStored
  <2>2. CASE answer'[q] # answer[q]
    BY <2>2, <1>3, <1>6, <1>7, <1>10 DEF Backed
  <2> QED
    BY <2>1, <2>2
<1>12. MockIsClean'
  BY <1>1, <1>8 DEF IInv, MockIsClean
<1>13. live => /\ idOf'[r] = None /\ actionsOf'[r] = None /\ answer[r] = NoAnswer
               /\ shown.id = None /\ shown.actions = None
  BY <1>3, <1>8 DEF IInv, MockIsClean, DictsAreOwn, OwnDict
<1>14. DictsAreOwn'
  <2> SUFFICES ASSUME live, NEW q \in Requests
               PROVE  OwnDict(q)'
    BY <1>1 DEF DictsAreOwn
  <2>1. CASE q = r
    BY <2>1, <1>1, <1>5, <1>7, <1>13 DEF OwnDict
  <2>2. CASE q # r
    <3>1. idOf'[q] = idOf[q] /\ actionsOf'[q] = actionsOf[q]
      BY <2>2 DEF Objects
    <3> QED
      BY <2>2, <3>1, <1>1, <1>6 DEF IInv, DictsAreOwn, OwnDict
  <2> QED
    BY <2>1, <2>2
<1>15. AnswersAreOwn'
  <2> SUFFICES ASSUME live, NEW q \in Requests
               PROVE  /\ answer'[q].id # None =>
                           /\ answer'[q].id = incident'[q] /\ answer'[q].id[2] = q
                           /\ want'[q].store
                      /\ answer'[q].actions # None =>
                           answer'[q].actions = q /\ want'[q].execute
    BY <1>1 DEF AnswersAreOwn
  <2>1. CASE q = r
    BY <2>1, <1>7, <1>13 DEF NoAnswer
  <2>2. CASE q # r
    BY <2>2, <1>1, <1>6 DEF IInv, AnswersAreOwn
  <2> QED
    BY <2>1, <2>2
<1> QED
  BY <1>0, <1>9, <1>10, <1>11, <1>12, <1>14, <1>15 DEF IInv

-----------------------------------------------------------------------------
LEMMA Initially == Init => IInv
<1> SUFFICES ASSUME Init PROVE IInv
  OBVIOUS
<1>1. NoAnswer \in [id : Ids \union {None}, actions : Requests \union {None}]
  BY DEF NoAnswer
<1>2. TypeOK
  BY <1>1 DEF Init, TypeOK
<1>3. Mock \in Objects /\ Requests \subseteq Objects
  BY DEF Objects
<1>4. \A r \in Requests : answer[r].id = None /\ answer[r].actions = None
  BY DEF Init, NoAnswer
<1> QED
  BY <1>2, <1>3, <1>4 DEF Init, IInv, Underway, Backed, AnsweredIdsAreStored, MockIsClean,
     DictsAreOwn, OwnDict, AnswersAreOwn

\* The two steps between the agent and the answer that store.
LEMMA ChromaReturnedInv ==
  ASSUME IInv, NEW r \in Requests, ChromaReturned(r)
  PROVE  IInv'
<1> USE DEF ChromaReturned, Store, given, dicts
<1>1. incident[r] \in Ids
  BY DEF IInv, Underway
<1>2. TypeOK'
  BY <1>1 DEF IInv, TypeOK, Stores
<1>3. /\ \A q \in Requests \ {r} : pc'[q] = pc[q]
      /\ pc'[r] = "neo4j" /\ pc[r] = "chroma"
      /\ stored' = stored \union {<<"chroma", incident[r]>>}
  BY DEF IInv, TypeOK
<1>4. Underway' /\ Backed' /\ AnsweredIdsAreStored'
  BY <1>3 DEF IInv, Underway, Backed, AnsweredIdsAreStored
<1>5. MockIsClean' /\ DictsAreOwn'
  BY <1>3 DEF IInv, MockIsClean, DictsAreOwn, OwnDict
<1>6. AnswersAreOwn'
  BY DEF IInv, AnswersAreOwn
<1> QED
  BY <1>2, <1>4, <1>5, <1>6 DEF IInv

\* What the response of r shows, once the dict it holds is as it will be.
LEMMA AnswerShows ==
  ASSUME TypeOK, NEW r \in Requests, holds' = holds, holds[r] \in Objects,
         idOf' \in [Objects -> Ids \union {None}],
         actionsOf' \in [Objects -> Requests \union {None}],
         Answer(r)
  PROVE  /\ pc' = [pc EXCEPT ![r] = "done"]
         /\ answer' \in [Requests -> [id : Ids \union {None}, actions : Requests \union {None}]]
         /\ answer'[r].id = idOf'[holds[r]]
         /\ answer'[r].actions = actionsOf'[holds[r]]
         /\ \A q \in Requests \ {r} : answer'[q] = answer[q]
<1> DEFINE Shown == [id : Ids \union {None}, actions : Requests \union {None}]
           shown == [id |-> idOf'[holds[r]], actions |-> actionsOf'[holds[r]]]
<1>1. shown \in Shown /\ shown.id = idOf'[holds[r]] /\ shown.actions = actionsOf'[holds[r]]
  OBVIOUS
<1>2. answer \in [Requests -> Shown] /\ answer' = [answer EXCEPT ![r] = shown]
      /\ pc' = [pc EXCEPT ![r] = "done"]
  BY DEF Answer, TypeOK
<1> HIDE DEF shown, Shown
<1>3. answer' \in [Requests -> Shown] /\ answer'[r] = shown
      /\ \A q \in Requests \ {r} : answer'[q] = answer[q]
  BY <1>1, <1>2
<1> QED
  BY <1>1, <1>2, <1>3 DEF Shown

LEMMA Neo4jReturnedInv ==
  ASSUME IInv, NEW r \in Requests, Neo4jReturned(r)
  PROVE  IInv'
<1>1. /\ TypeOK /\ pc[r] = "neo4j" /\ holds[r] \in Objects /\ incident[r] \in Ids
      /\ stored' = stored \union {<<"neo4j", incident[r]>>}
      /\ idOf' = [idOf EXCEPT ![holds[r]] = incident[r]]
      /\ live' = live /\ want' = want /\ holds' = holds /\ found' = found
      /\ incident' = incident /\ actionsOf' = actionsOf
  BY DEF Neo4jReturned, Store, given, IInv, Underway
<1>2. /\ idOf' \in [Objects -> Ids \union {None}]
      /\ actionsOf' \in [Objects -> Requests \union {None}]
      /\ idOf'[holds[r]] = incident[r]
      /\ \A o \in Objects \ {holds[r]} : idOf'[o] = idOf[o]
  BY <1>1 DEF TypeOK
<1>3. \/ want[r].execute /\ pc' = [pc EXCEPT ![r] = "actions"] /\ answer' = answer
      \/ Answer(r)
  BY DEF Neo4jReturned, ExecuteOrAnswer
<1>4. /\ pc' \in [Requests -> {"idle", "agent", "chroma", "neo4j", "actions", "done"}]
      /\ pc'[r] \in {"actions", "done"} /\ (pc'[r] = "actions" => want[r].execute)
      /\ \A q \in Requests \ {r} : pc'[q] = pc[q] /\ answer'[q] = answer[q]
      /\ answer' \in [Requests -> [id : Ids \union {None}, actions : Requests \union {None}]]
      /\ \/ answer'[r] = answer[r]
         \/ answer'[r].id = incident[r] /\ answer'[r].actions = actionsOf[holds[r]]
  <2>1. CASE want[r].execute /\ pc' = [pc EXCEPT ![r] = "actions"] /\ answer' = answer
    BY <2>1, <1>1 DEF TypeOK
  <2>2. CASE Answer(r)
    BY <2>2, <1>1, <1>2, AnswerShows DEF TypeOK
  <2> QED
    BY <1>3, <2>1, <2>2
<1>5. TypeOK'
  BY <1>1, <1>2, <1>4 DEF TypeOK, Stores
<1>6. Underway'
  BY <1>1, <1>4 DEF IInv, Underway
<1>7. \A s \in Stores : <<s, incident[r]>> \in stored'
  BY <1>1 DEF IInv, Backed, Stores
<1>8. Backed'
  <2>1. ASSUME NEW o \in Objects, idOf'[o] # None, NEW s \in Stores
        PROVE  <<s, idOf'[o]>> \in stored'
    BY <2>1, <1>1, <1>2, <1>7 DEF IInv, Backed
  <2>2. ASSUME NEW q \in Requests, pc'[q] = "neo4j"
        PROVE  <<"chroma", incident'[q]>> \in stored'
    BY <2>2, <1>1, <1>4 DEF IInv, Backed
  <2> QED
    BY <2>1, <2>2 DEF Backed
<1>9. AnsweredIdsAreStored'
  <2> SUFFICES ASSUME NEW q \in Requests, answer'[q].id # None, NEW s \in Stores
               PROVE  <<s, answer'[q].id>> \in stored'
    BY DEF AnsweredIdsAreStored
  <2>1. CASE answer'[q] = answer[q]
    BY <2>1, <1>1 DEF IInv, AnsweredIdsAreStored
  <2>2. CASE answer'[q] # answer[q]
    BY <2>2, <1>4, <1>7
  <2> QED
    BY <2>1, <2>2
<1>10. live => /\ holds[r] = r /\ incident[r] = <<"ai", r>> /\ want[r].store
               /\ \A q \in Requests : OwnDict(q)
  BY <1>1 DEF IInv, DictsAreOwn, OwnDict
<1>11. MockIsClean'
  BY <1>1, <1>2, <1>10 DEF IInv, MockIsClean, Objects
<1>12. DictsAreOwn'
  <2> SUFFICES ASSUME live, NEW q \in Requests
               PROVE  OwnDict(q)'
    BY <1>1 DEF DictsAreOwn
  <2>1. CASE q = r
    BY <2>1, <1>1, <1>2, <1>4, <1>10 DEF OwnDict
  <2>2. CASE q # r
    <3>1. idOf'[q] = idOf[q]
      BY <2>2, <1>2, <1>10 DEF Objects
    <3> QED
      BY <2>2, <3>1, <1>1, <1>4, <1>10 DEF OwnDict
  <2> QED
    BY <2>1, <2>2
<1>13. AnswersAreOwn'
  <2> SUFFICES ASSUME live, NEW q \in Requests
               PROVE  /\ answer'[q].id # None =>
                           /\ answer'[q].id = incident[q] /\ answer'[q].id[2] = q
                           /\ want[q].store
                      /\ answer'[q].actions # None =>
                           answer'[q].actions = q /\ want[q].execute
    BY <1>1 DEF AnswersAreOwn
  <2>1. CASE answer'[q] = answer[q]
    BY <2>1 DEF IInv, AnswersAreOwn
  <2>2. CASE answer'[q] # answer[q]
    BY <2>2, <1>4, <1>10 DEF OwnDict
  <2> QED
    BY <2>1, <2>2
<1> QED
  BY <1>5, <1>6, <1>8, <1>9, <1>11, <1>12, <1>13 DEF IInv

LEMMA ActionsReturnedInv ==
  ASSUME IInv, NEW r \in Requests, ActionsReturned(r)
  PROVE  IInv'
<1>1. /\ TypeOK /\ pc[r] = "actions" /\ holds[r] \in Objects /\ stored' = stored
      /\ actionsOf' = [actionsOf EXCEPT ![holds[r]] = r]
      /\ live' = live /\ want' = want /\ holds' = holds /\ found' = found
      /\ incident' = incident /\ idOf' = idOf /\ Answer(r)
  BY DEF ActionsReturned, given, IInv, Underway
<1>2. /\ idOf' \in [Objects -> Ids \union {None}]
      /\ actionsOf' \in [Objects -> Requests \union {None}]
      /\ actionsOf'[holds[r]] = r
      /\ \A o \in Objects \ {holds[r]} : actionsOf'[o] = actionsOf[o]
  BY <1>1 DEF TypeOK
<1>3. /\ pc' = [pc EXCEPT ![r] = "done"]
      /\ answer' \in [Requests -> [id : Ids \union {None}, actions : Requests \union {None}]]
      /\ answer'[r].id = idOf[holds[r]] /\ answer'[r].actions = r
      /\ \A q \in Requests \ {r} : answer'[q] = answer[q]
  BY <1>1, <1>2, AnswerShows
<1>4. pc'[r] = "done" /\ \A q \in Requests \ {r} : pc'[q] = pc[q]
  BY <1>1, <1>3 DEF TypeOK
<1>5. TypeOK'
  BY <1>1, <1>2, <1>3 DEF TypeOK
<1>6. Underway' /\ Backed'
  BY <1>1, <1>4 DEF IInv, Underway, Backed
<1>7. AnsweredIdsAreStored'
  <2> SUFFICES ASSUME NEW q \in Requests, answer'[q].id # None, NEW s \in Stores
               PROVE  <<s, answer'[q].id>> \in stored
    BY <1>1 DEF AnsweredIdsAreStored
  <2> QED
    BY <1>1, <1>3 DEF IInv, AnsweredIdsAreStored, Backed
<1>8. live => /\ holds[r] = r /\ want[r].execute
              /\ \A q \in Requests : OwnDict(q)
  BY <1>1 DEF IInv, DictsAreOwn, OwnDict
<1>9. MockIsClean'
  BY <1>1, <1>2, <1>8 DEF IInv, MockIsClean, Objects
<1>10. DictsAreOwn'
  <2> SUFFICES ASSUME live, NEW q \in Requests
               PROVE  OwnDict(q)'
    BY <1>1 DEF DictsAreOwn
  <2>1. CASE q = r
    BY <2>1, <1>1, <1>2, <1>4, <1>8 DEF OwnDict
  <2>2. CASE q # r
    <3>1. actionsOf'[q] = actionsOf[q]
      BY <2>2, <1>2, <1>8 DEF Objects
    <3> QED
      BY <2>2, <3>1, <1>1, <1>3, <1>4, <1>8 DEF OwnDict
  <2> QED
    BY <2>1, <2>2
<1>11. AnswersAreOwn'
  <2> SUFFICES ASSUME live, NEW q \in Requests
               PROVE  /\ answer'[q].id # None =>
                           /\ answer'[q].id = incident[q] /\ answer'[q].id[2] = q
                           /\ want[q].store
                      /\ answer'[q].actions # None =>
                           answer'[q].actions = q /\ want[q].execute
    BY <1>1 DEF AnswersAreOwn
  <2>1. CASE q # r
    BY <2>1, <1>3 DEF IInv, AnswersAreOwn
  <2>2. CASE q = r
    BY <2>2, <1>3, <1>8 DEF OwnDict
  <2> QED
    BY <2>1, <2>2
<1> QED
  BY <1>5, <1>6, <1>7, <1>9, <1>10, <1>11 DEF IInv

-----------------------------------------------------------------------------
LEMMA Inductive == IInv /\ [Next]_vars => IInv'
<1> SUFFICES ASSUME IInv, [Next]_vars PROVE IInv'
  OBVIOUS
<1>1. TypeOK /\ Mock \in Objects /\ Requests \subseteq Objects
  BY DEF IInv, Objects
<1>2. ASSUME NEW r \in Requests, Handling(r)
      PROVE  IInv'
  <2>1. CASE AnalyzeMock(r)
    BY <2>1, <1>1, GotResultInv DEF AnalyzeMock, dicts, TypeOK
  <2>2. CASE AnalyzeLive(r)
    <3> USE <2>2 DEF AnalyzeLive, given, dicts
    <3>1. TypeOK' /\ Underway' /\ Backed' /\ AnsweredIdsAreStored'
      BY DEF IInv, TypeOK, Underway, Backed, AnsweredIdsAreStored
    <3>2. MockIsClean' /\ DictsAreOwn' /\ AnswersAreOwn'
      BY DEF IInv, TypeOK, MockIsClean, DictsAreOwn, OwnDict, AnswersAreOwn
    <3> QED
      BY <3>1, <3>2 DEF IInv
  <2>3. ASSUME NEW hasCause \in BOOLEAN, NEW hasFix \in BOOLEAN,
               RunEnds(r, hasCause, hasFix)
        PROVE  IInv'
    <3> DEFINE byRun == IF hasCause /\ hasFix THEN Stores \X {<<"aeon", r>>} ELSE {}
    <3>1. byRun \in SUBSET (Stores \X Ids)
      BY DEF Ids
    <3>2. pc[r] = "agent" /\ idOf' = idOf /\ actionsOf' = actionsOf
          /\ GotResult(r, r, hasCause, byRun)
      BY <2>3 DEF RunEnds, dicts
    <3> HIDE DEF byRun
    <3> QED
      BY <1>1, <3>1, <3>2, GotResultInv DEF TypeOK
  <2>4. CASE RunRaises(r)
    <3>1. pc[r] = "agent" /\ GotResult(r, r, TRUE, {})
          /\ idOf' = [idOf EXCEPT ![r] = idOf[Mock]]
          /\ actionsOf' = [actionsOf EXCEPT ![r] = actionsOf[Mock]]
      BY <2>4 DEF RunRaises
    <3>2. /\ idOf' \in [Objects -> Ids \union {None}]
          /\ actionsOf' \in [Objects -> Requests \union {None}]
          /\ \A x \in Objects \ {r} : idOf'[x] = idOf[x] /\ actionsOf'[x] = actionsOf[x]
          /\ idOf'[r] = idOf[Mock] /\ actionsOf'[r] = actionsOf[Mock]
      BY <1>1, <3>1 DEF TypeOK
    <3> QED
      BY <1>1, <3>1, <3>2, GotResultInv
  <2>5. CASE ChromaReturned(r)
    BY <2>5, ChromaReturnedInv
  <2>6. CASE Neo4jReturned(r)
    BY <2>6, Neo4jReturnedInv
  <2>7. CASE ActionsReturned(r)
    BY <2>7, ActionsReturnedInv
  <2> QED
    BY <1>2, <2>1, <2>2, <2>3, <2>4, <2>5, <2>6, <2>7 DEF Handling
<1>3. CASE UNCHANGED vars
  BY <1>3 DEF vars, given, dicts, IInv, TypeOK, Underway, Backed, AnsweredIdsAreStored,
     MockIsClean, DictsAreOwn, OwnDict, AnswersAreOwn
<1> QED
  BY <1>2, <1>3 DEF Next

\* The inductive invariant holds of every behaviour.
THEOREM Invariance == Spec => []IInv
  BY Initially, Inductive, PTL DEF Spec

\* The requests, the dicts and the answers keep their types.
THEOREM TypeCorrect == Spec => []TypeOK
<1>1. IInv => TypeOK
  BY DEF IInv
<1> QED
  BY <1>1, Invariance, PTL

\* However many requests run at once, with a provider each is answered with
\* its own incident and its own actions.
THEOREM NoCrossTalk == Spec => []AnswersAreOwn
<1>1. IInv => AnswersAreOwn
  BY DEF IInv
<1> QED
  BY <1>1, Invariance, PTL

\* However many requests share _MOCK_RESULT, no answer names an incident that
\* the stores have not been called with.
THEOREM IdsComeAfterStores == Spec => []AnsweredIdsAreStored
<1>1. IInv => AnsweredIdsAreStored
  BY DEF IInv
<1> QED
  BY <1>1, Invariance, PTL

-----------------------------------------------------------------------------
\* With a provider, a request past the stores has been through both.
PastTheStores(r) ==
  pc[r] \in {"actions", "done"} /\ want[r].store /\ found[r] =>
    Stores \X {<<"ai", r>>} \subseteq stored

LiveStored == live => \A r \in Requests : PastTheStores(r)

\* The run of a live request gives it a dict without an id, so that nothing but
\* the request's own wish or a missing root cause takes it past the stores.
LEMMA GotResultStored ==
  ASSUME IInv, live, NEW r \in Requests, NEW h \in BOOLEAN, NEW b,
         idOf'[r] = None, GotResult(r, r, h, b)
  PROVE  /\ PastTheStores(r)'
         /\ live' = live /\ want' = want /\ stored \subseteq stored'
         /\ \A q \in Requests \ {r} : pc'[q] = pc[q] /\ found'[q] = found[q]
<1>1. /\ TypeOK /\ found' = [found EXCEPT ![r] = h] /\ stored' = stored \union b
      /\ live' = live /\ want' = want
  BY DEF GotResult, given, IInv
<1>2. \/ pc' = [pc EXCEPT ![r] = "chroma"]
      \/ pc' = [pc EXCEPT ![r] = "actions"]
      \/ pc' = [pc EXCEPT ![r] = "done"]
  BY DEF GotResult, ExecuteOrAnswer, Answer
<1>3. want[r].store /\ h => pc' = [pc EXCEPT ![r] = "chroma"]
  BY DEF GotResult
<1> QED
  BY <1>1, <1>2, <1>3 DEF PastTheStores, TypeOK

\* Each of the other steps leaves the request it does not serve where it was.
LEMMA StoredStep ==
  ASSUME IInv, LiveStored, [Next]_vars
  PROVE  LiveStored'
<1>1. TypeOK /\ Mock \in Objects /\ Requests \subseteq Objects
  BY DEF IInv, Objects
<1>2. ASSUME NEW r \in Requests, live', PastTheStores(r)',
             live' = live /\ want' = want, stored \subseteq stored',
             \A q \in Requests \ {r} : pc'[q] = pc[q] /\ found'[q] = found[q]
      PROVE  LiveStored'
  BY <1>2 DEF LiveStored, PastTheStores
<1>3. ASSUME NEW r \in Requests, Handling(r)
      PROVE  LiveStored'
  <2>1. CASE ~live
    BY <1>3, <2>1 DEF Handling, AnalyzeMock, AnalyzeLive, RunEnds, RunRaises,
       ChromaReturned, Neo4jReturned, ActionsReturned, GotResult, given, LiveStored
  <2> SUFFICES ASSUME live PROVE LiveStored'
    BY <2>1
  <2>2. /\ MockIsClean /\ OwnDict(r) /\ PastTheStores(r)
        /\ idOf[Mock] = None
    BY DEF IInv, MockIsClean, DictsAreOwn, LiveStored
  <2>3. CASE AnalyzeLive(r)
    BY <1>1, <1>2, <2>3 DEF AnalyzeLive, given, PastTheStores, TypeOK
  <2>4. ASSUME NEW hasCause \in BOOLEAN, NEW hasFix \in BOOLEAN,
               RunEnds(r, hasCause, hasFix)
        PROVE  LiveStored'
    <3> DEFINE byRun == IF hasCause /\ hasFix THEN Stores \X {<<"aeon", r>>} ELSE {}
    <3>1. /\ pc[r] = "agent" /\ idOf' = idOf
          /\ GotResult(r, r, hasCause, byRun)
      BY <2>4 DEF RunEnds, dicts
    <3>2. idOf'[r] = None
      BY <2>2, <3>1 DEF OwnDict
    <3> HIDE DEF byRun
    <3>3. /\ PastTheStores(r)' /\ live' = live /\ want' = want /\ stored \subseteq stored'
          /\ \A q \in Requests \ {r} : pc'[q] = pc[q] /\ found'[q] = found[q]
      BY <3>1, <3>2, GotResultStored DEF PastTheStores
    <3> QED
      BY <1>2, <3>3
  <2>5. CASE RunRaises(r)
    <3>1. /\ GotResult(r, r, TRUE, {})
          /\ idOf' = [idOf EXCEPT ![r] = idOf[Mock]]
          /\ actionsOf' = [actionsOf EXCEPT ![r] = actionsOf[Mock]]
      BY <2>5 DEF RunRaises
    <3>2. /\ idOf' \in [Objects -> Ids \union {None}]
          /\ actionsOf' \in [Objects -> Requests \union {None}]
          /\ idOf'[r] = None
      BY <1>1, <2>2, <3>1 DEF TypeOK
    <3>3. /\ PastTheStores(r)' /\ live' = live /\ want' = want /\ stored \subseteq stored'
          /\ \A q \in Requests \ {r} : pc'[q] = pc[q] /\ found'[q] = found[q]
      BY <3>1, <3>2, GotResultStored DEF PastTheStores
    <3> QED
      BY <1>2, <3>3
  <2>6. CASE ChromaReturned(r)
    BY <1>1, <1>2, <2>6 DEF ChromaReturned, Store, given, PastTheStores, TypeOK
  <2>7. CASE Neo4jReturned(r)
    <3>1. /\ pc[r] = "neo4j" /\ live' = live /\ want' = want /\ found' = found
          /\ stored' = stored \union {<<"neo4j", incident[r]>>}
          /\ \A q \in Requests \ {r} : pc'[q] = pc[q]
      BY <1>1, <2>7 DEF Neo4jReturned, Store, given, ExecuteOrAnswer, Answer, TypeOK
    <3>2. incident[r] = <<"ai", r>> /\ <<"chroma", incident[r]>> \in stored
      BY <2>2, <3>1 DEF OwnDict, IInv, Backed
    <3>3. Stores \X {<<"ai", r>>} \subseteq stored'
      BY <3>1, <3>2 DEF Stores
    <3> QED
      BY <1>2, <3>1, <3>3 DEF PastTheStores
  <2>8. CASE ActionsReturned(r)
    <3>1. /\ pc[r] = "actions" /\ live' = live /\ want' = want /\ found' = found /\ stored' = stored
          /\ \A q \in Requests \ {r} : pc'[q] = pc[q]
      BY <1>1, <2>8 DEF ActionsReturned, given, Answer, TypeOK
    <3> QED
      BY <1>2, <2>2, <3>1 DEF PastTheStores
  <2>9. ~AnalyzeMock(r)
    BY DEF AnalyzeMock
  <2> QED
    BY <1>3, <2>3, <2>4, <2>5, <2>6, <2>7, <2>8, <2>9 DEF Handling
<1>4. CASE UNCHANGED vars
  BY <1>4 DEF vars, given, LiveStored, PastTheStores
<1> QED
  BY <1>3, <1>4 DEF Next

\* With a provider the README's promise is kept: each analysis asked to be
\* stored, and with a root cause, is answered after both stores were called
\* with it.  Only the requests that share _MOCK_RESULT break it.
THEOREM LiveAnalysesAreStored == Spec => [](live => EveryAnalysisIsStored)
<1>1. Init => LiveStored
  BY DEF Init, LiveStored, PastTheStores
<1>2. LiveStored => (live => EveryAnalysisIsStored)
  BY DEF LiveStored, PastTheStores, EveryAnalysisIsStored
<1> QED
  BY <1>1, <1>2, Invariance, StoredStep, PTL DEF Spec
=============================================================================
