--------------------------- MODULE RecordedMemory ---------------------------
(***************************************************************************)
(* What the incident memory promises an analysis that recalls it, without  *)
(* documents, nodes or transactions: an incident is recorded at once and   *)
(* for good, and what is told of an error type is read off the incidents   *)
(* recorded at that moment, each there once.                               *)
(***************************************************************************)
EXTENDS Naturals, FiniteSets

CONSTANTS
  Incidents,
  Analyses,
  TypeOf,       \* the error type and the fix of each incident
  FixOf,
  Unclassified, \* the error type nothing is asked about
  MaxFixes,     \* fixes and siblings told of an error type
  MaxSiblings

VARIABLES
  recorded,     \* the incidents in the memory
  matches,      \* the incidents each analysis has recalled
  proven,       \* error types and fixes it has been told are proven
  siblings      \* error types and incidents it has been told had them

vars == <<recorded, matches, proven, siblings>>

Init ==
  /\ recorded = {}
  /\ matches = [a \in Analyses |-> {}]
  /\ proven = [a \in Analyses |-> {}]
  /\ siblings = [a \in Analyses |-> {}]

Record(i) ==
  /\ recorded' = recorded \union {i}
  /\ UNCHANGED <<matches, proven, siblings>>

\* An analysis is given its matches before it is told anything of them.
Ground(a) ==
  /\ proven[a] = {} /\ siblings[a] = {}
  /\ \E ms \in SUBSET Incidents : matches' = [matches EXCEPT ![a] = ms]
  /\ UNCHANGED <<recorded, proven, siblings>>

With(t) == {i \in recorded : TypeOf[i] = t}
Fixes(t) == {FixOf[i] : i \in With(t)}

AskedAbout(a) == {TypeOf[m] : m \in matches[a]} \ {Unclassified}

\* As many fixes as there are, up to the limit.
TellFixes(a, t) ==
  /\ t \in AskedAbout(a)
  /\ \E fs \in SUBSET Fixes(t) :
       /\ Cardinality(fs) = IF MaxFixes < Cardinality(Fixes(t))
                            THEN MaxFixes ELSE Cardinality(Fixes(t))
       /\ proven' = [proven EXCEPT ![a] = @ \union ({t} \X fs)]
  /\ UNCHANGED <<recorded, matches, siblings>>

TellSiblings(a, t) ==
  /\ t \in AskedAbout(a)
  /\ \E is \in SUBSET (With(t) \ matches[a]) :
       /\ Cardinality(is) <= MaxSiblings
       /\ siblings' = [siblings EXCEPT ![a] = @ \union ({t} \X is)]
  /\ UNCHANGED <<recorded, matches, proven>>

Next ==
  \/ \E i \in Incidents : Record(i)
  \/ \E a \in Analyses :
       \/ Ground(a)
       \/ \E t \in AskedAbout(a) : TellFixes(a, t) \/ TellSiblings(a, t)

Spec == Init /\ [][Next]_vars
=============================================================================
