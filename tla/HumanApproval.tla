--------------------------- MODULE HumanApproval ---------------------------
(***************************************************************************)
(* What Aeon promises about code changes, without saying how: a proposal   *)
(* is decided once, by a human; only an approved one reaches GitHub, at    *)
(* most once; and the rebuild that goes with it follows the pull request.  *)
(* A restart of the server may make it forget an undecided or declined     *)
(* proposal, never turn one into an approval.                              *)
(***************************************************************************)
CONSTANT Actions        \* identities of proposals

VARIABLES decision,     \* what has been decided about each proposal
          opened,       \* proposals whose pull request exists on GitHub
          rebuilt       \* proposals whose rebuild was accepted by Jenkins

vars == <<decision, opened, rebuilt>>

Init ==
  /\ decision = [a \in Actions |-> "none"]
  /\ opened = {}
  /\ rebuilt = {}

Decide(a, from, to) ==
  /\ decision[a] = from
  /\ decision' = [decision EXCEPT ![a] = to]
  /\ UNCHANGED <<opened, rebuilt>>

Propose(a) == Decide(a, "none", "proposed")
Approve(a) == Decide(a, "proposed", "approved")
Decline(a) == Decide(a, "proposed", "declined")

Forget ==
  /\ decision' = [a \in Actions |->
                    IF decision[a] = "approved" THEN "approved" ELSE "none"]
  /\ UNCHANGED <<opened, rebuilt>>

Open(a) ==
  /\ decision[a] = "approved"
  /\ a \notin opened
  /\ opened' = opened \union {a}
  /\ UNCHANGED <<decision, rebuilt>>

Rebuild(a) ==
  /\ a \in opened \ rebuilt
  /\ rebuilt' = rebuilt \union {a}
  /\ UNCHANGED <<decision, opened>>

Next ==
  \/ Forget
  \/ \E a \in Actions :
       Propose(a) \/ Approve(a) \/ Decline(a) \/ Open(a) \/ Rebuild(a)

Spec == Init /\ [][Next]_vars
=============================================================================
