------------------------ MODULE ActionExecutorProofs ------------------------
(***************************************************************************)
(* Theorems about ActionExecutor, for any sets of requests, approvals,     *)
(* rebuilds and bodies: its safety properties, and that it implements      *)
(* HumanApproval.                                                          *)
(***************************************************************************)
EXTENDS ActionExecutor, TLAPS

(***************************************************************************)
(* Type correctness, one lemma per group of actions.                       *)
(***************************************************************************)
LEMMA TypeInit == Init => TypeOK
BY DEF Init, TypeOK, BodyType, NoBody, NoReply, Replies, Statuses

LEMMA TypeExecute ==
  ASSUME TypeOK, NEW r \in Requests, NEW b \in Bodies, Execute(r, b)
  PROVE  TypeOK'
BY BodiesAssumption DEF TypeOK, Execute, NotifyOrPropose, ProposePR, Send,
   SendNothing, IssueOf, NotifyOf, Messages, Statuses, execVars, apprVars

LEMMA TypeExecuteSteps ==
  ASSUME TypeOK, NEW r \in Requests, ExecuteSteps(r)
  PROVE  TypeOK'
BY DEF TypeOK, ExecuteSteps, IssueReturned, NotifyReturned, NotifyOrPropose,
   ProposePR, Send, SendNothing, NotifyOf, Messages, Statuses, execVars, apprVars

LEMMA TypeApprove ==
  ASSUME TypeOK, NEW c \in Approvals, NEW a \in Requests,
         ApproveRefused(c, a) \/ ApproveClaims(c, a)
  PROVE  TypeOK'
<1>1. CASE ApproveRefused(c, a)
  <2>1. status[a] \in Statuses
    BY DEF TypeOK
  <2>2. reply' \in [Approvals -> Replies]
    BY <1>1, <2>1 DEF TypeOK, ApproveRefused, Answer, Replies
  <2> QED
    BY <1>1, <2>2 DEF TypeOK, ApproveRefused, Answer, execVars, apprVars
<1>2. CASE ApproveClaims(c, a)
  BY <1>2 DEF TypeOK, ApproveClaims, Claim, Send, PullRequestOf, Messages,
     Statuses, execVars, apprVars
<1> QED
  BY <1>1, <1>2

\* What a suspended approval knows: it has claimed an action.
AwaitingHasTarget ==
  \A c \in Approvals : apprPc[c] \in {"pr", "build"} => target[c] # None

LEMMA TypeApproveSteps ==
  ASSUME TypeOK, AwaitingHasTarget, NEW c \in Approvals, ApproveSteps(c)
  PROVE  TypeOK'
<1>1. CASE PullRequestCreated(c)
  <2>1. status' \in [Requests -> Statuses]
    BY <1>1 DEF TypeOK, AwaitingHasTarget, PullRequestCreated, Statuses
  <2>2. reply' \in [Approvals -> Replies]
    BY <1>1 DEF TypeOK, PullRequestCreated, Answer, Statuses, Replies
  <2>3. inTransit' \subseteq Messages
    BY <1>1 DEF TypeOK, PullRequestCreated, Send, SendNothing, BuildOf, Messages
  <2> QED
    BY <1>1, <2>1, <2>2, <2>3
       DEF TypeOK, PullRequestCreated, Answer, execVars, apprVars
<1>2. CASE PullRequestFailed(c)
  BY <1>2 DEF TypeOK, AwaitingHasTarget, PullRequestFailed, FailWith, Answer,
     Statuses, Replies, execVars, apprVars
<1>3. CASE \E ok \in BOOLEAN : BuildReturned(c, ok)
  BY <1>3 DEF TypeOK, AwaitingHasTarget, BuildReturned, Answer, Replies, execVars, apprVars
<1> QED
  BY <1>1, <1>2, <1>3 DEF ApproveSteps

LEMMA TypeRest ==
  ASSUME TypeOK,
         \/ \E a \in Requests : Reject(a)
         \/ \E x \in Rebuilds : TriggerRebuild(x) \/ RebuildSteps(x)
         \/ ServiceSteps
         \/ Restart
         \/ UNCHANGED vars
  PROVE  TypeOK'
<1>1. CASE \E a \in Requests : Reject(a)
  BY <1>1 DEF TypeOK, Reject, Statuses, execVars, apprVars
<1>2. CASE \E x \in Rebuilds : TriggerRebuild(x) \/ RebuildSteps(x)
  BY <1>2 DEF TypeOK, TriggerRebuild, RebuildSteps, RebuildReturned, Send, BuildOf,
     Messages, execVars, apprVars
<1>3. CASE ServiceSteps
  BY <1>3 DEF TypeOK, ServiceSteps, Accept, Refuse, execVars, apprVars
<1>4. CASE Restart
  BY <1>4 DEF TypeOK, Restart, Interrupted, Statuses
<1>5. CASE UNCHANGED vars
  BY <1>5 DEF TypeOK, vars, execVars, apprVars
<1> QED
  BY <1>1, <1>2, <1>3, <1>4, <1>5

LEMMA TypeNext ==
  ASSUME TypeOK, AwaitingHasTarget, [Next]_vars
  PROVE  TypeOK'
BY TypeExecute, TypeExecuteSteps, TypeApprove, TypeApproveSteps, TypeRest
   DEF Next, UserSteps

(***************************************************************************)
(* The inductive invariant.  The safety properties say nothing of where an *)
(* entry of PENDING_ACTIONS comes from; the argument does: an entry is     *)
(* made by the last step of a warranted request, so once its id has been   *)
(* claimed no step can make it pending again, and the claim is unique.     *)
(***************************************************************************)
Warranted(a) ==
  /\ execPc[a] = "done"
  /\ body[a].repo
  /\ body[a].confidence >= PR_CONFIDENCE_THRESHOLD

EntriesAreWarranted == \A a \in Requests : status[a] # "none" => Warranted(a)

ClaimsAreFinal ==
  \A c \in Approvals :
    target[c] # None =>
      /\ Warranted(target[c])
      /\ status[target[c]] # "pending_approval"
      /\ apprPc[c] # "idle"

ClaimsAreUnique ==
  \A c, d \in Approvals : target[c] # None /\ target[c] = target[d] => c = d

SentByClaims ==
  \A c \in Approvals :
    /\ InFlightOrDone(PullRequestOf(c)) => target[c] # None
    /\ apprPc[c] = "build" => PullRequestOf(c) \in accepted

SettledByClaims ==
  \A a \in Requests :
    status[a] \in {"approved", "completed", "failed"} =>
      \E c \in Approvals : target[c] = a

IInv ==
  /\ TypeOK
  /\ AwaitingHasTarget
  /\ EntriesAreWarranted
  /\ ClaimsAreFinal
  /\ ClaimsAreUnique
  /\ SentByClaims
  /\ SettledByClaims
  /\ RebuildFollowsPullRequest
  /\ ReportsAreTrue
  /\ ApprovedHasOwner

USE DEF AwaitingHasTarget, EntriesAreWarranted, ClaimsAreFinal, ClaimsAreUnique,
        SentByClaims, SettledByClaims, RebuildFollowsPullRequest, ReportsAreTrue, ApprovedHasOwner,
        Warranted, InFlightOrDone
USE NoneAssumption, ApprovalsAssumption

LEMMA InvInit == Init => IInv
BY TypeInit DEF Init, IInv, NoReply

LEMMA InvExecute ==
  ASSUME IInv, NEW r \in Requests, NEW b \in Bodies, Execute(r, b)
  PROVE  IInv'
<1> USE DEF IInv
<1>1. TypeOK'
  BY TypeExecute
<1>2. (EntriesAreWarranted /\ ClaimsAreFinal)'
  BY BodiesAssumption DEF TypeOK, Execute, NotifyOrPropose, ProposePR, apprVars
<1>3. (AwaitingHasTarget /\ ClaimsAreUnique)'
  BY DEF Execute, apprVars
<1>4. (SentByClaims /\ RebuildFollowsPullRequest)'
  BY DEF TypeOK, Execute, NotifyOrPropose, Send, SendNothing, IssueOf, NotifyOf,
     PullRequestOf, BuildOf, apprVars
<1>5. (ReportsAreTrue /\ ApprovedHasOwner /\ SettledByClaims)'
  BY DEF TypeOK, Execute, NotifyOrPropose, ProposePR, apprVars
<1> QED
  BY <1>1, <1>2, <1>3, <1>4, <1>5

LEMMA InvExecuteSteps ==
  ASSUME IInv, NEW r \in Requests, ExecuteSteps(r)
  PROVE  IInv'
<1> USE DEF IInv, ExecuteSteps, IssueReturned, NotifyReturned
<1>1. TypeOK'
  BY TypeExecuteSteps
<1>2. (EntriesAreWarranted /\ ClaimsAreFinal)'
  BY DEF TypeOK, NotifyOrPropose, ProposePR, apprVars
<1>3. (AwaitingHasTarget /\ ClaimsAreUnique)'
  BY DEF apprVars
<1>4. (SentByClaims /\ RebuildFollowsPullRequest)'
  BY DEF TypeOK, NotifyOrPropose, Send, SendNothing, NotifyOf, PullRequestOf,
     BuildOf, apprVars
<1>5. (ReportsAreTrue /\ ApprovedHasOwner /\ SettledByClaims)'
  BY DEF TypeOK, NotifyOrPropose, ProposePR, MayReturn, NotifyMayReturn, apprVars
<1> QED
  BY <1>1, <1>2, <1>3, <1>4, <1>5

LEMMA InvApproveRefused ==
  ASSUME IInv, NEW c \in Approvals, NEW a \in Requests, ApproveRefused(c, a)
  PROVE  IInv'
<1> USE DEF IInv, ApproveRefused
<1>1. TypeOK'
  BY TypeApprove
<1>2. (EntriesAreWarranted /\ ClaimsAreFinal /\ ClaimsAreUnique)'
  BY DEF TypeOK, Answer, execVars
<1>3. (AwaitingHasTarget /\ SentByClaims /\ RebuildFollowsPullRequest)'
  BY DEF TypeOK, Answer, execVars
<1>4. (ReportsAreTrue /\ ApprovedHasOwner /\ SettledByClaims)'
  BY DEF TypeOK, Answer, execVars
<1> QED
  BY <1>1, <1>2, <1>3, <1>4

LEMMA InvApproveClaims ==
  ASSUME IInv, NEW c \in Approvals, NEW a \in Requests, ApproveClaims(c, a)
  PROVE  IInv'
<1> USE DEF IInv, ApproveClaims, Claim
<1>1. TypeOK'
  BY TypeApprove
<1>2. (EntriesAreWarranted /\ ClaimsAreFinal /\ ClaimsAreUnique)'
  BY DEF TypeOK, execVars
<1>3. (AwaitingHasTarget /\ SentByClaims /\ RebuildFollowsPullRequest)'
  BY DEF TypeOK, Send, PullRequestOf, BuildOf, execVars
<1>4. (ReportsAreTrue /\ ApprovedHasOwner /\ SettledByClaims)'
  BY DEF TypeOK, execVars
<1> QED
  BY <1>1, <1>2, <1>3, <1>4

LEMMA InvPullRequestCreated ==
  ASSUME IInv, NEW c \in Approvals, PullRequestCreated(c)
  PROVE  IInv'
<1> USE DEF IInv, PullRequestCreated
<1>1. TypeOK'
  BY TypeApproveSteps DEF ApproveSteps
<1>2. target[c] \in Requests
  BY DEF TypeOK
<1>3. (EntriesAreWarranted /\ ClaimsAreFinal /\ ClaimsAreUnique)'
  BY <1>2 DEF TypeOK, Answer, execVars
<1>4. (AwaitingHasTarget /\ SentByClaims /\ RebuildFollowsPullRequest)'
  BY <1>2 DEF TypeOK, Answer, Send, SendNothing, MayReturn, PullRequestOf, BuildOf,
     execVars
<1>5. (ReportsAreTrue /\ ApprovedHasOwner /\ SettledByClaims)'
  BY <1>2 DEF TypeOK, Answer, MayReturn, NoReply, execVars
<1> QED
  BY <1>1, <1>3, <1>4, <1>5

LEMMA InvPullRequestFailed ==
  ASSUME IInv, NEW c \in Approvals, PullRequestFailed(c)
  PROVE  IInv'
<1> USE DEF IInv, PullRequestFailed, FailWith
<1>1. TypeOK'
  BY TypeApproveSteps DEF ApproveSteps
<1>2. target[c] \in Requests
  BY DEF TypeOK
<1>3. (EntriesAreWarranted /\ ClaimsAreFinal /\ ClaimsAreUnique)'
  BY <1>2 DEF TypeOK, Answer, execVars
<1>4. (AwaitingHasTarget /\ SentByClaims /\ RebuildFollowsPullRequest)'
  BY DEF TypeOK, Answer, execVars
<1>5. (ReportsAreTrue /\ ApprovedHasOwner /\ SettledByClaims)'
  BY <1>2 DEF TypeOK, Answer, execVars
<1> QED
  BY <1>1, <1>3, <1>4, <1>5

LEMMA InvBuildReturned ==
  ASSUME IInv, NEW c \in Approvals, NEW ok \in BOOLEAN, BuildReturned(c, ok)
  PROVE  IInv'
<1> USE DEF IInv, BuildReturned
<1>1. TypeOK'
  BY TypeApproveSteps DEF ApproveSteps
<1>2. (EntriesAreWarranted /\ ClaimsAreFinal /\ ClaimsAreUnique)'
  BY DEF TypeOK, Answer, execVars
<1>3. (AwaitingHasTarget /\ SentByClaims /\ RebuildFollowsPullRequest)'
  BY DEF TypeOK, Answer, execVars
<1>4. (ReportsAreTrue /\ ApprovedHasOwner /\ SettledByClaims)'
  BY DEF TypeOK, Answer, MayReturn, execVars
<1> QED
  BY <1>1, <1>2, <1>3, <1>4

LEMMA InvReject ==
  ASSUME IInv, NEW a \in Requests, Reject(a)
  PROVE  IInv'
<1> USE DEF IInv, Reject
<1>1. TypeOK'
  BY TypeRest
<1>2. (EntriesAreWarranted /\ ClaimsAreFinal /\ ClaimsAreUnique)'
  BY DEF TypeOK, execVars, apprVars
<1>3. (AwaitingHasTarget /\ SentByClaims /\ RebuildFollowsPullRequest)'
  BY DEF execVars, apprVars
<1>4. (ReportsAreTrue /\ ApprovedHasOwner /\ SettledByClaims)'
  BY DEF TypeOK, execVars, apprVars
<1> QED
  BY <1>1, <1>2, <1>3, <1>4

LEMMA InvRebuild ==
  ASSUME IInv, NEW x \in Rebuilds, TriggerRebuild(x) \/ RebuildSteps(x)
  PROVE  IInv'
<1> USE DEF IInv, TriggerRebuild, RebuildSteps, RebuildReturned
<1>1. TypeOK'
  BY TypeRest
<1>2. (EntriesAreWarranted /\ ClaimsAreFinal /\ ClaimsAreUnique)'
  BY DEF execVars, apprVars
<1>3. (AwaitingHasTarget /\ SentByClaims /\ RebuildFollowsPullRequest)'
  BY DEF Send, PullRequestOf, BuildOf, execVars, apprVars
<1>4. (ReportsAreTrue /\ ApprovedHasOwner /\ SettledByClaims)'
  BY DEF MayReturn, execVars, apprVars
<1> QED
  BY <1>1, <1>2, <1>3, <1>4

LEMMA InvService ==
  ASSUME IInv, NEW m \in inTransit, Accept(m) \/ Refuse(m)
  PROVE  IInv'
<1> USE DEF IInv, Accept, Refuse
<1>1. TypeOK'
  BY TypeRest DEF ServiceSteps
<1>2. (EntriesAreWarranted /\ ClaimsAreFinal /\ ClaimsAreUnique)'
  BY DEF execVars, apprVars
<1>3. (AwaitingHasTarget /\ SentByClaims /\ RebuildFollowsPullRequest)'
  BY DEF execVars, apprVars
<1>4. (ReportsAreTrue /\ ApprovedHasOwner /\ SettledByClaims)'
  BY DEF execVars, apprVars
<1> QED
  BY <1>1, <1>2, <1>3, <1>4

LEMMA InvRestart ==
  ASSUME IInv, Restart
  PROVE  IInv'
<1> USE DEF IInv, Restart, Interrupted
<1>1. TypeOK'
  BY TypeRest
<1>2. (EntriesAreWarranted /\ ClaimsAreFinal /\ ClaimsAreUnique)'
  BY DEF TypeOK
<1>3. (AwaitingHasTarget /\ SentByClaims /\ RebuildFollowsPullRequest)'
  BY DEF TypeOK
<1>4. (ReportsAreTrue /\ ApprovedHasOwner /\ SettledByClaims)'
  BY DEF TypeOK
<1> QED
  BY <1>1, <1>2, <1>3, <1>4

LEMMA InvNext ==
  ASSUME IInv, [Next]_vars
  PROVE  IInv'
<1>1. CASE UNCHANGED vars
  BY <1>1 DEF IInv, TypeOK, vars, execVars, apprVars
<1>2. CASE Next
  BY <1>2, InvExecute, InvExecuteSteps, InvApproveRefused, InvApproveClaims,
     InvPullRequestCreated, InvPullRequestFailed, InvBuildReturned, InvReject,
     InvRebuild, InvService, InvRestart
     DEF Next, UserSteps, ServiceSteps, ApproveSteps
<1> QED
  BY <1>1, <1>2

LEMMA Invariance == Spec => []IInv
<1>1. Init => IInv
  BY InvInit
<1>2. IInv /\ [Next]_vars => IInv'
  BY InvNext
<1> QED
  BY <1>1, <1>2, PTL DEF Spec

(***************************************************************************)
(* The safety properties of the runs.                                      *)
(***************************************************************************)

\* Every variable keeps its type: PENDING_ACTIONS never holds a status the
\* routes do not know.
THEOREM TypeCorrect == Spec => []TypeOK
BY Invariance, PTL DEF IInv

\* However many approvals race, and whatever GitHub does with them, at most
\* one of them asks for the pull request of an action.
THEOREM AtMostOnePullRequest == Spec => []OnePullRequestPerAction
<1>1. IInv => OnePullRequestPerAction
  BY DEF IInv, OnePullRequestPerAction
<1> QED
  BY <1>1, Invariance, PTL

\* No pull request is asked for without a repo and the confidence demanded.
THEOREM PullRequestsAreWarranted == Spec => []PullRequestIsWarranted
<1>1. IInv => PullRequestIsWarranted
  BY DEF IInv, PullRequestIsWarranted
<1> QED
  BY <1>1, Invariance, PTL

\* Jenkins rebuilds after the pull request only.
THEOREM RebuildsAreOrdered == Spec => []RebuildFollowsPullRequest
BY Invariance, PTL DEF IInv

\* The answers and statuses that users see claim nothing that did not happen.
THEOREM EffectsAreReported == Spec => []ReportsAreTrue
BY Invariance, PTL DEF IInv

\* An approved action is always in the hands of a handler.
THEOREM ApprovedIsInHand == Spec => []ApprovedHasOwner
BY Invariance, PTL DEF IInv

(***************************************************************************)
(* Decisions are final.                                                    *)
(***************************************************************************)
LEMMA NoStepReopens ==
  ASSUME IInv, [Next]_vars, NEW a \in Requests,
         status[a] \notin {"none", "pending_approval"}
  PROVE  status'[a] # "pending_approval"
<1>1. execPc[a] = "done"
  BY DEF IInv
<1>2. CASE \E r \in Requests, b \in Bodies : Execute(r, b)
  BY <1>1, <1>2 DEF IInv, TypeOK, Execute, NotifyOrPropose, ProposePR
<1>3. CASE \E r \in Requests : ExecuteSteps(r)
  BY <1>1, <1>3 DEF IInv, TypeOK, ExecuteSteps, IssueReturned, NotifyReturned,
     NotifyOrPropose, ProposePR
<1>4. CASE \E c \in Approvals, b \in Requests : ApproveRefused(c, b) \/ ApproveClaims(c, b)
  BY <1>4 DEF IInv, TypeOK, ApproveRefused, ApproveClaims, Claim
<1>5. CASE \E c \in Approvals : ApproveSteps(c)
  <2>1. PICK c \in Approvals : ApproveSteps(c)
    BY <1>5
  <2>2. \/ UNCHANGED status
        \/ status' = [status EXCEPT ![target[c]] = "completed"]
        \/ status' = [status EXCEPT ![target[c]] = "failed"]
    BY <2>1 DEF ApproveSteps, PullRequestCreated, PullRequestFailed, FailWith,
       BuildReturned
  <2> QED
    BY <2>2 DEF IInv, TypeOK
<1>6. CASE \E b \in Requests : Reject(b)
  BY <1>6 DEF IInv, TypeOK, Reject
<1>7. CASE Restart
  BY <1>7 DEF Restart
<1>8. CASE \/ \E x \in Rebuilds : TriggerRebuild(x) \/ RebuildSteps(x)
           \/ ServiceSteps
           \/ UNCHANGED vars
  BY <1>8 DEF TriggerRebuild, RebuildSteps, RebuildReturned, ServiceSteps, Accept,
     Refuse, vars
<1> QED
  BY <1>2, <1>3, <1>4, <1>5, <1>6, <1>7, <1>8 DEF Next, UserSteps

\* No path of approve_action, and no rejection, puts a decided action back in
\* the queue of those awaiting approval.
THEOREM DecisionsAreFinal == Spec => DecidedOnce
<1>1. IInv /\ [Next]_vars =>
        [\A a \in Requests :
           status[a] \notin {"none", "pending_approval"} =>
             status'[a] # "pending_approval"]_vars
  BY NoStepReopens
<1> QED
  BY <1>1, Invariance, PTL DEF Spec, DecidedOnce

(***************************************************************************)
(* The executor implements HumanApproval.                                  *)
(***************************************************************************)
decisionBar == [a \in Requests |-> Decision(a)]
openedBar == {target[c] : c \in {c \in Approvals : PullRequestOf(c) \in accepted}}
rebuiltBar == {target[c] : c \in {c \in Approvals : BuildOf(c) \in accepted}}

LEMMA PromiseInit == Init => Promise!Init
BY DEF Init, Promise!Init, Decision, Claimed

\* Steps that change nothing HumanApproval speaks of.
Quiet == UNCHANGED <<target, accepted>> /\ UNCHANGED decisionBar

LEMMA QuietStutters == Quiet => UNCHANGED Promise!vars
BY DEF Quiet, Promise!vars, decisionBar

LEMMA ProposeStep ==
  ASSUME IInv, NEW r \in Requests, execPc[r] # "done",
         status' = status \/ status' = [status EXCEPT ![r] = "pending_approval"],
         UNCHANGED <<target, accepted>>
  PROVE  Quiet \/ Promise!Propose(r)
<1>1. ~Claimed(r) /\ status[r] = "none"
  BY DEF IInv, Claimed, TypeOK
<1>2. \A a \in Requests : Claimed(a)' = Claimed(a)
  BY DEF Claimed
<1>3. CASE status' = status
  BY <1>2, <1>3 DEF Quiet, decisionBar, Decision
<1>4. CASE status' = [status EXCEPT ![r] = "pending_approval"]
  <2>1. decisionBar[r] = "none"
    BY <1>1 DEF decisionBar, Decision
  <2>2. Decision(r)' = "proposed"
    BY <1>1, <1>2, <1>4 DEF Decision, IInv, TypeOK
  <2>3. \A a \in Requests \ {r} : Decision(a)' = Decision(a)
    BY <1>2, <1>4 DEF Decision, IInv, TypeOK
  <2>4. decisionBar' = [decisionBar EXCEPT ![r] = "proposed"]
    BY <2>2, <2>3 DEF decisionBar
  <2> QED
    BY <2>1, <2>4 DEF Promise!Propose, Promise!Decide, decisionBar
<1> QED
  BY <1>3, <1>4

LEMMA ClaimStep ==
  ASSUME IInv, NEW c \in Approvals, NEW a \in Requests, ApproveClaims(c, a)
  PROVE  Promise!Approve(a)
<1> USE DEF ApproveClaims, Claim
<1>1. ~Claimed(a) /\ Claimed(a)'
  BY DEF IInv, Claimed, TypeOK
<1>2. target[c] = None
  BY DEF IInv, TypeOK
<1>3. \A b \in Requests \ {a} : Claimed(b)' = Claimed(b)
  BY <1>2 DEF IInv, TypeOK, Claimed
<1>4. decisionBar[a] = "proposed"
  BY <1>1 DEF decisionBar, Decision
<1>5. decisionBar' = [decisionBar EXCEPT ![a] = "approved"]
  <2>1. Decision(a)' = "approved"
    BY <1>1 DEF Decision
  <2>2. \A b \in Requests \ {a} : Decision(b)' = Decision(b)
    BY <1>3 DEF Decision, IInv, TypeOK
  <2> QED
    BY <2>1, <2>2 DEF decisionBar
<1>6. UNCHANGED <<openedBar, rebuiltBar>>
  BY <1>2 DEF openedBar, rebuiltBar, IInv, TypeOK
<1> QED
  BY <1>4, <1>5, <1>6 DEF Promise!Approve, Promise!Decide, decisionBar, openedBar, rebuiltBar

LEMMA ClaimedStatusStep ==
  ASSUME IInv, NEW c \in Approvals, target[c] # None, NEW st,
         status' = [status EXCEPT ![target[c]] = st],
         UNCHANGED <<target, accepted>>
  PROVE  Quiet
<1>1. target[c] \in Requests /\ Claimed(target[c])
  BY DEF IInv, TypeOK, Claimed
<1>2. \A a \in Requests : Claimed(a)' = Claimed(a)
  BY DEF Claimed
<1> QED
  BY <1>1, <1>2 DEF Quiet, decisionBar, Decision, IInv, TypeOK

LEMMA RejectStep ==
  ASSUME IInv, NEW a \in Requests, Reject(a)
  PROVE  Quiet \/ Promise!Decline(a)
<1> USE DEF Reject, apprVars
<1>1. \A b \in Requests : Claimed(b)' = Claimed(b)
  BY DEF Claimed
<1>2. CASE Claimed(a) \/ status[a] = "rejected"
  BY <1>1, <1>2 DEF Quiet, decisionBar, Decision, IInv, TypeOK
<1>3. CASE ~Claimed(a) /\ status[a] = "pending_approval"
  <2>1. decisionBar[a] = "proposed" /\ Decision(a)' = "declined"
    BY <1>1, <1>3 DEF decisionBar, Decision, IInv, TypeOK
  <2>2. \A b \in Requests \ {a} : Decision(b)' = Decision(b)
    BY <1>1 DEF Decision, IInv, TypeOK
  <2>3. decisionBar' = [decisionBar EXCEPT ![a] = "declined"]
    BY <2>1, <2>2 DEF decisionBar
  <2> QED
    BY <2>1, <2>3 DEF Promise!Decline, Promise!Decide, decisionBar
<1>4. CASE ~Claimed(a) /\ status[a] \notin {"pending_approval", "rejected"}
  \* Only a claim leads to the other statuses.
  BY <1>4 DEF IInv, TypeOK, Statuses, Claimed
<1> QED
  BY <1>2, <1>3, <1>4

LEMMA RestartStep ==
  ASSUME IInv, Restart
  PROVE  Promise!Forget
<1>1. \A a \in Requests : Claimed(a)' = Claimed(a)
  BY DEF Claimed, Restart
<1>2. \A a \in Requests :
        Decision(a)' = IF Decision(a) = "approved" THEN "approved" ELSE "none"
  BY <1>1 DEF Decision, Restart
<1>3. decisionBar' = [a \in Requests |->
                        IF decisionBar[a] = "approved" THEN "approved" ELSE "none"]
  BY <1>2 DEF decisionBar
<1> QED
  BY <1>3 DEF Promise!Forget, decisionBar, Restart

\* GitHub accepts a request, late or not: it is that of an approved proposal,
\* and no other request was sent for it.
LEMMA AcceptStep ==
  ASSUME IInv, NEW m \in inTransit, Accept(m)
  PROVE  \/ UNCHANGED <<decisionBar, openedBar, rebuiltBar>>
         \/ \E a \in Requests : Promise!Open(a) \/ Promise!Rebuild(a)
<1> USE DEF Accept, apprVars
<1>1. UNCHANGED decisionBar
  BY DEF decisionBar, Decision, Claimed
<1>2. CASE \E c \in Approvals : m = PullRequestOf(c)
  <2>1. PICK c \in Approvals : m = PullRequestOf(c)
    BY <1>2
  <2>2. PICK a \in Requests : a = target[c] /\ Claimed(a)
    BY <2>1 DEF IInv, TypeOK, Claimed
  <2>3. openedBar' = openedBar \union {a}
    BY <2>1, <2>2 DEF openedBar, PullRequestOf
  <2>4. UNCHANGED rebuiltBar
    BY <2>1 DEF rebuiltBar, PullRequestOf, BuildOf
  <2>5. CASE a \in openedBar
    BY <1>1, <2>2, <2>3, <2>4, <2>5
  <2>6. CASE a \notin openedBar
    <3>1. decisionBar[a] = "approved"
      BY <2>2 DEF decisionBar, Decision
    <3>2. Promise!Open(a)
      BY <1>1, <2>3, <2>4, <2>6, <3>1
         DEF Promise!Open, decisionBar, openedBar, rebuiltBar
    <3> QED
      BY <2>2, <3>2
  <2> QED
    BY <2>5, <2>6
<1>3. CASE \E c \in Approvals : m = BuildOf(c)
  <2>1. PICK c \in Approvals : m = BuildOf(c)
    BY <1>3
  <2>2. PICK a \in Requests : a = target[c] /\ PullRequestOf(c) \in accepted
    BY <2>1 DEF IInv, TypeOK
  <2>3. rebuiltBar' = rebuiltBar \union {a}
    BY <2>1, <2>2 DEF rebuiltBar, BuildOf
  <2>4. UNCHANGED openedBar
    BY <2>1 DEF openedBar, PullRequestOf, BuildOf
  <2>5. CASE a \in rebuiltBar
    BY <1>1, <2>3, <2>4, <2>5
  <2>6. CASE a \notin rebuiltBar
    <3>1. a \in openedBar
      BY <2>2 DEF openedBar
    <3>2. Promise!Rebuild(a)
      BY <1>1, <2>3, <2>4, <2>6, <3>1
         DEF Promise!Rebuild, decisionBar, openedBar, rebuiltBar
    <3> QED
      BY <2>2, <3>2
  <2> QED
    BY <2>5, <2>6
<1>4. CASE ~ \E c \in Approvals : m = PullRequestOf(c) \/ m = BuildOf(c)
  BY <1>1, <1>4 DEF openedBar, rebuiltBar
<1> QED
  BY <1>2, <1>3, <1>4

LEMMA PromiseStep ==
  ASSUME IInv, [Next]_vars
  PROVE  [Promise!Next]_(Promise!vars)
<1> USE DEF Promise!Next, Promise!vars
<1>1. CASE \E r \in Requests :
             (\E b \in Bodies : Execute(r, b)) \/ ExecuteSteps(r)
  <2>1. PICK r \in Requests :
          (\E b \in Bodies : Execute(r, b)) \/ ExecuteSteps(r)
    BY <1>1
  <2>2. /\ execPc[r] # "done"
        /\ status' = status \/ status' = [status EXCEPT ![r] = "pending_approval"]
        /\ UNCHANGED <<target, accepted>>
    BY <2>1 DEF Execute, ExecuteSteps, IssueReturned, NotifyReturned,
       NotifyOrPropose, ProposePR, apprVars
  <2> QED
    BY <2>2, ProposeStep, QuietStutters
<1>2. CASE \E c \in Approvals, a \in Requests : ApproveRefused(c, a)
  BY <1>2, QuietStutters DEF ApproveRefused, Quiet, decisionBar, Decision, Claimed
<1>3. CASE \E c \in Approvals, a \in Requests : ApproveClaims(c, a)
  BY <1>3, ClaimStep
<1>4. CASE \E c \in Approvals : ApproveSteps(c)
  <2>1. PICK c \in Approvals : ApproveSteps(c)
    BY <1>4
  <2>2. CASE PullRequestCreated(c) \/ PullRequestFailed(c)
    <3>1. PICK st : status' = [status EXCEPT ![target[c]] = st]
      BY <2>2 DEF PullRequestCreated, PullRequestFailed, FailWith
    <3>2. target[c] # None /\ UNCHANGED <<target, accepted>>
      BY <2>2 DEF IInv, PullRequestCreated, PullRequestFailed, FailWith
    <3>3. Quiet
      BY <3>1, <3>2, ClaimedStatusStep
    <3> QED
      BY <3>3, QuietStutters
  <2>3. CASE \E ok \in BOOLEAN : BuildReturned(c, ok)
    BY <2>3, QuietStutters DEF BuildReturned, Quiet, decisionBar, Decision, Claimed
  <2> QED
    BY <2>1, <2>2, <2>3 DEF ApproveSteps
<1>5. CASE \E a \in Requests : Reject(a)
  BY <1>5, RejectStep, QuietStutters
<1>6. CASE Restart
  BY <1>6, RestartStep
<1>7. CASE \E m \in inTransit : Accept(m)
  BY <1>7, AcceptStep DEF decisionBar, openedBar, rebuiltBar
<1>8. CASE \/ \E m \in inTransit : Refuse(m)
           \/ \E x \in Rebuilds : TriggerRebuild(x) \/ RebuildSteps(x)
           \/ UNCHANGED vars
  <2>1. UNCHANGED <<status, target, accepted>>
    BY <1>8 DEF Refuse, TriggerRebuild, RebuildSteps, RebuildReturned, vars, apprVars
  <2> QED
    BY <2>1, QuietStutters DEF Quiet, decisionBar, Decision, Claimed
<1> QED
  BY <1>1, <1>2, <1>3, <1>4, <1>5, <1>6, <1>7, <1>8 DEF Next, UserSteps, ServiceSteps

\* Whatever races, is lost, lands late or is restarted, the effects on GitHub
\* and Jenkins are those HumanApproval allows.
THEOREM ImplementsHumanApproval == Spec => KeepsHumanInTheLoop
<1>1. Init => Promise!Init
  BY PromiseInit
<1>2. IInv /\ [Next]_vars => [Promise!Next]_(Promise!vars)
  BY PromiseStep
<1> QED
  BY <1>1, <1>2, Invariance, PTL DEF Spec, KeepsHumanInTheLoop, Promise!Spec
=============================================================================
