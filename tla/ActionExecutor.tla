--------------------------- MODULE ActionExecutor ---------------------------
(***************************************************************************)
(* aeon/backend/agents/action_executor.py behind the routes of             *)
(* api/actions.py.                                                         *)
(*                                                                         *)
(* The backend is one asyncio process: a handler runs undisturbed from one *)
(* await to the next, so each action below is the code between two awaits. *)
(* The awaits are calls to GitHub, n8n and Jenkins.  Each client catches   *)
(* every exception and answers {"error": ...}; a timeout is such an error, *)
(* and says nothing of whether the service did what it was asked: the      *)
(* request may already have been accepted, or be accepted later.           *)
(*                                                                         *)
(* A proposal gets a fresh uuid in the /execute request that makes it, and *)
(* a request makes at most one: the request stands for the action id.      *)
(***************************************************************************)
EXTENDS Integers, FiniteSets

CONSTANTS Requests,     \* POST /actions/execute requests, and the action ids
          Approvals,    \* POST /actions/{id}/approve requests
          Rebuilds,     \* POST /actions/trigger-rebuild requests
          Bodies,       \* bodies of /execute requests
          None          \* no action

PR_CONFIDENCE_THRESHOLD == 85

\* What ExecuteRequest carries that a branch of the code looks at: whether
\* repo, job_name and n8n_workflow_id are non-empty, and the confidence.
BodyType == [repo : BOOLEAN, job : BOOLEAN, n8n : BOOLEAN, confidence : Int]

ASSUME BodiesAssumption == Bodies \subseteq BodyType
ASSUME NoneAssumption == None \notin Requests
ASSUME ApprovalsAssumption == Approvals \cap Rebuilds = {}

VARIABLES
  execPc,      \* where each /execute request is: the service it awaits
  body,        \* what it carries
  executed,    \* its list of executed actions (the rest is "skipped")
  status,      \* PENDING_ACTIONS: the status of each entry, "none" if absent
  apprPc,      \* where each /approve request is
  target,      \* the action it claimed, or None
  reply,       \* what it answered
  rebPc,       \* where each /trigger-rebuild request is
  triggered,   \* whether it, or an approval's rebuild, was reported triggered
  inTransit,   \* requests on their way to GitHub, n8n and Jenkins
  accepted,    \* requests that took effect there
  refused      \* requests answered with an HTTP error

execVars == <<execPc, body, executed>>
apprVars == <<apprPc, target, reply>>
vars == <<execVars, status, apprVars, rebPc, triggered,
          inTransit, accepted, refused>>

Statuses == {"none", "pending_approval", "approved", "completed", "failed",
             "rejected"}

IssueOf(r) == <<"issue", r>>
NotifyOf(r) == <<"n8n", r>>
PullRequestOf(c) == <<"pr", c>>
BuildOf(c) == <<"build", c>>

Messages == ({"issue", "n8n"} \X Requests) \union ({"pr"} \X Approvals)
            \union ({"build"} \X (Approvals \union Rebuilds))

NoBody == [repo |-> FALSE, job |-> FALSE, n8n |-> FALSE, confidence |-> 0]
NoReply == [kind |-> "none", status |-> "none"]
Replies == [kind : {"none", "not_found", "already", "pr_error", "pr_created"},
            status : Statuses]

TypeOK ==
  /\ execPc \in [Requests -> {"idle", "issue", "n8n", "done", "lost"}]
  /\ body \in [Requests -> BodyType]
  /\ executed \in [Requests -> SUBSET {"github_issue", "n8n_notification"}]
  /\ status \in [Requests -> Statuses]
  /\ apprPc \in [Approvals -> {"idle", "pr", "build", "done", "lost"}]
  /\ target \in [Approvals -> Requests \union {None}]
  /\ reply \in [Approvals -> Replies]
  /\ rebPc \in [Rebuilds -> {"idle", "build", "done", "lost"}]
  /\ triggered \subseteq Approvals \union Rebuilds
  /\ inTransit \subseteq Messages
  /\ accepted \subseteq Messages
  /\ refused \subseteq Messages

Init ==
  /\ execPc = [r \in Requests |-> "idle"]
  /\ body = [r \in Requests |-> NoBody]
  /\ executed = [r \in Requests |-> {}]
  /\ status = [r \in Requests |-> "none"]
  /\ apprPc = [c \in Approvals |-> "idle"]
  /\ target = [c \in Approvals |-> None]
  /\ reply = [c \in Approvals |-> NoReply]
  /\ rebPc = [x \in Rebuilds |-> "idle"]
  /\ triggered = {}
  /\ inTransit = {}
  /\ accepted = {}
  /\ refused = {}

-----------------------------------------------------------------------------
(* The services, as the clients in aeon/backend/services see them.         *)

Send(m) == inTransit' = inTransit \union {m}

SendNothing == UNCHANGED inTransit

\* The service takes a request off the wire and does what it asks.
Accept(m) ==
  /\ m \in inTransit
  /\ inTransit' = inTransit \ {m}
  /\ accepted' = accepted \union {m}
  /\ UNCHANGED <<execVars, status, apprVars, rebPc, triggered, refused>>

\* The service answers with an error status and does nothing.
Refuse(m) ==
  /\ m \in inTransit
  /\ inTransit' = inTransit \ {m}
  /\ refused' = refused \union {m}
  /\ UNCHANGED <<execVars, status, apprVars, rebPc, triggered, accepted>>

\* Faulty variant: a client that takes a timeout for success.
MayReturnOnTimeout(m, ok) == ok => m \in accepted \union inTransit

\* The outcomes an awaited client call may report: success only for an
\* accepted request; an error for a refused one, for a lost answer and for
\* a timeout, at any time.
MayReturn(m, ok) == ok => m \in accepted

\* N8nService.trigger_workflow reports a 404 as triggered as well.
NotifyMayReturn(m, ok) == ok => m \in accepted \union refused

-----------------------------------------------------------------------------
(* POST /actions/execute                                                   *)

\* Faulty variant: the confidence test is dropped.
ProposeAlways(r, b) ==
  status' = IF b.repo THEN [status EXCEPT ![r] = "pending_approval"] ELSE status

\* Queue the PR proposal and answer.  The code reads can_auto_fix at the top
\* and never looks at it.
ProposePR(r, b) ==
  status' = IF b.repo /\ b.confidence >= PR_CONFIDENCE_THRESHOLD
              THEN [status EXCEPT ![r] = "pending_approval"]
              ELSE status

\* From the n8n step on: notify and wait, or go on to the proposal.
NotifyOrPropose(r, b) ==
  IF b.n8n
    THEN /\ Send(NotifyOf(r))
         /\ execPc' = [execPc EXCEPT ![r] = "n8n"]
         /\ UNCHANGED status
    ELSE /\ SendNothing
         /\ execPc' = [execPc EXCEPT ![r] = "done"]
         /\ ProposePR(r, b)

Execute(r, b) ==
  /\ execPc[r] = "idle"
  /\ body' = [body EXCEPT ![r] = b]
  /\ IF b.repo
       THEN /\ Send(IssueOf(r))
            /\ execPc' = [execPc EXCEPT ![r] = "issue"]
            /\ UNCHANGED status
       ELSE NotifyOrPropose(r, b)
  /\ UNCHANGED <<executed, apprVars, rebPc, triggered, accepted, refused>>

IssueReturned(r, ok) ==
  /\ execPc[r] = "issue"
  /\ MayReturn(IssueOf(r), ok)
  /\ executed' = IF ok THEN [executed EXCEPT ![r] = @ \union {"github_issue"}]
                       ELSE executed
  /\ NotifyOrPropose(r, body[r])
  /\ UNCHANGED <<body, apprVars, rebPc, triggered, accepted, refused>>

NotifyReturned(r, ok) ==
  /\ execPc[r] = "n8n"
  /\ NotifyMayReturn(NotifyOf(r), ok)
  /\ executed' = IF ok
                   THEN [executed EXCEPT ![r] = @ \union {"n8n_notification"}]
                   ELSE executed
  /\ execPc' = [execPc EXCEPT ![r] = "done"]
  /\ ProposePR(r, body[r])
  /\ UNCHANGED <<body, apprVars, rebPc, triggered,
                 inTransit, accepted, refused>>

-----------------------------------------------------------------------------
(* POST /actions/{action_id}/approve                                       *)

Answer(c, kind, st) ==
  /\ reply' = [reply EXCEPT ![c] = [kind |-> kind, status |-> st]]
  /\ apprPc' = [apprPc EXCEPT ![c] = "done"]

\* Faulty variant: answers with a status the store does not know.
ApproveRefusedUnknown(c, a) ==
  /\ apprPc[c] = "idle"
  /\ status[a] # "pending_approval"
  /\ Answer(c, "already", "unknown")
  /\ UNCHANGED <<execVars, status, target, rebPc, triggered,
                 inTransit, accepted, refused>>

\* No such entry (404), or an entry that is no longer pending (200 with an
\* "error" field).
ApproveRefused(c, a) ==
  /\ apprPc[c] = "idle"
  /\ status[a] # "pending_approval"
  /\ Answer(c, IF status[a] = "none" THEN "not_found" ELSE "already", status[a])
  /\ UNCHANGED <<execVars, status, target, rebPc, triggered,
                 inTransit, accepted, refused>>

Claim(c, a) ==
  /\ apprPc[c] = "idle"
  /\ status' = [status EXCEPT ![a] = "approved"]
  /\ target' = [target EXCEPT ![c] = a]
  /\ Send(PullRequestOf(c))
  /\ apprPc' = [apprPc EXCEPT ![c] = "pr"]
  /\ UNCHANGED <<execVars, reply, rebPc, triggered, accepted, refused>>

\* Faulty variants: a failed action may be approved again; so may a rejected
\* one.
ApproveClaimsFailed(c, a) ==
  status[a] \in {"pending_approval", "failed"} /\ Claim(c, a)

ApproveClaimsRejected(c, a) ==
  status[a] \in {"pending_approval", "rejected"} /\ Claim(c, a)

\* The status is tested and set with no await in between.
ApproveClaims(c, a) == status[a] = "pending_approval" /\ Claim(c, a)

\* Whatever happened to the entry meanwhile is overwritten.
PullRequestCreated(c) ==
  /\ apprPc[c] = "pr"
  /\ MayReturn(PullRequestOf(c), TRUE)
  /\ status' = [status EXCEPT ![target[c]] = "completed"]
  /\ IF body[target[c]].job
       THEN /\ Send(BuildOf(c))
            /\ apprPc' = [apprPc EXCEPT ![c] = "build"]
            /\ UNCHANGED reply
       ELSE /\ SendNothing
            /\ Answer(c, "pr_created", "completed")
  /\ UNCHANGED <<execVars, target, rebPc, triggered, accepted, refused>>

FailWith(c, st) ==
  /\ apprPc[c] = "pr"
  /\ MayReturn(PullRequestOf(c), FALSE)
  /\ status' = [status EXCEPT ![target[c]] = st]
  /\ Answer(c, "pr_error", st)
  /\ UNCHANGED <<execVars, target, rebPc, triggered,
                 inTransit, accepted, refused>>

\* Faulty variants: the error path forgets the status; it puts the action
\* back in the queue.
PullRequestFailedSilently(c) == FailWith(c, "approved")
PullRequestFailedRequeued(c) == FailWith(c, "pending_approval")

PullRequestFailed(c) == FailWith(c, "failed")

\* The answer carries the entry's status as it is now.
BuildReturned(c, ok) ==
  /\ apprPc[c] = "build"
  /\ MayReturn(BuildOf(c), ok)
  /\ triggered' = IF ok THEN triggered \union {c} ELSE triggered
  /\ Answer(c, "pr_created", status[target[c]])
  /\ UNCHANGED <<execVars, status, target, rebPc,
                 inTransit, accepted, refused>>

-----------------------------------------------------------------------------
(* POST /actions/{action_id}/reject, /actions/trigger-rebuild, and the     *)
(* process itself.                                                         *)

\* Any entry, whatever its status; an unknown id changes nothing (404).
Reject(a) ==
  /\ status[a] # "none"
  /\ status' = [status EXCEPT ![a] = "rejected"]
  /\ UNCHANGED <<execVars, apprVars, rebPc, triggered,
                 inTransit, accepted, refused>>

TriggerRebuild(x) ==
  /\ rebPc[x] = "idle"
  /\ rebPc' = [rebPc EXCEPT ![x] = "build"]
  /\ Send(BuildOf(x))
  /\ UNCHANGED <<execVars, status, apprVars, triggered, accepted, refused>>

RebuildReturned(x, ok) ==
  /\ rebPc[x] = "build"
  /\ MayReturn(BuildOf(x), ok)
  /\ triggered' = IF ok THEN triggered \union {x} ELSE triggered
  /\ rebPc' = [rebPc EXCEPT ![x] = "done"]
  /\ UNCHANGED <<execVars, status, apprVars, inTransit, accepted, refused>>

Interrupted(pc) == IF pc \in {"idle", "done"} THEN pc ELSE "lost"

\* PENDING_ACTIONS and the suspended handlers live in the process; what is
\* already on the wire, or done at a service, does not.
Restart ==
  /\ status' = [a \in Requests |-> "none"]
  /\ execPc' = [r \in Requests |-> Interrupted(execPc[r])]
  /\ apprPc' = [c \in Approvals |-> Interrupted(apprPc[c])]
  /\ rebPc' = [x \in Rebuilds |-> Interrupted(rebPc[x])]
  /\ UNCHANGED <<body, executed, target, reply, triggered,
                 inTransit, accepted, refused>>

-----------------------------------------------------------------------------
ExecuteSteps(r) ==
  \E ok \in BOOLEAN : IssueReturned(r, ok) \/ NotifyReturned(r, ok)

ApproveSteps(c) ==
  \/ PullRequestCreated(c)
  \/ PullRequestFailed(c)
  \/ \E ok \in BOOLEAN : BuildReturned(c, ok)

RebuildSteps(x) == \E ok \in BOOLEAN : RebuildReturned(x, ok)

UserSteps ==
  \/ \E r \in Requests, b \in Bodies : Execute(r, b)
  \/ \E c \in Approvals, a \in Requests :
       ApproveRefused(c, a) \/ ApproveClaims(c, a)
  \/ \E a \in Requests : Reject(a)
  \/ \E x \in Rebuilds : TriggerRebuild(x)

ServiceSteps == \E m \in inTransit : Accept(m) \/ Refuse(m)

Next ==
  \/ UserSteps
  \/ ServiceSteps
  \/ \E r \in Requests : ExecuteSteps(r)
  \/ \E c \in Approvals : ApproveSteps(c)
  \/ \E x \in Rebuilds : RebuildSteps(x)
  \/ Restart

Spec == Init /\ [][Next]_vars

\* The event loop resumes a handler whose call has returned, and every call
\* returns, for httpx gives up after 5 s or 10 s.  Users and services owe
\* nothing.
Fairness ==
  /\ \A r \in Requests : WF_vars(ExecuteSteps(r))
  /\ \A c \in Approvals : WF_vars(ApproveSteps(c))
  /\ \A x \in Rebuilds : WF_vars(RebuildSteps(x))

FairSpec == Spec /\ Fairness

-----------------------------------------------------------------------------
(* Properties                                                              *)

InFlightOrDone(m) == m \in inTransit \union accepted \union refused

\* A proposal leads to at most one pull request, however many approvals,
\* rejections and restarts it meets and however late GitHub acts: no two
\* approve_action calls ever ask GitHub for the same action.
OnePullRequestPerAction ==
  \A c, d \in Approvals :
    (/\ InFlightOrDone(PullRequestOf(c))
     /\ InFlightOrDone(PullRequestOf(d))
     /\ target[c] = target[d]) => c = d

\* No pull request without the repo and the confidence that execute_actions
\* demands, even when the request lands after its proposal is gone.
PullRequestIsWarranted ==
  \A c \in Approvals :
    PullRequestOf(c) \in inTransit \union accepted =>
      /\ target[c] # None
      /\ body[target[c]].repo
      /\ body[target[c]].confidence >= PR_CONFIDENCE_THRESHOLD

\* approve_action asks Jenkins to rebuild only once the pull request exists,
\* and only when the proposal named a job.
RebuildFollowsPullRequest ==
  \A c \in Approvals :
    InFlightOrDone(BuildOf(c)) =>
      /\ PullRequestOf(c) \in accepted
      /\ body[target[c]].job

\* What users are told was done was done: the executed list of /execute, the
\* answer and the status of an approval, the triggered flag of a rebuild.
\* (A notification n8n refused with a 404 is reported too, by design.)
ReportsAreTrue ==
  /\ \A r \in Requests :
       /\ "github_issue" \in executed[r] => IssueOf(r) \in accepted
       /\ "n8n_notification" \in executed[r] =>
            NotifyOf(r) \in accepted \union refused
       /\ status[r] = "completed" =>
            \E c \in Approvals :
              target[c] = r /\ PullRequestOf(c) \in accepted
  /\ \A c \in Approvals :
       reply[c].kind = "pr_created" => PullRequestOf(c) \in accepted
  /\ \A x \in triggered : BuildOf(x) \in accepted

\* An approved action belongs to a handler that is still waiting for GitHub:
\* no error path leaves an entry "approved" that nobody will settle and
\* nobody can approve again.
ApprovedHasOwner ==
  \A a \in Requests :
    status[a] = "approved" =>
      \E c \in Approvals : apprPc[c] = "pr" /\ target[c] = a

\* Once decided, an action never becomes approvable again: no error path of
\* approve_action and no rejection puts it back in the queue.
DecidedOnce ==
  [][\A a \in Requests :
       status[a] \notin {"none", "pending_approval"} =>
         status'[a] # "pending_approval"]_vars

\* What the executor's state says of each proposal, in HumanApproval's terms.
Claimed(a) == \E c \in Approvals : target[c] = a

Decision(a) ==
  CASE Claimed(a) -> "approved"
    [] ~Claimed(a) /\ status[a] = "pending_approval" -> "proposed"
    [] ~Claimed(a) /\ status[a] = "rejected" -> "declined"
    [] OTHER -> "none"

Promise == INSTANCE HumanApproval WITH
  Actions <- Requests,
  decision <- [a \in Requests |-> Decision(a)],
  opened <- {target[c] : c \in {c \in Approvals : PullRequestOf(c) \in accepted}},
  rebuilt <- {target[c] : c \in {c \in Approvals : BuildOf(c) \in accepted}}

\* The executor keeps the promise of HumanApproval: the effects GitHub and
\* Jenkins saw are those of proposals a human approved, each decided once, a
\* rejection that comes first being final.
KeepsHumanInTheLoop == Promise!Spec

\* An approval settles: the entry leaves "approved", whatever GitHub does.
ApprovalSettles ==
  \A a \in Requests : (status[a] = "approved") ~> (status[a] # "approved")

\* "POST /{id}/reject -> reject a pending action" (api/actions.py).  The code
\* rejects an entry whatever its status.
RejectsOnlyPending ==
  [][\A a \in Requests :
       status'[a] = "rejected" => status[a] \in {"pending_approval", "rejected"}
    ]_vars
=============================================================================
