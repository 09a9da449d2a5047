-------------------------- MODULE MCActionExecutor --------------------------
(* Small instances of ActionExecutor for TLC. *)
EXTENDS ActionExecutor, TLC

Body(repo, job, n8n, confidence) ==
  [repo |-> repo, job |-> job, n8n |-> n8n, confidence |-> confidence]

\* A body for each way through execute_actions and approve_action, on both
\* sides of the confidence threshold.
MCBodies ==
  { Body(TRUE, TRUE, TRUE, 85),
    Body(TRUE, FALSE, FALSE, 90),
    Body(TRUE, TRUE, FALSE, 84),
    Body(FALSE, FALSE, TRUE, 95) }

=============================================================================
