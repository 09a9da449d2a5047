SPECIFICATION FairSpec
CONSTANTS
  Requests = {r1}
  Approvals = {c1, c2}
  Rebuilds = {x1}
  Bodies <- MCBodies
  None = None
INVARIANTS
  TypeOK
  PullRequestIsWarranted
  ReportsAreTrue
  OnePullRequestPerAction
PROPERTIES
  DecidedOnce
  KeepsHumanInTheLoop
  ApprovalSettles
