SPECIFICATION Spec
CONSTANTS
  Requests = {r1}
  Approvals = {c1}
  Rebuilds = {}
  Bodies <- MCBodies
  None = None
PROPERTIES
  RejectsOnlyPending
