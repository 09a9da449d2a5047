SPECIFICATION Spec
CONSTANTS
  r1 = r1
  r2 = r2
  r3 = r3
  Requests <- MCTwoRequests
  None = None
CHECK_DEADLOCK FALSE
INVARIANTS
  EveryAnalysisIsStored
