SPECIFICATION Spec
CONSTANTS
  MAX_ITERATIONS = 2
  MAX_RESEARCH_ITERATIONS = 2
  RecursionLimit = 9
  Names <- MCOneName
  MaxCalls = 1
INVARIANTS
  StoredAsMeansStored
