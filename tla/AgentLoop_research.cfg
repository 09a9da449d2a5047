SPECIFICATION Spec
CONSTANTS
  MAX_ITERATIONS = 8
  MAX_RESEARCH_ITERATIONS = 15
  RecursionLimit = 25
  Names <- MCOneName
  MaxCalls = 1
PROPERTIES
  ResearchRunsToLimit
