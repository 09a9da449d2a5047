SPECIFICATION FairSpec
CONSTANTS
  MAX_ITERATIONS = 2
  MAX_RESEARCH_ITERATIONS = 3
  RecursionLimit = 7
  Names <- MCNames
  MaxCalls = 2
INVARIANTS
  TypeOK
  HistoryIsReplayable
  EffectsAreListed
  WritesAreReported
  StreamIsOrdered
PROPERTIES
  StreamEnds
