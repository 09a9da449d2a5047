SPECIFICATION Spec
CONSTANTS
  c1 = c1
  a1 = a1
  a2 = a2
  frontend = frontend
  build_failure = build_failure
  ai_analysis = ai_analysis
  clear_cache = clear_cache
  pin_version = pin_version
  Curated = {c1}
  Analyses = {a1, a2}
  Names <- MCNames
  PipeOf <- MCPipeOf
  TypeOf <- MCTypeOf
  FixOf <- MCFixOf
  Unclassified = ai_analysis
  RecallK = 2
  TopK = 1
  MaxFixes = 1
  MaxSiblings = 1
  HistoryLimit = 2
INVARIANTS TypeOK PatternsAreTrue CrowdedOutByMany
PROPERTY AnswersAsRecorded
SYMMETRY MCSymmetry
