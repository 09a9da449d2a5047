SPECIFICATION Spec
CONSTANTS
  t1 = t1
  t2 = t2
  r1 = r1
  Files <- MCFiles
  Repo <- MCRepo
  Nodes <- MCNodes
  NodesOf <- MCNodesOf
  EdgesOf <- MCEdgesOf
  Traces <- MCTraces
  Replays <- MCReplays
SYMMETRY MCSymmetry
CHECK_DEADLOCK FALSE
INVARIANTS
  TypeOK
  StoredIsReplayed
  RepliesBelong
