SPECIFICATION Spec
CONSTANTS
 Jobs = {j1,j2}
 Sessions = {s1,s2}
 Polls = {p1}
 Loops = {l1,l2}
 MaxClicks = 3
 MaxTroubles = 1
INVARIANTS TypeOK WatchedWhileRunning DoneWasFinished
PROPERTIES ClearedStays
SYMMETRY Symmetry
CHECK_DEADLOCK FALSE
