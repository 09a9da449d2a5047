SPECIFICATION Spec
CONSTANTS
 Jobs = {j1,j2}
 Sessions = {s1,s2}
 Polls = {}
 Loops = {l1}
 MaxClicks = 3
 MaxTroubles = 1
INVARIANT OneAtATime
CHECK_DEADLOCK FALSE
