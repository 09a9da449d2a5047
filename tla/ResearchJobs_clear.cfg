SPECIFICATION Spec
CONSTANTS
 Jobs = {j1,j2}
 Sessions = {s1,s2}
 Polls = {p1,p2}
 Loops = {l1}
 MaxClicks = 3
 MaxTroubles = 0
PROPERTIES ClearSticks
SYMMETRY Symmetry
CHECK_DEADLOCK FALSE
