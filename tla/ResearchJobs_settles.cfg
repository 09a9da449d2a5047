SPECIFICATION FairSpec
CONSTANTS
 Jobs = {j1,j2}
 Sessions = {s1,s2}
 Polls = {}
 Loops = {l1,l2}
 MaxClicks = 3
 MaxTroubles = 1
PROPERTIES RunningSettles BatchMoves
CHECK_DEADLOCK FALSE
