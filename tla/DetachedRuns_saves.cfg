SPECIFICATION Spec
CONSTANTS
 Runs = {r1,r2,r3}
 Clients = {c1,c2,c3}
 MaxEvents = 1
 MaxStops = 1
INVARIANTS SavesSequential
SYMMETRY Symmetry
CHECK_DEADLOCK FALSE
