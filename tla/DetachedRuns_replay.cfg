SPECIFICATION FairSpec
CONSTANTS
 Runs = {r1,r2}
 Clients = {c1,c2}
 MaxEvents = 1
 MaxStops = 1
INVARIANTS TypeOK EvictionArmed SequentialUnlessCut EndWakesReaders
PROPERTIES DeliversLog KeptWhileUsed ReadersEnd
CHECK_DEADLOCK FALSE
