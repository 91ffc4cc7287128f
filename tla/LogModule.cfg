CONSTANTS
    Submitters = {s1, s2}
    Workers = {w1, w2}
    MaxSubmit = 3
SPECIFICATION FairSpec
CHECK_DEADLOCK FALSE
INVARIANTS LogSound ShutdownSound
PROPERTY EveryLineWritten
