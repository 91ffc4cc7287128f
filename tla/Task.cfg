CONSTANTS
    Submitters = {s1, s2, s3}
    Workers = {w1, w2}
    MaxSubmit = 5
SPECIFICATION FairSpec
CHECK_DEADLOCK FALSE
INVARIANTS TypeOK OneOwner AssertsHold NoLostSubmit
PROPERTY SubmitServed
