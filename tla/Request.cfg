CONSTANTS
    Requests = {kept, barrier}
    BarrierReqs = {barrier}
    KeptReqs = {kept}
SPECIFICATION FairSpec
CHECK_DEADLOCK FALSE
INVARIANTS TypeOK WaitsForDone DoneOnce SignalInScope HandledFirst
PROPERTY WaitReturns
