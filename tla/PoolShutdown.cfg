CONSTANTS
    Workers = {w1, w2}
    InitWorkers = {w1}
    Requests = {r1, r2, r3}
    BarrierReqs = {}
    QueueNos = {"fast", "slow", "suspend"}
    ReqMaxRR = 1
    StopPolicy = "quiet"
    MayFail = {w2}
    MaySpuriouslyWake = TRUE
    None = None
SPECIFICATION Spec
SYMMETRY Symmetry
CHECK_DEADLOCK FALSE
INVARIANTS
    TypeOK NoWakeupLost SleepersTracked WorkAccounted NoAbort ShutdownVerified
    ThreadsCounted
