CONSTANTS
    Workers = {w1, w2}
    InitWorkers = {w1}
    Requests = {r1, r2}
    BarrierReqs = {}
    QueueNos = {"fast"}
    ReqMaxRR = 1
    StopPolicy = "quiet"
    MayFail = {}
    MaySpuriouslyWake = FALSE
    None = None
SPECIFICATION FairSpec
CHECK_DEADLOCK FALSE
PROPERTY StopReturns
