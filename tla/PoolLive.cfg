CONSTANTS
    Workers = {w1, w2}
    InitWorkers = {w1}
    Requests = {r1, r2, b1}
    BarrierReqs = {b1}
    QueueNos = {"fast"}
    ReqMaxRR = 1
    StopPolicy = "never"
    MayFail = {w2}
    MaySpuriouslyWake = FALSE
    None = None
SPECIFICATION FairSpec
CHECK_DEADLOCK FALSE
PROPERTY AllServed
