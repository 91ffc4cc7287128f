CONSTANTS
    Workers = {w1, w2}
    InitWorkers = {w1}
    Requests = {r1, r2, r3}
    BarrierReqs = {}
    QueueNos = {"fast"}
    ReqMaxRR = 1
    StopPolicy = "any"
    MayFail = {}
    MaySpuriouslyWake = TRUE
    None = None
SPECIFICATION Spec
SYMMETRY Symmetry
CHECK_DEADLOCK FALSE
INVARIANT NeverLost
