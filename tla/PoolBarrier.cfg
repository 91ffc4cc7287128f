CONSTANTS
    Workers = {w1, w2}
    InitWorkers = {w1, w2}
    Requests = {r1, b1, b2}
    BarrierReqs = {b1, b2}
    QueueNos = {"fast"}
    ReqMaxRR = 1
    StopPolicy = "quiet"
    MayFail = {}
    MaySpuriouslyWake = TRUE
    None = None
SPECIFICATION Spec
SYMMETRY WorkerSymmetry
CHECK_DEADLOCK FALSE
INVARIANTS WorkAccounted DeferredBarrierInOrder StopVerified
PROPERTY Implements
