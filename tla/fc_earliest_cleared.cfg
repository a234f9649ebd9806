\* Requests and results only: is EarliestOpenRequest set while a request is open?
CONSTANTS
    o1 = o1
    t1 = t1
    t2 = t2
    Objects <- MCObjects
    Threads <- MCThreads
    MaxPulse = 2
    ReqsPerPulse = 1
    LightChainLimit = 2
    MaxLeakedReaders = 2
    Ops <- OpsReqRes
    Nil = Nil
SPECIFICATION Spec
INVARIANT OpenRequestsTracked
SYMMETRY ThreadSymmetry
CHECK_DEADLOCK FALSE
