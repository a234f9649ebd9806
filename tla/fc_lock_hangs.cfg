\* Requests, Gather and Records: does every caller return?
CONSTANTS
    o1 = o1
    t1 = t1
    t2 = t2
    Objects <- MCObjects
    Threads <- MCThreads
    MaxPulse = 2
    ReqsPerPulse = 1
    LightChainLimit = 2
    MaxLeakedReaders = 2
    Ops <- OpsHang
    Nil = Nil
SPECIFICATION FairSpec
PROPERTY OperationsReturn

CHECK_DEADLOCK FALSE
