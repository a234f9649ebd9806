\* All operations of the filament cache, two callers, three pulses.
CONSTANTS
    o1 = o1
    t1 = t1
    t2 = t2
    Objects <- MCObjects
    Threads <- MCThreads
    MaxPulse = 3
    ReqsPerPulse = 1
    LightChainLimit = 2
    MaxLeakedReaders = 2
    Ops <- OpsAll
    Nil = Nil
SPECIFICATION Spec
SYMMETRY ThreadSymmetry
INVARIANT TypeOK
INVARIANT EarliestOpenRequestSound
INVARIANT PendingChainComplete
INVARIANT BucketTracksOpenRequests
\* A caller can be blocked for good (Gather re-locking its bucket, the
\* lock Records leaks): the run fc_lock_hangs
\* shows it; here the safety properties are checked in every reachable state.
CHECK_DEADLOCK FALSE
