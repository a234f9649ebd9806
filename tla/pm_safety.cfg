\* Four pulses, a chain limit of one (so the cleaners of ticks 3 and 4
\* overlap), one handler, and every store call may fail.
CONSTANTS
    r1 = r1
    q1 = q1
    Readers <- MCReaders
    Requests <- MCRequests
    SplitCount = 1
    MaxPulse = 4
    LightChainLimit = 1
    Failures <- FailAll
SPECIFICATION Spec
INVARIANT TypeOK RecentPulsesKept
PROPERTY NoPulseAfterStop HotDataHandedOver
\* After a MoveSyncToActive error the pulse storage stays locked and the
\* node really stops: Set, Stop and the handler all wait on it.
CHECK_DEADLOCK FALSE
