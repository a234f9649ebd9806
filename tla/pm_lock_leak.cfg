\* MoveSyncToActive fails once; a handler then waits on the pulse storage.
CONSTANTS
    r1 = r1
    q1 = q1
    Readers <- MCReaders
    Requests <- MCRequests
    SplitCount = 1
    MaxPulse = 2
    LightChainLimit = 1
    Failures <- FailSwap
SPECIFICATION FairSpec
PROPERTY ReadersGetPulse
\* The leaked lock stops Set and the handler; the property, not the
\* deadlock, is what this run reports.
CHECK_DEADLOCK FALSE
