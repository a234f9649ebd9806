\* As pm_safety, but MoveSyncToActive does not fail (its error path is
\* checked by pm_lock_leak).
CONSTANTS
    r1 = r1
    q1 = q1
    Readers <- MCReaders
    Requests <- MCNoRequests
    SplitCount = 1
    MaxPulse = 4
    LightChainLimit = 1
    Failures <- FailAllButSwap
SPECIFICATION FairSpec
PROPERTY ReadersGetPulse CallsReturn
