\* Three pulses, no failures, one split, one open request: enough for a
\* jet this node executes in two pulses running, and for a handler to
\* register a request on it while the tick is processed.
CONSTANTS
    r1 = r1
    q1 = q1
    Readers <- MCReaders
    Requests <- MCRequests
    SplitCount = 1
    MaxPulse = 3
    LightChainLimit = 1
    Failures <- NoFailures
SPECIFICATION Spec
INVARIANT OpenRequestsHandedOver
