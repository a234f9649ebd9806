\* Two goroutines and one pulse, one retry: two AddPulse calls conflict on
\* the latest pulse, one of them twice in a row and gives up; a SetMessage
\* is in flight while CreateDrop of its pulse waits; two SetDrop calls meet.
CONSTANTS
    t1 = t1
    t2 = t2
    Threads <- MCThreads
    Pulses <- MCPulses
    TxRetries = 1
    GenesisPulse = 1
SPECIFICATION MCSpec

PROPERTY WaitNeverReused
