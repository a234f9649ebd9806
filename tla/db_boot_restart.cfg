\* One goroutine; the process may die between any two calls of Bootstrap
\* and is started again on the store it left.
CONSTANTS
    t1 = t1
    t2 = t2
    Threads <- MCOneThread
    Pulses <- MCPulses
    TxRetries = 1
    GenesisPulse = 1
SPECIFICATION MCSpec
INVARIANT BootstrapNeverFails
