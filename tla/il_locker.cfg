\* Two ids and three threads: enough for a waiter to sit on an entry while
\* its holder unlocks, and for a reader, a writer and a third thread to
\* share one id.
CONSTANTS
    i1 = i1
    i2 = i2
    t1 = t1
    t2 = t2
    t3 = t3
    Nil = Nil
    Ids <- MCIds
    Threads <- MCThreads
SPECIFICATION FairSpec
INVARIANT TypeOK MapBalanced
PROPERTY ImplementsIDLockSpec LocksAcquired
