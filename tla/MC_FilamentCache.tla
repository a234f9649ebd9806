-------------------------- MODULE MC_FilamentCache --------------------------
(* Model values and bounds for checking FilamentCache with TLC.            *)
EXTENDS FilamentCache

CONSTANTS o1, t1, t2

MCObjects == {o1}
MCThreads == {t1, t2}
\* Callers are interchangeable: every property quantifies over all of them.
ThreadSymmetry == Permutations(MCThreads)

\* Every operation of the cache.
OpsAll == AllOps
\* Requests with the two operations that can leave a bucket lock held.
OpsHang == {"SetRequest", "Gather", "Records"}
\* Records alone, to see its leaked read lock block SetRequest.
OpsRecords == {"SetRequest", "Records"}
OpsReqRes == {"SetRequest", "SetResult"}
=============================================================================
