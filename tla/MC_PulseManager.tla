-------------------------- MODULE MC_PulseManager --------------------------
(* Instances of PulseManager for TLC.                                      *)
EXTENDS PulseManager

CONSTANTS r1, q1

MCReaders == {r1}

MCRequests == {q1}

MCNoRequests == {}

\* Every store call may fail except MoveSyncToActive, whose error path
\* leaves the pulse storage locked (checked on its own).
FailAllButSwap == FailurePoints \ {"MoveSyncToActive"}

FailAll == FailurePoints

FailSwap == {"MoveSyncToActive"}

NoFailures == {}
=============================================================================
