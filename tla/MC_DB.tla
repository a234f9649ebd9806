--------------------------------- MODULE MC_DB ---------------------------------
(***************************************************************************)
(* DB with two goroutines on one pulse after the genesis pulse: enough for *)
(* two AddPulse calls to conflict on the latest pulse, for a SetMessage to *)
(* be in flight while CreateDrop waits, and for two SetDrop calls to meet; *)
(* the process may die at any step and run Bootstrap again.               *)
(***************************************************************************)
EXTENDS DB

CONSTANTS t1, t2

MCThreads == {t1, t2}
MCPulses == {2}
\* Bootstrap runs before any goroutine calls the DB: one is enough to show it.
MCOneThread == {t1}

\* The last step taken, a label for the traces: CreateDrop returns its drop
\* to the caller and leaves the store as it was, so without the label its
\* last step would lead only to states already seen.
VARIABLE lastStep

MCInit == Init /\ lastStep = "NewDB"

Step(name) == lastStep' = name

MCNext ==
    \/ \E t \in Threads :
          \/ \E name \in Calls, p \in Pulses : Call(t, name, p) /\ Step("Call")
          \/ UpdateBegin(t) /\ Step("UpdateBegin")
          \/ UpdateCommit(t) /\ Step("UpdateCommit")
          \/ SetDropGet(t) /\ Step("SetDropGet")
          \/ CreateDropWait(t) /\ Step("CreateDropWait")
          \/ CreateDropResume(t) /\ Step("CreateDropResume")
          \/ CreateDropView(t) /\ Step("CreateDropView")
          \/ ReadView(t) /\ Step("ReadView")
    \/ BootGetGenesis /\ Step("BootGetGenesis")
    \/ BootCall /\ Step("BootCall")
    \/ Crash /\ Step("Crash")

MCSpec == MCInit /\ [][MCNext]_<<vars, lastStep>>
=============================================================================
