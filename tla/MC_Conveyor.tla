---------------------------- MODULE MC_Conveyor ----------------------------
(***************************************************************************)
(* The conveyor's two synchronisation structures side by side: the slot    *)
(* queues and a conditional gate.  Both belong to one scheduler shard and  *)
(* run on its worker, so their calls interleave one at a time; they share  *)
(* no state, and each step is a step of one of them.                       *)
(***************************************************************************)
EXTENDS SlotQueue, Conditional

CONSTANTS s1, s2, s3, q1, q2, w1, w2

MCSlots == {s1, s2, s3}
MCQueues == {q1, q2}
MCWaiters == {w1, w2}

\* Adjustments that close, open, overflow and saturate the gate.
MCAdjustments == {-16, -5, -1, 1, 4, 15}
MCInitials == {0, 1}

\* The last call made, a label for the traces: each call leads to a state
\* of its own, so TLC's coverage shows every operation firing.
VARIABLE lastCall

ConveyorInit == Init /\ CondInit /\ lastCall = "NewConditional"

Call(name) == lastCall' = name

\* Next of SlotQueue and CondNext of Conditional, one step at a time.
ConveyorNext ==
    \/ \E q \in Queues, s \in Slots :
           AddFirst(q, s) /\ UNCHANGED condVars /\ Call("AddFirst")
    \/ \E q \in Queues, s \in Slots :
           AddLast(q, s) /\ UNCHANGED condVars /\ Call("AddLast")
    \/ \E p, a \in Queues :
           AppendAll(p, a) /\ UNCHANGED condVars /\ Call("AppendAll")
    \/ \E q \in Queues :
           RemoveAll(q) /\ UNCHANGED condVars /\ Call("RemoveAll")
    \/ \E s \in Slots :
           RemoveFromQueue(s) /\ UNCHANGED condVars /\ Call("removeFromQueue")
    \/ \E w \in Waiters :
           CreateDependency(w) /\ UNCHANGED vars /\ Call("CreateDependency")
    \/ \E w \in Waiters :
           Release(w) /\ UNCHANGED vars /\ Call("Release")
    \/ \E a \in Adjustments, absolute \in BOOLEAN :
           AdjustLimit(a, absolute) /\ UNCHANGED vars /\ Call("AdjustLimit")

ConveyorSpec == ConveyorInit /\ [][ConveyorNext]_<<vars, condVars, lastCall>>

ConveyorTypeOK == TypeOK /\ CondTypeOK
=============================================================================
