---------------------------- MODULE SlotQueueSpec ----------------------------
(***************************************************************************)
(* What a slot queue (src/conveyor/smachine/slot_queue.go) promises: each  *)
(* queue is a sequence of slots, and a slot is in at most one queue.      *)
(* AppendAll moves the whole of one queue behind another and leaves it     *)
(* empty.                                                                  *)
(***************************************************************************)
EXTENDS Sequences, SequencesExt

CONSTANTS Slots, Queues

VARIABLE seqs   \* queue -> the sequence of its slots, first to last

Queued == UNION {ToSet(seqs[q]) : q \in Queues}

Init == seqs = [q \in Queues |-> <<>>]

AddFirst(q, s) ==
    /\ s \notin Queued
    /\ seqs' = [seqs EXCEPT ![q] = <<s>> \o @]

AddLast(q, s) ==
    /\ s \notin Queued
    /\ seqs' = [seqs EXCEPT ![q] = Append(@, s)]

\* Appending a queue to itself leaves it as it is.
AppendAll(p, a) ==
    seqs' = IF p = a THEN seqs
            ELSE [seqs EXCEPT ![p] = @ \o seqs[a], ![a] = <<>>]

RemoveAll(q) == seqs' = [seqs EXCEPT ![q] = <<>>]

RemoveFromQueue(s) ==
    \E q \in Queues :
        /\ s \in ToSet(seqs[q])
        /\ seqs' = [seqs EXCEPT ![q] = Remove(@, s)]

Next ==
    \/ \E q \in Queues, s \in Slots : AddFirst(q, s) \/ AddLast(q, s)
    \/ \E p, a \in Queues : AppendAll(p, a)
    \/ \E q \in Queues : RemoveAll(q)
    \/ \E s \in Slots : RemoveFromQueue(s)

Spec == Init /\ [][Next]_seqs
=============================================================================
