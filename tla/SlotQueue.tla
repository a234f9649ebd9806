------------------------------ MODULE SlotQueue ------------------------------
(***************************************************************************)
(* QueueHead in src/conveyor/smachine/slot_queue.go: an intrusive circular *)
(* doubly linked list of slots with a sentinel head.  A node is a slot or  *)
(* the head of a queue; the head of queue q is the node q itself.  next,   *)
(* prev and queue are the nodes' nextInQueue, prevInQueue and queue        *)
(* fields; count is QueueHead.count.  A head whose queue field is Nil has  *)
(* not been through initEmpty yet.  The queues belong to one scheduler     *)
(* shard, so every operation is one step.                                  *)
(***************************************************************************)
EXTENDS Naturals, Sequences, SequencesExt, FiniteSets

CONSTANTS Slots, Queues, Nil

Nodes == Slots \cup Queues
Fuel == Cardinality(Slots) + 1

VARIABLES next, prev, queue, count

vars == <<next, prev, queue, count>>

\* NewSlotQueue: every field zero.
Init ==
    /\ next = [n \in Nodes |-> Nil]
    /\ prev = [n \in Nodes |-> Nil]
    /\ queue = [n \in Nodes |-> Nil]
    /\ count = [q \in Queues |-> 0]

\* The nodes met walking nx from n up to, not including, stop.
RECURSIVE Walk(_, _, _, _)
Walk(nx, n, stop, fuel) ==
    IF fuel = 0 \/ n = stop \/ n = Nil THEN <<>>
    ELSE <<n>> \o Walk(nx, nx[n], stop, fuel - 1)

\* The links as one record, so that a handler's steps compose.
Links == [nx |-> next, pv |-> prev, qu |-> queue]

SetLinks(r) == next' = r.nx /\ prev' = r.pv /\ queue' = r.qu

\* initEmpty: a head seen for the first time points at itself.
InitEmpty(q) ==
    IF queue[q] = Nil
    THEN [nx |-> [next EXCEPT ![q] = q], pv |-> [prev EXCEPT ![q] = q],
          qu |-> [queue EXCEPT ![q] = q]]
    ELSE Links

\* Slot.isQueueHead
IsQueueHead(r, n) == r.qu[n] # Nil /\ r.qu[n] = n

\* QueueHead.IsEmpty
IsEmpty(r, q) == r.nx[q] = Nil \/ IsQueueHead(r, r.nx[q])

\* Slot.ensureNotInQueue (slot.go): a queued slot is never enqueued again.
EnsureNotInQueue(s) == queue[s] = Nil /\ next[s] = Nil /\ prev[s] = Nil

\* Slot._addQueuePrev: splice chainHead..chainTail in before s.
AddQueuePrev(r, s, chainHead, chainTail) ==
    LET p == r.pv[s] IN
    [r EXCEPT !.pv = [@ EXCEPT ![chainHead] = p, ![s] = chainTail],
              !.nx = [@ EXCEPT ![chainTail] = s, ![p] = chainHead]]

\* AddFirst splices in before p.head.nextInQueue.
FirstAnchor(r, q) == r.nx[q]

\* Mutant: AppendAll splices the other queue in before p's first slot.
AppendAnchorFirst(r, p) == r.nx[p]

\* AppendAll splices in before p.head, after p's last slot.
AppendAnchor(r, p) == p

\* Mutant: removeFromQueue forgets s.queue.count--.
DecKept(c) == c

DecCount(c) == c - 1

\* Mutant: AppendAll leaves the moved slots pointing at the other queue.
ChainQueueKept(r, chain, p) == r.qu

\* AppendAll: n.queue = p for every moved slot.
ChainQueue(r, chain, p) == [n \in Nodes |-> IF n \in chain THEN p ELSE r.qu[n]]

AddFirst(q, s) ==
    LET r == InitEmpty(q) IN
    /\ EnsureNotInQueue(s)
    /\ SetLinks([AddQueuePrev(r, FirstAnchor(r, q), s, s)
                    EXCEPT !.qu = [@ EXCEPT ![s] = q]])
    /\ count' = [count EXCEPT ![q] = @ + 1]

AddLast(q, s) ==
    LET r == InitEmpty(q) IN
    /\ EnsureNotInQueue(s)
    /\ SetLinks([AddQueuePrev(r, q, s, s) EXCEPT !.qu = [@ EXCEPT ![s] = q]])
    /\ count' = [count EXCEPT ![q] = @ + 1]

\* p.AppendAll(a): reset a to empty, re-point the moved slots at p, splice
\* them in before p's head and add a's count; a may be p itself.
AppendAll(p, a) ==
    LET r == InitEmpty(p)
        first == r.nx[a]
        last == r.pv[a]
        chain == ToSet(Walk(r.nx, first, a, Fuel))
        cut == [r EXCEPT !.nx = [@ EXCEPT ![a] = a], !.pv = [@ EXCEPT ![a] = a]]
    IN
    IF IsEmpty(r, a) THEN SetLinks(r) /\ UNCHANGED count
    ELSE /\ SetLinks(AddQueuePrev([cut EXCEPT !.qu = ChainQueue(cut, chain, p)],
                                  AppendAnchor(cut, p), first, last))
         /\ count' = [count EXCEPT ![a] = 0, ![p] = @ + count[a]]

\* q.RemoveAll(): reset the head, then unlink every slot that was in it.
RemoveAll(q) ==
    LET r == InitEmpty(q)
        chain == ToSet(Walk(r.nx, r.nx[q], q, Fuel))
        clear(f) == [n \in Nodes |-> IF n = q THEN q ELSE IF n \in chain THEN Nil ELSE f[n]]
    IN
    IF IsEmpty(r, q) THEN SetLinks(r) /\ UNCHANGED count
    ELSE /\ SetLinks([nx |-> clear(r.nx), pv |-> clear(r.pv),
                      qu |-> [n \in Nodes |-> IF n \in chain THEN Nil ELSE r.qu[n]]])
         /\ count' = [count EXCEPT ![q] = 0]

\* Slot.removeFromQueue on a queued slot; on a free slot it does nothing.
RemoveFromQueue(s) ==
    LET n == next[s]  p == prev[s] IN
    /\ queue[s] # Nil
    /\ ~IsQueueHead(Links, s)
    /\ n # Nil /\ p # Nil
    /\ next' = [next EXCEPT ![p] = n, ![s] = Nil]
    /\ prev' = [prev EXCEPT ![n] = p, ![s] = Nil]
    /\ count' = [count EXCEPT ![queue[s]] = DecCount(@)]
    /\ queue' = [queue EXCEPT ![s] = Nil]

Next ==
    \/ \E q \in Queues, s \in Slots : AddFirst(q, s) \/ AddLast(q, s)
    \/ \E p, a \in Queues : AppendAll(p, a)
    \/ \E q \in Queues : RemoveAll(q)
    \/ \E s \in Slots : RemoveFromQueue(s)

Spec == Init /\ [][Next]_vars

-----------------------------------------------------------------------------
(* Properties                                                              *)

TypeOK ==
    /\ next \in [Nodes -> Nodes \cup {Nil}]
    /\ prev \in [Nodes -> Nodes \cup {Nil}]
    /\ queue \in [Nodes -> Queues \cup {Nil}]
    /\ count \in [Queues -> 0..Cardinality(Slots)]

\* The slots of queue q, first to last, read off the ring from its head.
Ring(q) == IF queue[q] = Nil THEN <<>> ELSE Walk(next, next[q], q, Fuel)

\* Every ring closes at its head within as many steps as there are slots,
\* prev runs it backwards, its slots point at its head, and count is its
\* length; a slot that points at no queue has no links, and a slot that
\* points at q is on q's ring.  AppendAll, RemoveAll and removeFromQueue
\* each rewrite several of these fields, and one field left behind breaks
\* removeFromQueue on a later call.
RingWellFormed ==
    /\ \A q \in Queues :
        LET w == Ring(q)  tail == IF w = <<>> THEN q ELSE w[Len(w)] IN
        IF queue[q] = Nil THEN count[q] = 0
        ELSE /\ Len(w) <= Cardinality(Slots)
             /\ next[tail] = q /\ prev[q] = tail
             /\ count[q] = Len(w)
             /\ \A i \in 1..Len(w) :
                    /\ queue[w[i]] = q
                    /\ prev[w[i]] = IF i = 1 THEN q ELSE w[i - 1]
    /\ \A s \in Slots :
        IF queue[s] = Nil THEN next[s] = Nil /\ prev[s] = Nil
        ELSE s \in ToSet(Ring(queue[s]))

AbsQueue == INSTANCE SlotQueueSpec WITH seqs <- [q \in Queues |-> Ring(q)]

\* The linked queues implement SlotQueueSpec: AddFirst puts a slot first,
\* AddLast last, AppendAll moves the whole other queue behind this one and
\* empties it (|Q1| + |Q2| slots, in order), RemoveAll empties a queue and
\* removeFromQueue takes out exactly its slot.
ImplementsSlotQueueSpec == AbsQueue!Spec
=============================================================================
