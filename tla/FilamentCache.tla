--------------------------- MODULE FilamentCache ----------------------------
(***************************************************************************)
(* The pending-request filament cache of a light node:                     *)
(* FilamentCacheStorage in src/ledger/object/filament_cache.go.            *)
(*                                                                         *)
(* Callers (message handlers of the light node) run concurrently; each is  *)
(* a thread of Threads that performs one operation at a time with the      *)
(* pulse number pn current when it started.  Every operation that writes  *)
(* takes the object's index lock (idx.Lock) and then the per-(pulse,       *)
(* object) bucket lock (pb.Lock); the work under both locks is one step.   *)
(* Lock waits are steps of their own, so every interleaving of callers     *)
(* that the locks allow is explored.                                       *)
(*                                                                         *)
(* Data is abstracted: a request id is [obj, pulse, n], a result names the *)
(* request it closes, and a PendingFilament meta-record id is the record   *)
(* [pn, rec, prev] it hashes (the hash is taken as injective).  The record *)
(* store is the set of meta-records written.  The lifeline of an object is *)
(* one record shared by all pulses (the index accessor, not under src/,    *)
(* hands each pulse the object's current lifeline).                        *)
(***************************************************************************)
EXTENDS Naturals, Sequences, FiniteSets, SequencesExt, TLC

CONSTANTS
    Objects,          \* object ids
    Threads,          \* concurrent callers of the cache
    MaxPulse,         \* pulses 1..MaxPulse are played
    ReqsPerPulse,     \* distinct request ids per object per pulse
    LightChainLimit,  \* the cleaner drops buckets this many pulses back
    MaxLeakedReaders, \* bound on read locks leaked on one bucket
    Ops,              \* the operations callers may perform in this run
    Nil               \* absent pointer / pulse / lock holder

Pulses == 1..MaxPulse
ReqID == [obj : Objects, pulse : Pulses, n : 1..ReqsPerPulse]
ResID == [res : ReqID]
AllOps == {"SetRequest", "SetResult", "Gather", "SendAbandonedNotification",
           "Records", "OpenRequestsForObjID", "DeleteForPN"}

ASSUME Ops \subseteq AllOps /\ MaxPulse \in Nat \ {0} /\ LightChainLimit \in Nat

VARIABLES
    curPN,          \* the node's current pulse
    lifeline,       \* obj -> [PendingPointer, EarliestOpenRequest]
    pendingRecords, \* obj -> idx.objectMeta.PendingRecords
    recStore,       \* PendingFilament meta-records persisted in the record store
    buckets,        \* pn -> obj -> pendingMeta (with its RWMutex) or Nil
    idxLock,        \* obj -> the index RWMutex: [w : writer, r : readers]
    pc,             \* thread -> where it is in its operation
    op,             \* thread -> [name, pn, obj, req] of its operation
    opened,         \* history: requests SetRequest accepted
    closed,         \* history: requests a SetResult accepted a result for
    notified,       \* history: <<obj, pn>> an AbandonedRequestsNotification was sent for
    cleaned,        \* pulses DeleteForPN was called for
    orphan          \* pn -> obj -> a bucket DeleteForPN dropped from the map
                    \*   while callers still held a pointer to it

vars == <<curPN, lifeline, pendingRecords, recStore, buckets, idxLock, pc, op,
          opened, closed, notified, cleaned, orphan>>

NoLock == [w |-> Nil, r |-> {}]

\* createPendingBucket: a fresh pendingMeta, its RWMutex unlocked.
NewBucket ==
    [isStateCalculated |-> FALSE, fullFilament |-> <<>>,
     notClosedRequestsIds |-> <<>>,
     notClosedRequestsIdsIndex |-> [p \in {} |-> {}],
     w |-> Nil, r |-> 0]

Init ==
    /\ curPN = 1
    /\ lifeline = [o \in Objects |-> [PendingPointer |-> Nil, EarliestOpenRequest |-> Nil]]
    /\ pendingRecords = [o \in Objects |-> <<>>]
    /\ recStore = {}
    /\ buckets = [p \in Pulses |-> [o \in Objects |-> Nil]]
    /\ idxLock = [o \in Objects |-> NoLock]
    /\ pc = [t \in Threads |-> "idle"]
    /\ op = [t \in Threads |-> [name |-> "none", pn |-> 1, obj |-> CHOOSE o \in Objects : TRUE,
                                req |-> Nil, stale |-> FALSE]]
    /\ opened = {} /\ closed = {} /\ notified = {}
    /\ cleaned = {}
    /\ orphan = [p \in Pulses |-> [o \in Objects |-> Nil]]

-----------------------------------------------------------------------------
(* Helpers                                                                 *)

\* The bucket caller t holds a pointer to: the one in the map, or the one
\* DeleteForPN dropped after t looked it up.
Bkt(t) == IF op[t].stale THEN orphan[op[t].pn][op[t].obj]
          ELSE buckets[op[t].pn][op[t].obj]
SetBkt(t, b) ==
    IF op[t].stale
    THEN orphan' = [orphan EXCEPT ![op[t].pn][op[t].obj] = b] /\ UNCHANGED buckets
    ELSE buckets' = [buckets EXCEPT ![op[t].pn][op[t].obj] = b] /\ UNCHANGED orphan
Done(t) == pc' = [pc EXCEPT ![t] = "idle"]
Goto(t, l) == pc' = [pc EXCEPT ![t] = l]

\* addMetaIDToFilament: extend every chain link of pulse pn, or append one.
addMetaIDToFilament(fil, pn, m) ==
    IF \E i \in 1..Len(fil) : fil[i].PN = pn
    THEN [i \in 1..Len(fil) |->
            IF fil[i].PN = pn
            THEN [fil[i] EXCEPT !.MetaRecordsIDs = Append(@, m)] ELSE fil[i]]
    ELSE Append(fil, [PN |-> pn, MetaRecordsIDs |-> <<m>>])

\* notClosedRequestsIdsIndex[pn][id] = struct{}{} (creating the pulse key).
AddOpen(idx, pn, r) ==
    IF pn \in DOMAIN idx THEN [idx EXCEPT ![pn] = @ \cup {r}]
    ELSE (pn :> {r}) @@ idx

\* firstPending: the meta-record the bucket's first chain link starts with.
firstPending(b) ==
    IF Len(b.fullFilament) = 0 \/ Len(b.fullFilament[1].MetaRecordsIDs) = 0
    THEN Nil ELSE b.fullFilament[1].MetaRecordsIDs[1]

\* setFilament: append a chain link for filPN and sort the links by pulse.
setFilament(fil, filPN, recs) ==
    SortSeq(Append(fil, [PN |-> filPN, MetaRecordsIDs |-> recs]),
            LAMBDA x, y : x.PN < y.PN)

\* Mutant: a request older than the pending pointer is let through.
NeverFromThePast(lfl, r) == FALSE

\* SetRequest's check: a request from the past of the pending pointer.
RequestFromThePast(lfl, r) ==
    lfl.PendingPointer # Nil /\ r.pulse < lfl.PendingPointer.pn

\* Mutant: the closed request is left in the flat list.
CloseKeepsList(ids, r) == ids

\* SetResult's removal of the request from notClosedRequestsIds.
CloseInList(ids, r) == RemoveFirst(ids, r)

\* Mutant: EarliestOpenRequest is never reset.
EarliestKept(open, eor) == eor

\* SetResult: no open request left in the bucket clears EarliestOpenRequest.
EarliestAfterResult(open, eor) == IF Len(open) = 0 THEN Nil ELSE eor

\* Mutant: an early return that skips the deferred pb.Unlock().
UnlockForgotten(b) == b

\* The deferred pb.Unlock() of a writer.
UnlockBucket(b) == [b EXCEPT !.w = Nil]

\* Mutant: the read lock is released twice.
RUnlockTwice(b) == [b EXCEPT !.r = @ - 2]

\* The deferred pb.RUnlock() of a reader.
RUnlockBucket(b) == [b EXCEPT !.r = @ - 1]

-----------------------------------------------------------------------------
(* Starting an operation: the arguments a handler passes, with pn = curPN. *)

Call(t, name, o, r, next) ==
    /\ pc[t] = "idle"
    /\ name \in Ops
    /\ op' = [op EXCEPT ![t] = [name |-> name, pn |-> curPN, obj |-> o, req |-> r,
                                 stale |-> FALSE]]
    /\ Goto(t, next)

\* A request id is registered once, in the pulse it was created in.
Issued == {op[t].req : t \in {u \in Threads : op[u].name = "SetRequest"}} \cup opened

StartSetRequest(t) ==
    \E o \in Objects, n \in 1..ReqsPerPulse :
        LET r == [obj |-> o, pulse |-> curPN, n |-> n] IN
        /\ r \notin Issued
        /\ Call(t, "SetRequest", o, r, "lockIdx")

\* A result for a registered request that has none yet; two callers may
\* deliver the same result concurrently.
StartSetResult(t) ==
    \E r \in opened \ closed : Call(t, "SetResult", r.obj, r, "lockIdx")

StartGather(t) ==
    \E o \in Objects : Call(t, "Gather", o, Nil, "lockIdx")

StartSendAbandonedNotification(t) ==
    \E o \in Objects : Call(t, "SendAbandonedNotification", o, Nil, "rlockIdx")

\* Records and OpenRequestsForObjID return ErrLifelineNotFound without a
\* bucket; that return changes nothing and is left out.
StartRecords(t) ==
    \E o \in Objects :
        /\ buckets[curPN][o] # Nil
        /\ buckets[curPN][o].r < MaxLeakedReaders
        /\ Call(t, "Records", o, Nil, "rlockIdx")

StartOpenRequestsForObjID(t) ==
    \E o \in Objects :
        /\ buckets[curPN][o] # Nil
        /\ Call(t, "OpenRequestsForObjID", o, Nil, "rlockPb")

Start(t) ==
    /\ UNCHANGED <<curPN, cleaned, lifeline, pendingRecords, recStore, buckets, orphan, idxLock,
                   opened, closed, notified>>
    /\ \/ StartSetRequest(t) \/ StartSetResult(t) \/ StartGather(t)
       \/ StartSendAbandonedNotification(t) \/ StartRecords(t)
       \/ StartOpenRequestsForObjID(t)

-----------------------------------------------------------------------------
(* Lock waits.  A wait is enabled when Go's RWMutex would let it through.  *)

\* idx.Lock(), then pendingBucket / createPendingBucket under bucketsLock.
LockIdx(t) ==
    LET o == op[t].obj IN
    /\ pc[t] = "lockIdx"
    /\ idxLock[o] = NoLock
    /\ idxLock' = [idxLock EXCEPT ![o].w = t]
    /\ IF Bkt(t) = Nil THEN SetBkt(t, NewBucket) ELSE UNCHANGED <<buckets, orphan>>
    /\ Goto(t, "lockPb")
    /\ UNCHANGED <<curPN, cleaned, lifeline, pendingRecords, recStore, op, opened, closed, notified>>

\* pb.Lock()
LockPb(t) ==
    /\ pc[t] = "lockPb"
    /\ Bkt(t).w = Nil /\ Bkt(t).r = 0
    /\ SetBkt(t, [Bkt(t) EXCEPT !.w = t])
    /\ Goto(t, "body")
    /\ UNCHANGED <<curPN, cleaned, lifeline, pendingRecords, recStore, idxLock, op, opened, closed, notified>>

\* idx.RLock()
RLockIdx(t) ==
    LET o == op[t].obj IN
    /\ pc[t] = "rlockIdx"
    /\ idxLock[o].w = Nil
    /\ idxLock' = [idxLock EXCEPT ![o].r = @ \cup {t}]
    /\ Goto(t, IF op[t].name = "Records" THEN "rlockPb" ELSE "body")
    /\ UNCHANGED <<curPN, cleaned, lifeline, pendingRecords, recStore, buckets, orphan, op, opened, closed, notified>>

\* b.RLock() / pb.RLock()
RLockPb(t) ==
    /\ pc[t] = "rlockPb"
    /\ Bkt(t).w = Nil
    /\ SetBkt(t, [Bkt(t) EXCEPT !.r = @ + 1])
    /\ Goto(t, "body")
    /\ UNCHANGED <<curPN, cleaned, lifeline, pendingRecords, recStore, idxLock, op, opened, closed, notified>>

\* The deferred idx.Unlock() and pb.Unlock() of a writer.
ReleaseIdx(t) == idxLock' = [idxLock EXCEPT ![op[t].obj].w = Nil]

-----------------------------------------------------------------------------
(* The operations, each the work done under its locks.                     *)

\* SetRequest: reject a request older than the pending pointer, else write
\* the PendingFilament meta-record, move the pending pointer to it, set the
\* earliest open request if unset, and add the request to the bucket.
SetRequest(t) ==
    LET o == op[t].obj  pn == op[t].pn  r == op[t].req
        lfl == lifeline[o]  b == Bkt(t)
        m == [pn |-> pn, rec |-> r, prev |-> lfl.PendingPointer]
    IN
    /\ pc[t] = "body" /\ op[t].name = "SetRequest"
    /\ ReleaseIdx(t) /\ Done(t)
    /\ \/ /\ RequestFromThePast(lfl, r)
          /\ SetBkt(t, UnlockBucket(b))
          /\ UNCHANGED <<lifeline, pendingRecords, recStore, opened>>
       \/ /\ ~RequestFromThePast(lfl, r)
          /\ recStore' = recStore \cup {m}
          /\ pendingRecords' = [pendingRecords EXCEPT ![o] = Append(@, m)]
          /\ lifeline' = [lifeline EXCEPT ![o] =
                [PendingPointer |-> m,
                 EarliestOpenRequest |-> IF lfl.EarliestOpenRequest = Nil
                                         THEN pn ELSE lfl.EarliestOpenRequest]]
          /\ SetBkt(t, [b EXCEPT
                !.fullFilament = addMetaIDToFilament(@, pn, m),
                !.notClosedRequestsIdsIndex = AddOpen(@, pn, r),
                !.notClosedRequestsIds = Append(@, r),
                !.w = Nil])
          /\ opened' = opened \cup {r}
    /\ UNCHANGED <<curPN, cleaned, op, closed, notified>>

\* SetResult: a result is known only if the bucket has open requests of the
\* request's pulse; then its meta-record is written (the pending pointer is
\* left alone), the request leaves both open views, and the earliest open
\* request is cleared when the bucket's flat list is empty.
SetResult(t) ==
    LET o == op[t].obj  pn == op[t].pn  r == op[t].req
        lfl == lifeline[o]  b == Bkt(t)
        m == [pn |-> pn, rec |-> [res |-> r], prev |-> lfl.PendingPointer]
        open == CloseInList(b.notClosedRequestsIds, r)
    IN
    /\ pc[t] = "body" /\ op[t].name = "SetResult"
    /\ ReleaseIdx(t) /\ Done(t)
    /\ \/ /\ r.pulse \notin DOMAIN b.notClosedRequestsIdsIndex
          /\ SetBkt(t, UnlockBucket(b))
          /\ UNCHANGED <<lifeline, recStore, closed>>
       \/ /\ r.pulse \in DOMAIN b.notClosedRequestsIdsIndex
          /\ recStore' = recStore \cup {m}
          /\ SetBkt(t, [b EXCEPT
                !.fullFilament = addMetaIDToFilament(@, pn, m),
                !.notClosedRequestsIdsIndex[r.pulse] = @ \ {r},
                !.notClosedRequestsIds = open,
                !.w = Nil])
          /\ lifeline' = [lifeline EXCEPT ![o].EarliestOpenRequest =
                            EarliestAfterResult(open, @)]
          /\ closed' = closed \cup {r}
    /\ UNCHANGED <<curPN, cleaned, pendingRecords, op, opened, notified>>

\* fillPendingFilament on the local path (this node was the object's
\* previous executor): the PendingFilament payload is built from the
\* object's own pending records, setFilament stores it at destPN, and the
\* first record has no predecessor, so the loop ends after one round.
fillPendingFilament(fil, destPN, recs) == setFilament(fil, destPN, recs)

\* Gather returns at once when the state is calculated, there is no pending
\* pointer or open request, or the earliest open request is of this pulse.
GatherShortCircuit(b, lfl, pn) ==
    \/ b.isStateCalculated
    \/ lfl.PendingPointer = Nil
    \/ lfl.EarliestOpenRequest = Nil
    \/ lfl.EarliestOpenRequest = pn

\* Gather, past the short circuits: fillPendingFilament reads the chain from
\* the pulse before the bucket's first pending (the local path, where this
\* node was the object's previous executor: the records are the lifeline's
\* pending records, whose first has no predecessor, so the loop stops after
\* one setFilament), and then refresh waits for pb.Lock() -- which this
\* thread holds.
Gather(t) ==
    LET o == op[t].obj  pn == op[t].pn  lfl == lifeline[o]  b == Bkt(t)
        fp == firstPending(b)
        destPN == IF fp = Nil \/ fp.prev = Nil THEN lfl.PendingPointer.pn
                  ELSE fp.prev.pn
    IN
    /\ pc[t] = "body" /\ op[t].name = "Gather"
    /\ \/ /\ GatherShortCircuit(b, lfl, pn)
          /\ ReleaseIdx(t) /\ Done(t)
          /\ SetBkt(t, UnlockBucket(b))
       \/ /\ ~GatherShortCircuit(b, lfl, pn)
          /\ SetBkt(t, [b EXCEPT !.fullFilament =
                          fillPendingFilament(@, destPN, pendingRecords[o])])
          /\ Goto(t, "refresh")
          /\ UNCHANGED idxLock
    /\ UNCHANGED <<curPN, cleaned, lifeline, pendingRecords, recStore, op, opened, closed, notified>>

\* SendAbandonedNotification, under idx.RLock: notify when the earliest open
\* request is not younger than two pulses back (Backwards(pn, 2)); the bus
\* Send is made while the read lock is held.
SendAbandonedNotification(t) ==
    LET o == op[t].obj  pn == op[t].pn
        eor == lifeline[o].EarliestOpenRequest
        send == eor # Nil /\ pn - 2 >= 1 /\ pn - 2 >= eor
    IN
    /\ pc[t] = "body" /\ op[t].name = "SendAbandonedNotification"
    /\ \/ /\ ~send
          /\ idxLock' = [idxLock EXCEPT ![o].r = @ \ {t}]
          /\ Done(t)
          /\ UNCHANGED notified
       \/ /\ send
          /\ notified' = notified \cup {<<o, pn>>}
          /\ Goto(t, "send")
          /\ UNCHANGED idxLock
    /\ UNCHANGED <<curPN, cleaned, lifeline, pendingRecords, recStore, buckets, orphan, op, opened, closed>>

\* The bus reply (OK or not) arrives; the deferred idx.RUnlock() runs.
AbandonedReply(t) ==
    /\ pc[t] = "send"
    /\ idxLock' = [idxLock EXCEPT ![op[t].obj].r = @ \ {t}]
    /\ Done(t)
    /\ UNCHANGED <<curPN, cleaned, lifeline, pendingRecords, recStore, buckets, orphan, op, opened, closed, notified>>

\* Records reads the pending records under idx.RLock and b.RLock; its
\* deferred calls are idx.RUnlock() and b.RLock(): the bucket is left with
\* the read lock taken twice and released never.
Records(t) ==
    /\ pc[t] = "body" /\ op[t].name = "Records"
    /\ Bkt(t).w = Nil
    /\ SetBkt(t, [Bkt(t) EXCEPT !.r = @ + 1])
    /\ idxLock' = [idxLock EXCEPT ![op[t].obj].r = @ \ {t}]
    /\ Done(t)
    /\ UNCHANGED <<curPN, cleaned, lifeline, pendingRecords, recStore, op, opened, closed, notified>>

\* OpenRequestsForObjID reads the flat open list under pb.RLock.
OpenRequestsForObjID(t) ==
    /\ pc[t] = "body" /\ op[t].name = "OpenRequestsForObjID"
    /\ SetBkt(t, RUnlockBucket(Bkt(t)))
    /\ Done(t)
    /\ UNCHANGED <<curPN, cleaned, lifeline, pendingRecords, recStore, idxLock, op, opened, closed, notified>>

\* Caller t holds a bucket pointer: Records and OpenRequestsForObjID from
\* their start, the writers from pendingBucket/createPendingBucket on.
HoldsBucket(t) ==
    \/ pc[t] \in {"lockPb", "rlockPb", "refresh"}
    \/ pc[t] = "body" /\ op[t].name # "SendAbandonedNotification"
    \/ pc[t] = "rlockIdx" /\ op[t].name = "Records"

\* DeleteForPN(p), called once per pulse by the cleaner for a pulse
\* LightChainLimit behind: delete(i.buckets, pn) under bucketsLock.  A
\* caller of pulse p that already holds a bucket keeps working on it.
DeleteForPN ==
    /\ "DeleteForPN" \in Ops
    /\ \E p \in Pulses \ cleaned :
        /\ p + LightChainLimit <= curPN
        /\ cleaned' = cleaned \cup {p}
        /\ orphan' = [orphan EXCEPT ![p] = buckets[p]]
        /\ buckets' = [buckets EXCEPT ![p] = [o \in Objects |-> Nil]]
        /\ op' = [t \in Threads |->
                    IF op[t].pn = p /\ HoldsBucket(t)
                    THEN [op[t] EXCEPT !.stale = TRUE] ELSE op[t]]
    /\ UNCHANGED <<curPN, lifeline, pendingRecords, recStore, idxLock, pc, opened, closed, notified>>

\* A new pulse from the pulse manager.
NextPulse ==
    /\ curPN < MaxPulse
    /\ curPN' = curPN + 1
    /\ UNCHANGED <<lifeline, pendingRecords, recStore, buckets, orphan, idxLock, pc, op, opened, closed,
                   notified, cleaned>>

Step(t) ==
    \/ Start(t) \/ LockIdx(t) \/ LockPb(t) \/ RLockIdx(t) \/ RLockPb(t)
    \/ SetRequest(t) \/ SetResult(t) \/ Gather(t)
    \/ SendAbandonedNotification(t) \/ AbandonedReply(t)
    \/ Records(t) \/ OpenRequestsForObjID(t)

Next == NextPulse \/ DeleteForPN \/ \E t \in Threads : Step(t)

\* Go's sync.RWMutex hands a lock to a waiter that keeps being able to take
\* it (starvation mode), so lock waits are strongly fair; the work under a
\* lock and a bus reply are weakly fair.  Callers need not start work and
\* pulses need not come.
Fairness ==
    \A t \in Threads :
        /\ SF_vars(LockIdx(t)) /\ SF_vars(LockPb(t))
        /\ SF_vars(RLockIdx(t)) /\ SF_vars(RLockPb(t))
        /\ WF_vars(SetRequest(t)) /\ WF_vars(SetResult(t)) /\ WF_vars(Gather(t))
        /\ WF_vars(SendAbandonedNotification(t)) /\ WF_vars(AbandonedReply(t))
        /\ WF_vars(Records(t)) /\ WF_vars(OpenRequestsForObjID(t))

Spec == Init /\ [][Next]_vars
FairSpec == Spec /\ Fairness

-----------------------------------------------------------------------------
(* Properties                                                              *)

TypeOK ==
    /\ curPN \in Pulses
    /\ \A o \in Objects :
        /\ lifeline[o].PendingPointer \in recStore \cup {Nil}
        /\ lifeline[o].EarliestOpenRequest \in Pulses \cup {Nil}
        /\ \A i \in 1..Len(pendingRecords[o]) : pendingRecords[o][i] \in recStore
        /\ idxLock[o].w \in Threads \cup {Nil} /\ idxLock[o].r \subseteq Threads
    /\ \A m \in recStore : m.pn \in Pulses /\ m.rec \in ReqID \cup ResID
                           /\ m.prev \in recStore \cup {Nil}
    /\ \A p \in Pulses, o \in Objects : buckets[p][o] # Nil =>
        /\ buckets[p][o].w \in Threads \cup {Nil} /\ buckets[p][o].r \in Nat
        /\ DOMAIN buckets[p][o].notClosedRequestsIdsIndex \subseteq Pulses
    /\ pc \in [Threads -> {"idle", "lockIdx", "lockPb", "rlockIdx", "rlockPb",
                           "body", "refresh", "send"}]
    /\ opened \subseteq ReqID /\ closed \subseteq opened

\* The requests of object o that were accepted and never got a result.
Open(o) == {r \in opened \ closed : r.obj = o}

\* The pending chain of a meta-record: it and its predecessors, newest first.
RECURSIVE Chain(_)
Chain(m) == IF m = Nil THEN <<>> ELSE <<m>> \o Chain(m.prev)

\* Spec, Lifeline invariant: if EarliestOpenRequest is set, a request of that
\* pulse is still open (SetRequest sets it, SetResult clears it on an empty
\* flat list).  Violating it takes a request and a result, often from
\* callers of different pulses.
EarliestOpenRequestSound ==
    \A o \in Objects :
        lifeline[o].EarliestOpenRequest # Nil =>
            \E r \in Open(o) : r.pulse = lifeline[o].EarliestOpenRequest

\* The pending chain that other lights walk backwards from PendingPointer
\* (SetRequest links each meta-record to the pointer read under idx.Lock,
\* and rejects a request from the past) holds exactly the object's accepted
\* requests, and its pulses never grow going back.
PendingChainComplete ==
    \A o \in Objects :
        LET c == Chain(lifeline[o].PendingPointer) IN
        /\ {c[i].rec : i \in 1..Len(c)} = {r \in opened : r.obj = o}
        /\ \A i \in 1..Len(c) - 1 : c[i + 1].pn <= c[i].pn

\* Every live bucket of a pulse p the cleaner has not dropped tracks, in
\* both of its open views (the flat list OpenRequestsForObjID reads and the
\* per-pulse index SetResult checks), exactly the open requests of its
\* object created in pulse p, each once.
BucketTracksOpenRequests ==
    \A p \in Pulses \ cleaned, o \in Objects :
        LET b == buckets[p][o]
            mine == {r \in Open(o) : r.pulse = p}
        IN b # Nil =>
            /\ ToSet(b.notClosedRequestsIds) = mine
            /\ Len(b.notClosedRequestsIds) = Cardinality(mine)
            /\ UNION {b.notClosedRequestsIdsIndex[q] : q \in DOMAIN b.notClosedRequestsIdsIndex} = mine

\* Spec 4.G: EarliestOpenRequest is the pulse of the earliest still-open
\* request, and Gather and SendAbandonedNotification rely on it being set
\* whenever a request of the object is open.
OpenRequestsTracked ==
    \A o \in Objects :
        Open(o) # {} =>
            /\ lifeline[o].EarliestOpenRequest # Nil
            /\ \A r \in Open(o) : lifeline[o].EarliestOpenRequest <= r.pulse

\* Every operation a caller starts returns: no caller of the cache waits
\* forever on the index lock, the bucket lock or the bus.
OperationsReturn ==
    \A t \in Threads : pc[t] # "idle" ~> pc[t] = "idle"

=============================================================================
