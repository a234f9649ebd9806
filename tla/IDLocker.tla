------------------------------ MODULE IDLocker ------------------------------
(***************************************************************************)
(* idLocker in src/ledger/storage/lock.go: a map from record id to a       *)
(* reference-counted RWMutex, guarded by l.mu.                             *)
(*                                                                         *)
(* Each thread loops: Lock or RLock an id, then Unlock or RUnlock it.      *)
(* Lock and RLock are two steps: the l.mu section (create the entry if     *)
(* absent, count++), and the wait on the entry's mutex, through the        *)
(* pointer read under l.mu.  Unlock and RUnlock are one l.mu section.      *)
(* A mutex object is a number of Objs; a fresh one is any object that      *)
(* neither the map nor a thread refers to.                                 *)
(***************************************************************************)
EXTENDS Naturals, FiniteSets, TLC

CONSTANTS Ids, Threads, Nil

Modes == {"W", "R"}
Objs == 1..(Cardinality(Ids) + Cardinality(Threads))

VARIABLES
    muxs,   \* l.muxs: id -> [obj, count] for the ids in its domain
    mutex,  \* obj -> [w : writer holding rw.w or Nil, r : set of readers]
    pc,     \* thread -> "idle", "wait" (for the mutex), "drain", "held"
    tid,    \* thread -> the id it works on
    mode,   \* thread -> "W" (Lock/Unlock) or "R" (RLock/RUnlock)
    obj     \* thread -> the mucount pointer it read under l.mu, or Nil

vars == <<muxs, mutex, pc, tid, mode, obj>>

Init ==
    /\ muxs = [id \in {} |-> Nil]
    /\ mutex = [o \in Objs |-> [w |-> Nil, r |-> {}]]
    /\ pc = [t \in Threads |-> "idle"]
    /\ tid = [t \in Threads |-> CHOOSE id \in Ids : TRUE]
    /\ mode = [t \in Threads |-> "W"]
    /\ obj = [t \in Threads |-> Nil]

\* Objects the map or a thread still refers to.
Live == ({muxs[id].obj : id \in DOMAIN muxs} \cup {obj[t] : t \in Threads}) \ {Nil}

\* Mutant: count++ is dropped.
IncrNot(c) == c

\* mc.count++
Incr(c) == c + 1

\* Mutant: count is decremented twice.
DecrTwice(c) == c - 2

\* mc.count--
Decr(c) == c - 1

\* Mutant: the entry is dropped while one more user still counts on it.
DrainedEarly(c) == c <= 1

\* if mc.count == 0 { delete(l.muxs, *id) }
Drained(c) == c = 0

\* Mutant: Unlock/RUnlock forgets mc.Unlock()/mc.RUnlock().
ReleaseForgotten(m, t) == m

\* mc.Unlock() / mc.RUnlock()
ReleaseMutex(m, t) ==
    IF mode[t] = "W" THEN [m EXCEPT !.w = Nil] ELSE [m EXCEPT !.r = @ \ {t}]

\* Lock / RLock, the l.mu section: look the id up, create a fresh entry if
\* absent, count++, keep the pointer.
LockEnter(t, id, m) ==
    LET o == IF id \in DOMAIN muxs THEN muxs[id].obj
             ELSE CHOOSE x \in Objs \ Live : TRUE
        c == IF id \in DOMAIN muxs THEN muxs[id].count ELSE 0
    IN
    /\ pc[t] = "idle"
    /\ id \in DOMAIN muxs \/ Objs \ Live # {}
    /\ muxs' = (id :> [obj |-> o, count |-> Incr(c)]) @@ muxs
    /\ pc' = [pc EXCEPT ![t] = "wait"]
    /\ tid' = [tid EXCEPT ![t] = id]
    /\ mode' = [mode EXCEPT ![t] = m]
    /\ obj' = [obj EXCEPT ![t] = o]
    /\ UNCHANGED mutex

\* mc.Lock() on the pointer read under l.mu, first half: take the writer
\* slot (rw.w), which from then on turns new readers away.
LockAcquire(t) ==
    LET o == obj[t] IN
    /\ pc[t] = "wait" /\ mode[t] = "W"
    /\ mutex[o].w = Nil
    /\ mutex' = [mutex EXCEPT ![o].w = t]
    /\ pc' = [pc EXCEPT ![t] = "drain"]
    /\ UNCHANGED <<muxs, tid, mode, obj>>

\* mc.Lock(), second half: wait for the readers already in to leave.
LockDrained(t) ==
    /\ pc[t] = "drain"
    /\ mutex[obj[t]].r = {}
    /\ pc' = [pc EXCEPT ![t] = "held"]
    /\ UNCHANGED <<muxs, mutex, tid, mode, obj>>

\* mc.RLock() on the pointer read under l.mu: no writer holds or waits.
RLockAcquire(t) ==
    LET o == obj[t] IN
    /\ pc[t] = "wait" /\ mode[t] = "R"
    /\ mutex[o].w = Nil
    /\ mutex' = [mutex EXCEPT ![o].r = @ \cup {t}]
    /\ pc' = [pc EXCEPT ![t] = "held"]
    /\ UNCHANGED <<muxs, tid, mode, obj>>

\* Unlock / RUnlock under l.mu: look the id up (panic if absent), count--,
\* release the entry's mutex, delete the entry when the count is zero.
Unlock(t) ==
    LET id == tid[t]  e == muxs[id]  c == Decr(e.count) IN
    /\ pc[t] = "held"
    /\ id \in DOMAIN muxs
    /\ mutex' = [mutex EXCEPT ![e.obj] = ReleaseMutex(@, t)]
    /\ muxs' = IF Drained(c) THEN [x \in DOMAIN muxs \ {id} |-> muxs[x]]
               ELSE [muxs EXCEPT ![id].count = c]
    /\ pc' = [pc EXCEPT ![t] = "idle"]
    /\ obj' = [obj EXCEPT ![t] = Nil]
    /\ UNCHANGED <<tid, mode>>

Next ==
    \E t \in Threads :
        \/ \E id \in Ids, m \in Modes : LockEnter(t, id, m)
        \/ LockAcquire(t) \/ LockDrained(t) \/ RLockAcquire(t)
        \/ Unlock(t)

\* Go's RWMutex: the writer slot is a sync.Mutex, which hands itself to a
\* long waiter, and Unlock lets the blocked readers in before the next
\* writer, so taking the slot and read-locking are strongly fair; a writer
\* holding the slot keeps new readers out, so draining is weakly fair; a
\* holder unlocks (weak fairness); a thread need not lock at all.
Fairness ==
    \A t \in Threads :
        /\ SF_vars(LockAcquire(t)) /\ WF_vars(LockDrained(t))
        /\ SF_vars(RLockAcquire(t)) /\ WF_vars(Unlock(t))

Spec == Init /\ [][Next]_vars
FairSpec == Spec /\ Fairness

-----------------------------------------------------------------------------
(* Properties                                                              *)

TypeOK ==
    /\ DOMAIN muxs \subseteq Ids
    /\ \A id \in DOMAIN muxs : muxs[id].obj \in Objs
                               /\ muxs[id].count \in 0..Cardinality(Threads)
    /\ pc \in [Threads -> {"idle", "wait", "drain", "held"}]
    /\ obj \in [Threads -> Objs \cup {Nil}]

\* Threads that called Lock/RLock on id and have not yet unlocked it.
Users(id) == {t \in Threads : pc[t] # "idle" /\ tid[t] = id}

\* The reference count of an entry is the number of its users, every user
\* points at the map's entry, and an id nobody uses has no entry ("#Lock =
\* #Unlock at quiescence implies no entry"): nothing leaks, and a waiter's
\* entry is never deleted under it.
MapBalanced ==
    \A id \in Ids :
        IF Users(id) = {} THEN id \notin DOMAIN muxs
        ELSE /\ id \in DOMAIN muxs
             /\ muxs[id].count = Cardinality(Users(id))
             /\ \A t \in Users(id) : obj[t] = muxs[id].obj

\* The per-id lock promised by the interface, seen through the threads
\* past mc.Lock()/mc.RLock().
AbsIDLock == INSTANCE IDLockSpec
    WITH hold <- [t \in Threads |-> IF pc[t] = "held" THEN <<tid[t], mode[t]>> ELSE Nil]

\* idLocker implements IDLockSpec: every mutex acquisition is one the
\* per-id lock allows, though entries are created and deleted as threads
\* come and go.
ImplementsIDLockSpec == AbsIDLock!Spec

\* Every Lock and RLock call returns.
LocksAcquired == \A t \in Threads : pc[t] \in {"wait", "drain"} ~> pc[t] = "held"
=============================================================================
