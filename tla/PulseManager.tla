---------------------------- MODULE PulseManager ----------------------------
(***************************************************************************)
(* The pulse tick of a light material node: PulseManager in               *)
(* src/ledger/pulsemanager/pulsemanager.go.                                *)
(*                                                                         *)
(* Actors:                                                                 *)
(*  - the network, which calls Set(newPulse, persist) once per pulse;      *)
(*  - a caller of Stop;                                                    *)
(*  - message handlers in Readers, which read the current pulse from the   *)
(*    pulse storage under its read lock;                                   *)
(*  - the cleanLightData goroutines that Set starts, one per tick, named   *)
(*    by the pulse of that tick;                                           *)
(*  - the processEndPulse goroutines of a tick, one per jet;               *)
(*  - a message handler that registers open requests on the jets this     *)
(*    node executes (the pending storages that hot data hands over).      *)
(*                                                                         *)
(* The pulse tracker, node storage and jet storage are not under src/;    *)
(* they are modelled from the design: the tracker keeps a record per      *)
(* pulse linking to the previous one, node and jet storage keep a roster   *)
(* and a tree per pulse.  Pulse numbers are 1..MaxPulse; 0 stands for     *)
(* "none" (NotFound, a nil pointer).  Every call of these stores that can *)
(* fail is in Failures when the run lets it fail.                          *)
(***************************************************************************)
EXTENDS Naturals, FiniteSets, Sequences, TLC

CONSTANTS
    MaxPulse,         \* the network delivers pulses 1..MaxPulse in order
    LightChainLimit,  \* storeLightPulses: how many pulses back the cleaner keeps
    Readers,          \* message handlers reading the current pulse
    Requests,         \* open requests handlers may register on jets
    SplitCount,       \* the initial value of the package-level splitCount
    Failures          \* calls that may return an error in this run

Pulses == 1..MaxPulse
None == 0
Root == <<>>   \* the zero jet: the empty prefix
FailurePoints == {"GetLatestPulse", "MoveSyncToActive", "AddPulse", "NodeSetter",
                  "ProcessJets", "NodesAll", "ProcessEndPulse"}

ASSUME Failures \subseteq FailurePoints /\ LightChainLimit \in Nat /\ SplitCount \in Nat

VARIABLES
    delivered,  \* the last pulse the network handed to Set
    arg,        \* [pulse, persist] of the Set in flight
    setPc,      \* where Set is
    old,        \* setUnderGilSection's oldPulse and prevPN
    setLock,    \* m.setLock: "free", or held by "set"
    stopped,    \* m.stopped
    stopPc,     \* the Stop caller: "idle", "waiting", "done"
    current,    \* m.currentPulse
    psLocked,   \* writer holds of the PulseStorage mutex (Go aborts below 0)
    psPulse,    \* the pulse the PulseStorage hands out
    tracker,    \* pulse tracker: pulse -> its previous pulse
    latest,     \* the tracker's latest pulse
    rosters,    \* pulses with a node roster in node storage
    tree,       \* jet storage: pulse -> the leaves of its jet tree
    splitLeft,  \* the package-level splitCount
    execOf,     \* <<jet, pulse>> -> this node is its light executor (asked so far)
    infos,      \* the jetInfos processJets returned in the tick in flight
    epPc,       \* processEndPulse goroutine of each jet of infos: where it is
    pending,    \* recent storage: jet -> the open requests in its pending storage
    hot,        \* HotData messages dispatched: [jet, pulse, reqs]
    unlocked,   \* HotDataWaiter.Unlock calls made: <<jet, pulse>>
    regPc,      \* the registering handler: "idle" or "add"
    regArg,     \* [req, jet, pulse] it is registering
    registered, \* history: the requests registered, with jet and pulse
    clPc,       \* cleanLightData goroutine of each tick: where it is
    clPn,       \* the pulse that goroutine is working on
    rdPc,       \* reader -> "idle" or "waiting"
    added,      \* history: pulses AddPulse stored
    rostered    \* history: pulses a roster was stored for

jetVars == <<tree, splitLeft, execOf, infos, epPc, pending, hot, unlocked>>
regVars == <<regPc, regArg, registered>>

vars == <<delivered, arg, setPc, old, setLock, stopped, stopPc, current,
          psLocked, psPulse, tracker, latest, rosters, jetVars, clPc, clPn,
          rdPc, added, rostered, regVars>>

setVars == <<delivered, arg, setPc, old, setLock, current, psLocked, psPulse,
             tracker, latest, rosters, jetVars, added, rostered>>

Init ==
    /\ delivered = 0
    /\ arg = [pulse |-> None, persist |-> FALSE]
    /\ setPc = "idle"
    /\ old = [pulse |-> None, prev |-> None]
    /\ setLock = "free"
    /\ stopped = FALSE
    /\ stopPc = "idle"
    /\ current = None
    /\ psLocked = 0
    /\ psPulse = None
    /\ tracker = [p \in {} |-> None]
    /\ latest = None
    /\ rosters = {}
    /\ tree = [p \in {} |-> {}]
    /\ splitLeft = SplitCount
    /\ execOf = [x \in {} |-> FALSE]
    /\ infos = {} /\ epPc = [j \in {} |-> "done"]
    /\ pending = [j \in {} |-> {}]
    /\ hot = {} /\ unlocked = {}
    /\ regPc = "idle"
    /\ regArg = [req |-> None, jet |-> Root, pulse |-> None]
    /\ registered = {}
    /\ clPc = [c \in Pulses |-> "none"]
    /\ clPn = [c \in Pulses |-> None]
    /\ rdPc = [r \in Readers |-> "idle"]
    /\ added = {} /\ rostered = {}

-----------------------------------------------------------------------------
(* Helpers, each the code it is named after.                               *)

\* Fails(c): the call c returns an error in this step.
Fails(c) == c \in Failures

\* Mutant: a return path that skips the deferred setLock.Unlock.
ReturnLocked == /\ setPc' = "idle" /\ setLock' = setLock

\* Set returns (its deferred setLock.Unlock runs).
Return == /\ setPc' = "idle" /\ setLock' = "free"

\* Mutant: the stopped flag is not checked.
NeverRefused(s) == FALSE

\* Set: "can't call Set method on PulseManager after stop".
SetRefused(s) == s

\* Mutant: an error path unlocks the pulse storage it already unlocked.
UnlockTwice(l) == l - 2

\* Mutant: an error path forgets m.PulseStorage.Unlock().
UnlockForgotten(l) == l

\* m.PulseStorage.Unlock()
PSUnlock(l) == l - 1

\* PulseTracker.GetNthPrevPulse(n, from): from's record, then n links back.
RECURSIVE NthPrev(_, _)
NthPrev(n, from) ==
    IF from \notin DOMAIN tracker THEN None
    ELSE IF n = 0 THEN from
    ELSE NthPrev(n - 1, tracker[from])

\* Mutant: the cleaner deletes the pulse it found rather than the one before.
CleanTargetSame(pn) == pn

\* PulseTracker.GetPreviousPulse(pn): pn's record's Prev, or NotFound.
CleanTarget(pn) == IF pn \in DOMAIN tracker THEN tracker[pn] ELSE None

-----------------------------------------------------------------------------
(* Set                                                                      *)

\* The network calls Set with the next pulse.
Deliver ==
    /\ setPc = "idle" /\ delivered < MaxPulse
    /\ delivered' = delivered + 1
    /\ \E persist \in BOOLEAN :
        arg' = [pulse |-> delivered + 1, persist |-> persist]
    /\ setPc' = "setLock"
    /\ UNCHANGED <<old, setLock, current, psLocked, psPulse, tracker, latest,
                   rosters, jetVars, added, rostered>>

\* m.setLock.Lock(); after Stop the call fails at once.
SetAcquire ==
    /\ setPc = "setLock" /\ setLock = "free"
    /\ IF SetRefused(stopped)
       THEN setPc' = "idle" /\ UNCHANGED setLock
       ELSE setPc' = "gil" /\ setLock' = "set"
    /\ UNCHANGED <<delivered, arg, old, current, psLocked, psPulse, tracker,
                   latest, rosters, jetVars, added, rostered, clPc>>

\* setUnderGilSection up to m.PulseStorage.Unlock(): read the latest pulse,
\* swap the current pulse, MoveSyncToActive, and when persisting AddPulse
\* and store the working nodes' roster; then publish the pulse.  Each
\* failing call returns from Set.
UnderPulseStorageLock ==
    LET p == arg.pulse
        prev == IF latest = None THEN None ELSE tracker[latest]
        lockedL == psLocked + 1
    IN
    /\ setPc = "gil" /\ psLocked = 0
    /\ \/ /\ Fails("GetLatestPulse")
          /\ psLocked' = PSUnlock(lockedL)
          /\ Return
          /\ UNCHANGED <<current, tracker, latest, rosters, added, rostered, old, psPulse>>
       \/ /\ Fails("MoveSyncToActive")
          /\ current' = p
          /\ psLocked' = lockedL
          /\ Return
          /\ UNCHANGED <<tracker, latest, rosters, added, rostered, old, psPulse>>
       \/ /\ arg.persist /\ Fails("AddPulse")
          /\ current' = p
          /\ psLocked' = PSUnlock(lockedL)
          /\ Return
          /\ UNCHANGED <<tracker, latest, rosters, added, rostered, old, psPulse>>
       \/ /\ arg.persist /\ Fails("NodeSetter")
          /\ current' = p
          /\ tracker' = (p :> latest) @@ tracker
          /\ latest' = p /\ added' = added \cup {p}
          /\ psLocked' = PSUnlock(lockedL)
          /\ Return
          /\ UNCHANGED <<rosters, rostered, old, psPulse>>
       \/ /\ current' = p
          /\ IF arg.persist
             THEN /\ tracker' = (p :> latest) @@ tracker
                  /\ latest' = p /\ added' = added \cup {p}
                  /\ rosters' = rosters \cup {p} /\ rostered' = rostered \cup {p}
             ELSE UNCHANGED <<tracker, latest, added, rosters, rostered>>
          /\ psPulse' = p
          /\ psLocked' = PSUnlock(lockedL)
          /\ old' = [pulse |-> latest, prev |-> prev]
          /\ setPc' = "jets"
          /\ UNCHANGED setLock
    /\ UNCHANGED <<delivered, arg, jetVars, clPc>>

(* Jets.  A jet is a prefix of object ids, a sequence of bits (the zero   *)
(* jet is the empty prefix); a jet tree is the set of its leaves.  Jet    *)
(* storage, the jet coordinator and the recent storage are not under      *)
(* src/ and follow the design: the coordinator's answer for a jet and a   *)
(* pulse is a function of that pulse's roster, so the model draws it the  *)
(* first time it is asked and remembers it in execOf; a pulse without a   *)
(* roster answers NoNodes.  A pending storage is the set of the open      *)
(* requests a jet's handlers registered.                                  *)

Children(j) == {Append(j, 0), Append(j, 1)}
AllJets == UNION {[1..k -> {0, 1}] : k \in 0..SplitCount}

\* JetAccessor.All(new) after JetModifier.Clone(current, new): the leaves
\* of current's tree (a pulse with no tree has the zero jet alone).
Cloned(c) == IF c \in DOMAIN tree THEN tree[c] ELSE {Root}

\* LightExecutorForJet lookups of jets js in pulse p not asked before.
NewLookups(js, p) ==
    IF p \in rosters THEN {<<j, p>> : j \in js} \ DOMAIN execOf ELSE {}

\* LightExecutorForJet(j, p) == me, under the answers ex.
IsMe(ex, j, p) == p \in rosters /\ ex[<<j, p>>]

\* The jet at indexToSplit is split when this node executed it and the
\* package-level splitCount is still positive.
Succ(j, s) == IF j = s /\ splitLeft > 0 THEN Children(j) ELSE {j}

\* JetStorage.Split(new, s): s's leaf replaced by its two children.
SplitTree(leaves, s) == (leaves \ {s}) \cup Children(s)

\* processJets' loop, for the jets this node executed in c: a jetInfo per
\* jet with its successors in n and those this node executes next.
processJets(c, n, s, ex) ==
    {[id |-> j, split |-> j = s /\ splitLeft > 0, kids |-> Succ(j, s),
      mine |-> {x \in Succ(j, s) : IsMe(ex, x, n)}]
     : j \in {k \in Cloned(c) : IsMe(ex, k, c)}}

\* jetInfo.mineNext: set only on a jet that was not split.
MineNext(i) == ~i.split /\ i.id \in i.mine

\* rewriteHotData(parent, child) for every child of a split this node
\* executes next: ClonePendingStorage copies the parent's open requests
\* (the lifelines and index storage it copies are not modelled).
Pend(pd, j) == IF j \in DOMAIN pd THEN pd[j] ELSE {}
rewriteHotData(pd, is) ==
    [x \in UNION {i.mine : i \in {k \in is : k.split}} |->
        Pend(pd, (CHOOSE k \in is : x \in k.kids).id)] @@ pd

\* prepareArtifactManagerMessageHandlerForNextPulse: ThrowTimeout, then
\* HotDataWaiter.Unlock of every jet (or split child) this node executes
\* next.
prepareArtifactManager(is, n) == {<<x, n>> : x \in UNION {i.mine : i \in is}}

\* The rest of setUnderGilSection, after the pulse storage is unlocked.
\* When persisting with an old pulse: processJets (Clone, the loop; an
\* error in an executor lookup, Split or rewriteHotData returns it, after
\* the Clone and maybe the split); with an old and a previous pulse,
\* DecreaseIndexesTTL and prepareArtifactManager...; when persisting with
\* an old pulse, Nodes.All(old), and an empty roster activates and
\* unlocks the zero jet.  Back in Set, a tick that does not persist ends
\* here, and so does one whose old pulse has no previous pulse.
AfterPulseStorage ==
    LET c == old.pulse  n == arg.pulse
        doJets == arg.persist /\ c # None
        ends == arg.persist /\ c # None /\ old.prev # None
    IN
    /\ setPc = "jets"
    /\ \/ /\ ~doJets
          /\ infos' = {}
          /\ Return
          /\ UNCHANGED <<tree, splitLeft, execOf, pending, unlocked>>
       \/ /\ doJets
          /\ \E s \in Cloned(c), fc \in [NewLookups(Cloned(c), c) -> BOOLEAN] :
             LET exc == fc @@ execOf
                 splits == IsMe(exc, s, c) /\ splitLeft > 0
                 succs == UNION {Succ(j, s) : j \in {k \in Cloned(c) : IsMe(exc, k, c)}}
             IN
             /\ tree' = (n :> IF splits THEN SplitTree(Cloned(c), s) ELSE Cloned(c)) @@ tree
             /\ splitLeft' = IF splits THEN splitLeft - 1 ELSE splitLeft
             /\ \/ /\ Fails("ProcessJets")
                   /\ execOf' = exc /\ infos' = {}
                   /\ Return
                   /\ UNCHANGED <<pending, unlocked>>
                \/ \E fn \in [NewLookups(succs, n) -> BOOLEAN] :
                   LET is == processJets(c, n, s, fn @@ exc) IN
                   /\ execOf' = fn @@ exc
                   /\ infos' = is
                   /\ pending' = rewriteHotData(pending, is)
                   /\ \/ /\ Fails("NodesAll")
                         /\ Return
                         /\ unlocked' = IF old.prev # None
                                        THEN unlocked \cup prepareArtifactManager(is, n)
                                        ELSE unlocked
                      \/ /\ unlocked' = unlocked
                                \cup (IF old.prev # None THEN prepareArtifactManager(is, n) ELSE {})
                                \cup (IF c \notin rosters THEN {<<Root, n>>} ELSE {})
                         /\ IF ends THEN setPc' = "end" /\ UNCHANGED setLock ELSE Return
    /\ UNCHANGED <<delivered, arg, old, current, psLocked, psPulse, tracker,
                   latest, rosters, added, rostered, clPc, epPc, hot>>

\* processEndPulse's goroutines: one per jetInfo, joined by an errgroup.
EndPulse ==
    /\ setPc = "end"
    /\ epPc' = [j \in {i.id : i \in infos} |-> "drop"]
    /\ setPc' = "wait"
    /\ UNCHANGED <<delivered, arg, old, setLock, current, psLocked, psPulse,
                   tracker, latest, rosters, added, rostered, clPc, tree,
                   splitLeft, execOf, infos, pending, hot, unlocked>>

\* Mutant: the split branch sends nothing.
HotDataTargetsNoSplit(i) == IF i.split THEN {} ELSE i.kids \ i.mine

\* processEndPulse: "go sender" for the jet (no split) or each child that
\* another node executes next.
HotDataTargets(i) == i.kids \ i.mine

\* createDrop: DropModifier.Set and drop.Encode, either of which fails.
createDropFails == Fails("ProcessEndPulse")

\* getExecutorHotData: the jet's pending requests as they are now (the
\* lifelines of its recent objects are not modelled).
getExecutorHotData(pd, j) == Pend(pd, j)

\* The goroutine of jet j: createDrop (DropModifier.Set, Encode), whose
\* error it returns; getExecutorHotData, a snapshot of the jet's pending
\* storage; the senders, fire and forget ...
EPHotData(j) ==
    LET i == CHOOSE k \in infos : k.id = j IN
    /\ j \in DOMAIN epPc /\ epPc[j] = "drop"
    /\ \/ /\ createDropFails
          /\ epPc' = [epPc EXCEPT ![j] = "failed"]
          /\ UNCHANGED hot
       \/ /\ epPc' = [epPc EXCEPT ![j] = "remove"]
          /\ hot' = hot \cup {[jet |-> x, pulse |-> arg.pulse, reqs |-> getExecutorHotData(pending, j)]
                               : x \in HotDataTargets(i)}
    /\ UNCHANGED pending

\* ... and RemovePendingStorage(jet), whatever the jet's next executor.
EPRemove(j) ==
    /\ j \in DOMAIN epPc /\ epPc[j] = "remove"
    /\ pending' = [x \in DOMAIN pending \ {j} |-> pending[x]]
    /\ epPc' = [epPc EXCEPT ![j] = "done"]
    /\ UNCHANGED hot

\* A step of the goroutine of jet j.
EndPulseJob(j) ==
    /\ EPHotData(j) \/ EPRemove(j)
    /\ UNCHANGED <<delivered, arg, setPc, old, setLock, stopped, stopPc,
                   current, psLocked, psPulse, tracker, latest, rosters, tree,
                   splitLeft, execOf, infos, unlocked, clPc, clPn, rdPc, added,
                   rostered, regVars>>

\* postProcessJets: RemovePendingStorage of every jet whose info is not
\* mineNext.
postProcessJets(pd, is) ==
    [x \in DOMAIN pd \ {i.id : i \in {k \in is : ~MineNext(k)}} |-> pd[x]]

\* g.Wait(): the first error is the tick's; otherwise postProcessJets,
\* addSync, "go m.cleanLightData" and Bus.OnPulse, whose error is only
\* logged.
EndPulseJoin ==
    /\ setPc = "wait"
    /\ \A j \in DOMAIN epPc : epPc[j] \in {"done", "failed"}
    /\ IF \E j \in DOMAIN epPc : epPc[j] = "failed"
       THEN UNCHANGED <<clPc, pending>>
       ELSE /\ pending' = postProcessJets(pending, infos)
            /\ clPc' = [clPc EXCEPT ![arg.pulse] = "walk"]
    /\ Return
    /\ UNCHANGED <<delivered, arg, old, current, psLocked, psPulse, tracker,
                   latest, rosters, added, rostered, tree, splitLeft, execOf,
                   infos, epPc, hot, unlocked>>

-----------------------------------------------------------------------------
(* A message handler registering an open request (the handlers and the    *)
(* recent storage are not under src/; modelled from the design).  It     *)
(* reads the current pulse under the storage's read lock, waits on the    *)
(* HotDataWaiter until the jet of the request is unlocked for that pulse, *)
(* and later adds the request to the jet's pending storage.               *)

regFrame == <<delivered, arg, setPc, old, setLock, stopped, stopPc, current,
              psLocked, psPulse, tracker, latest, rosters, tree, splitLeft,
              execOf, infos, epPc, hot, unlocked, clPc, clPn, rdPc, added,
              rostered>>

RegisterRead ==
    /\ regPc = "idle" /\ psLocked = 0
    /\ \E j \in AllJets, r \in Requests \ {x.req : x \in registered} :
        /\ <<j, psPulse>> \in unlocked
        /\ regArg' = [req |-> r, jet |-> j, pulse |-> psPulse]
    /\ regPc' = "add"
    /\ UNCHANGED <<registered, pending>> /\ UNCHANGED regFrame

RegisterAdd ==
    /\ regPc = "add"
    /\ pending' = (regArg.jet :> (Pend(pending, regArg.jet) \cup {regArg.req})) @@ pending
    /\ registered' = registered \cup {regArg}
    /\ regPc' = "idle"
    /\ UNCHANGED regArg /\ UNCHANGED regFrame

-----------------------------------------------------------------------------
(* cleanLightData(newPulse = c), a goroutine per tick.  Its errors are     *)
(* logged and end it.                                                       *)

clVars == <<delivered, arg, setPc, old, setLock, stopped, stopPc, current,
            psLocked, psPulse, latest, rdPc, added, rostered, splitLeft,
            execOf, infos, epPc, pending, hot, unlocked, regVars>>

\* GetNthPrevPulse(storeLightPulses, c)
CleanWalk(c) ==
    LET pn == NthPrev(LightChainLimit, c) IN
    /\ clPc[c] = "walk"
    /\ clPc' = [clPc EXCEPT ![c] = IF pn = None THEN "done" ELSE "cleanup"]
    /\ clPn' = [clPn EXCEPT ![c] = pn]
    /\ UNCHANGED <<tracker, rosters, tree>> /\ UNCHANGED clVars

\* syncClientsPool.LightCleanup(pn): waits for the heavy sync of pn.
LightCleanup(c) ==
    /\ clPc[c] = "cleanup"
    /\ clPc' = [clPc EXCEPT ![c] = "prev"]
    /\ UNCHANGED <<clPn, tracker, rosters, tree>> /\ UNCHANGED clVars

\* GetPreviousPulse(pn)
CleanPrev(c) ==
    LET t == CleanTarget(clPn[c]) IN
    /\ clPc[c] = "prev"
    /\ clPc' = [clPc EXCEPT ![c] = IF t = None THEN "done" ELSE "delJets"]
    /\ clPn' = [clPn EXCEPT ![c] = t]
    /\ UNCHANGED <<tracker, rosters, tree>> /\ UNCHANGED clVars

\* JetModifier.Delete, NodeSetter.Delete, PulseTracker.DeletePulse: three
\* separate calls.
CleanJets(c) ==
    /\ clPc[c] = "delJets"
    /\ tree' = [q \in DOMAIN tree \ {clPn[c]} |-> tree[q]]
    /\ clPc' = [clPc EXCEPT ![c] = "delNodes"]
    /\ UNCHANGED <<clPn, tracker, rosters>> /\ UNCHANGED clVars

CleanNodes(c) ==
    /\ clPc[c] = "delNodes"
    /\ rosters' = rosters \ {clPn[c]}
    /\ clPc' = [clPc EXCEPT ![c] = "delPulse"]
    /\ UNCHANGED <<clPn, tracker, tree>> /\ UNCHANGED clVars

CleanPulse(c) ==
    /\ clPc[c] = "delPulse"
    /\ tracker' = [q \in DOMAIN tracker \ {clPn[c]} |-> tracker[q]]
    /\ clPc' = [clPc EXCEPT ![c] = "done"]
    /\ UNCHANGED <<clPn, rosters, tree>> /\ UNCHANGED clVars

-----------------------------------------------------------------------------
(* Stop and the readers of the current pulse                              *)

StopCall ==
    /\ stopPc = "idle"
    /\ stopPc' = "waiting"
    /\ UNCHANGED <<setVars, stopped, clPc, clPn, rdPc, regVars>>

\* setLock.Lock(); stopped = true; setLock.Unlock(); then the heavy sync
\* pool is stopped.
StopAcquire ==
    /\ stopPc = "waiting" /\ setLock = "free"
    /\ stopped' = TRUE
    /\ stopPc' = "done"
    /\ UNCHANGED <<setVars, clPc, clPn, rdPc, regVars>>

\* A handler asks the pulse storage for the current pulse ...
WantPulse(r) ==
    /\ rdPc[r] = "idle"
    /\ rdPc' = [rdPc EXCEPT ![r] = "waiting"]
    /\ UNCHANGED <<setVars, stopped, stopPc, clPc, clPn, regVars>>

\* ... and gets it under the storage's read lock.
ReadPulse(r) ==
    /\ rdPc[r] = "waiting" /\ psLocked = 0
    /\ rdPc' = [rdPc EXCEPT ![r] = "idle"]
    /\ UNCHANGED <<setVars, stopped, stopPc, clPc, clPn, regVars>>

-----------------------------------------------------------------------------

SetStep == SetAcquire \/ UnderPulseStorageLock \/ AfterPulseStorage \/ EndPulse
           \/ EndPulseJoin

SetStepVars == UNCHANGED <<stopped, stopPc, rdPc, clPn, regVars>>

Cleaner(c) ==
    \/ CleanWalk(c) \/ LightCleanup(c) \/ CleanPrev(c)
    \/ CleanJets(c) \/ CleanNodes(c) \/ CleanPulse(c)

Next ==
    \/ Deliver /\ UNCHANGED <<stopped, stopPc, rdPc, clPc, clPn, regVars>>
    \/ SetStep /\ SetStepVars
    \/ StopCall \/ StopAcquire
    \/ \E r \in Readers : WantPulse(r) \/ ReadPulse(r)
    \/ \E c \in Pulses : Cleaner(c)
    \/ \E j \in AllJets : EndPulseJob(j)
    \/ RegisterRead \/ RegisterAdd

\* Go's mutexes hand the lock to a long waiter (starvation mode), so lock
\* waits are strongly fair; the rest of a started call is weakly fair.  The
\* network need not deliver pulses, Stop need not be called and handlers
\* need not ask.
Fairness ==
    /\ SF_vars(SetAcquire /\ SetStepVars)
    /\ SF_vars(UnderPulseStorageLock /\ SetStepVars)
    /\ WF_vars(AfterPulseStorage /\ SetStepVars)
    /\ WF_vars(EndPulse /\ SetStepVars)
    /\ \A j \in AllJets : WF_vars(EndPulseJob(j))
    /\ WF_vars(EndPulseJoin /\ SetStepVars)
    /\ SF_vars(StopAcquire)
    /\ \A r \in Readers : SF_vars(ReadPulse(r))
    /\ \A c \in Pulses : WF_vars(Cleaner(c))

Spec == Init /\ [][Next]_vars
FairSpec == Spec /\ Fairness

-----------------------------------------------------------------------------
(* Properties                                                              *)

TypeOK ==
    /\ delivered \in 0..MaxPulse
    /\ setPc \in {"idle", "setLock", "gil", "jets", "end", "wait"}
    /\ splitLeft \in 0..SplitCount
    /\ \A p \in DOMAIN tree : p \in Pulses /\ tree[p] \subseteq AllJets
    /\ \A j \in DOMAIN epPc : epPc[j] \in {"drop", "remove", "failed", "done"}
    /\ regPc \in {"idle", "add"}
    /\ setLock \in {"free", "set"}
    /\ stopPc \in {"idle", "waiting", "done"}
    /\ psLocked \in 0..1
    /\ DOMAIN tracker \subseteq Pulses
    /\ \A p \in DOMAIN tracker : tracker[p] \in 0..(p - 1)
    /\ latest \in 0..MaxPulse
    /\ clPc \in [Pulses -> {"none", "walk", "cleanup", "prev", "delJets",
                            "delNodes", "delPulse", "done"}]
    /\ clPn \in [Pulses -> 0..MaxPulse]
    /\ rdPc \in [Readers -> {"idle", "waiting"}]

\* How many stored pulses are newer than p.
Age(p) == Cardinality({q \in added : q > p})

\* The cleaner goroutines never delete a pulse record or roster that is
\* among the LightChainLimit + 1 newest, whatever order the goroutines of
\* successive ticks run in: handlers of the current pulse still read them.
RecentPulsesKept ==
    \A p \in added :
        Age(p) <= LightChainLimit =>
            /\ p \in DOMAIN tracker
            /\ (p \in rostered => p \in rosters)

\* Once Stop has set m.stopped under setLock, no Set call changes the
\* latest pulse or the current pulse any more (a Set already under setLock
\* finishes first).
NoPulseAfterStop ==
    [][stopped => /\ latest' = latest /\ psPulse' = psPulse
                  /\ current' = current]_vars

\* A message handler that asks the pulse storage for the current pulse gets
\* it: no path of Set leaves the storage's lock held.
ReadersGetPulse ==
    \A r \in Readers : rdPc[r] = "waiting" ~> rdPc[r] = "idle"

\* Every Set call and the Stop call return.
CallsReturn ==
    /\ setPc # "idle" ~> setPc = "idle"
    /\ stopPc = "waiting" ~> stopPc = "done"

\* When a tick's processEndPulse goroutines all succeed, every successor of
\* every jet this node executed (the jet itself, or both children of the
\* one split) is handed over for the new pulse: this node has unlocked its
\* HotDataWaiter, or a HotData message for it was dispatched.  The
\* executor answers, the split and the senders are three separate places
\* in the code (processJets, prepareArtifactManager..., processEndPulse).
HotDataHandedOver ==
    [][(setPc = "wait" /\ setPc' = "idle"
        /\ \A j \in DOMAIN epPc : epPc[j] = "done")
       => \A i \in infos, x \in UNION {k.kids : k \in infos} :
            x \in i.kids =>
              \/ x \in i.mine /\ <<x, arg.pulse>> \in unlocked
              \/ \E h \in hot : h.jet = x /\ h.pulse = arg.pulse]_vars

\* Every open request a handler registered is still somewhere: in the
\* pending storage of a jet, or in a HotData message sent on to the jet's
\* next executor (spec, pulse tick step 12: only jets the node no longer
\* owns lose their pending storage).
OpenRequestsHandedOver ==
    \A q \in registered :
        \/ \E j \in DOMAIN pending : q.req \in pending[j]
        \/ \E h \in hot : q.req \in h.reqs

=============================================================================
