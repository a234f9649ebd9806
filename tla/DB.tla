---------------------------------- MODULE DB ----------------------------------
(***************************************************************************)
(* DB in src/ledger/storage/db.go: the Badger-backed store of pulses,      *)
(* drops and messages, used by concurrent goroutines.                      *)
(*                                                                         *)
(* Update runs a closure in a transaction and retries it on a conflict;    *)
(* every update transaction is counted in dropWG, which CreateDrop waits   *)
(* on (waitinflight) before it reads the pulse's messages.  The            *)
(* TransactionManager and Badger are not under src/ and are modelled from  *)
(* the design: a transaction reads a snapshot taken when it begins, its    *)
(* writes are buffered and applied at Commit, and Commit fails with a      *)
(* conflict when a key it read was committed by another transaction in    *)
(* between (serialisable Update).  Discard calls dropWG.Done() for an      *)
(* update transaction.  Values are abstracted: a pulse record is its       *)
(* PrevPulse, a message key is its pulse and writer, a drop is a marker.   *)
(***************************************************************************)
EXTENDS Naturals, FiniteSets, TLC

CONSTANTS Threads, Pulses, TxRetries, GenesisPulse

None == 0   \* PulseNumber zero: GetLatestPulseNumber found nothing

Latest == <<"latest">>
PulseKey(p) == <<"pulse", p>>
DropKey(p) == <<"drop", p>>
MsgKey(p, t) == <<"msg", p, t>>
GenesisKey == <<"system", "genesis">>
RecordKey(p) == <<"record", p>>      \* the genesis record, stored in pulse p
IndexKey == <<"lifeline", "genesis">>
AllPulses == Pulses \cup {GenesisPulse}
Keys == {Latest, GenesisKey, IndexKey, DropKey(None)}
        \cup {PulseKey(p) : p \in AllPulses} \cup {DropKey(p) : p \in Pulses}
        \cup {RecordKey(p) : p \in AllPulses} \cup {MsgKey(p, t) : p \in Pulses, t \in Threads}

\* The getters (GetBlob, GetRecord, GetObjectIndex, GetDrop, GetPulse,
\* GetLatestPulseNumber) are one read transaction each: "View".
Calls == {"AddPulse", "SetMessage", "SetDrop", "CreateDrop", "View"}
NoOp == [name |-> "none", pn |-> None]   \* an idle goroutine has no call

VARIABLES
    kv,       \* the store: the keys present and their values
    dropWG,   \* DB.dropWG's counter
    pc,       \* thread -> "idle", "begin", "commit", "getDrop", "wait",
              \* "blocked", "woken", "view", "read"
    op,       \* thread -> [name, pn] of its call
    tries,    \* Update's tries left
    attempts, \* transactions Update has begun in this call
    rs,       \* keys the open transaction read
    ws,       \* writes the open transaction buffered (txupdates)
    dirty,    \* keys others committed since the open transaction began
    must,     \* CreateDrop: messages whose Update was in flight at the call
    bootPc    \* where Bootstrap is: the next call it makes, "done" or "failed"

vars == <<kv, dropWG, pc, op, tries, attempts, rs, ws, dirty, must, bootPc>>
txVars == <<tries, attempts, rs, ws, dirty>>

\* NewDB: an empty store, nothing in flight.
Init ==
    /\ kv = [k \in {} |-> None]
    /\ dropWG = 0
    /\ pc = [t \in Threads |-> "idle"]
    /\ op = [t \in Threads |-> NoOp]
    /\ tries = [t \in Threads |-> 0]
    /\ attempts = [t \in Threads |-> 0]
    /\ rs = [t \in Threads |-> {}]
    /\ ws = [t \in Threads |-> [k \in {} |-> None]]
    /\ dirty = [t \in Threads |-> {}]
    /\ must = [t \in Threads |-> {}]
    /\ bootPc = "getGenesis"

\* Threads inside an update transaction, between BeginTransaction(true)
\* and its Discard.
InTx == {t \in Threads : pc[t] = "commit"}

\* Messages of pulse p in the store.
Messages(p) == {k \in DOMAIN kv : k[1] = "msg" /\ k[2] = p}

\* The closure Update runs, on the transaction's snapshot: what it reads and
\* what it buffers.  AddPulse reads the latest pulse and writes the pulse
\* record and the new latest; SetMessage and the set of SetDrop are
\* db.set, a blind write.
\* AddPulse's closure on the store kv: the record of p links to the latest
\* pulse (None if there is none yet), and p becomes the latest.
AddPulseWrites(p) ==
    (PulseKey(p) :> IF Latest \in DOMAIN kv THEN kv[Latest] ELSE None) @@ (Latest :> p)

Closure(t) ==
    LET p == op[t].pn IN
    CASE op[t].name = "AddPulse" ->
            [reads |-> {Latest}, writes |-> AddPulseWrites(p)]
      [] op[t].name = "SetMessage" ->
            [reads |-> {}, writes |-> MsgKey(p, t) :> TRUE]
      [] op[t].name = "SetDrop" ->
            [reads |-> {}, writes |-> DropKey(p) :> TRUE]

\* Mutant: the final Discard releases dropWG twice.
DoneTwice(wg) == wg - 2

\* tx.Discard() after the loop: dropWG.Done().
DoneTx(wg) == wg - 1

\* Mutant: the retry branch forgets tx.Discard().
RetryDiscardForgotten(wg) == wg

\* tries--; tx.Discard() before the next attempt.
RetryDiscard(wg) == wg - 1

\* Mutant: one retry more than configured.
OutOfTriesLate(n) == n < 0

\* if tries < 1: give up with ErrConflictRetriesOver (ErrConflict when
\* txretiries is 0).
OutOfTries(n) == n < 1

\* Mutant: Wait returns with transactions in flight.
WaitSkipped(wg) == TRUE

\* waitinflight: dropWG.Wait() returns at once when the counter is zero;
\* otherwise the goroutine blocks on the WaitGroup's semaphore.
waitinflight(wg) == wg = 0

\* sync.WaitGroup.Done: the Done that brings the counter to zero resets the
\* WaitGroup's state and releases every goroutine blocked in Wait.  A
\* released goroutine resumes later, when the scheduler runs it.
WakeWaiters(p, wg) ==
    [u \in Threads |-> IF wg = 0 /\ p[u] = "blocked" THEN "woken" ELSE p[u]]

\* The calls of createGenesisRecord, in order; the genesis key, which
\* getGenesisRef reads to tell whether bootstrap is done, is written last.
\* Bootstrap runs alone, before the node serves calls, so each call is one
\* step: one Update, atomic on a crash.
BootNextGenesisEarly(s) ==
    CASE s = "addPulse" -> "setGenesis" [] s = "setGenesis" -> "done"
      [] s = "setDrop" -> "setRecord" [] s = "setRecord" -> "setIndex"
      [] s = "setIndex" -> "setGenesis"

BootNext(s) ==
    CASE s = "addPulse" -> "setDrop" [] s = "setDrop" -> "setRecord"
      [] s = "setRecord" -> "setIndex" [] s = "setIndex" -> "setGenesis"
      [] s = "setGenesis" -> "done"

\* The call returns; nothing of it outlives it but what it committed.
\* The Discard of an update transaction (dropWG.Done) comes before it, so
\* dropWG' is fixed first.
Return(t) ==
    /\ pc' = WakeWaiters([pc EXCEPT ![t] = "idle"], dropWG')
    /\ op' = [op EXCEPT ![t] = NoOp]
    /\ tries' = [tries EXCEPT ![t] = 0]
    /\ attempts' = [attempts EXCEPT ![t] = 0]
    /\ rs' = [rs EXCEPT ![t] = {}]
    /\ ws' = [ws EXCEPT ![t] = [k \in {} |-> None]]
    /\ must' = [must EXCEPT ![t] = {}]

\* A goroutine calls one of the DB's methods.  Update's callers (AddPulse,
\* SetMessage) start the loop with tries = txretiries; SetDrop first reads
\* the drop key; CreateDrop notes which messages are being written.
Call(t, name, p) ==
    /\ bootPc = "done"
    /\ pc[t] = "idle"
    /\ op' = [op EXCEPT ![t] = [name |-> name, pn |-> p]]
    /\ pc' = [pc EXCEPT ![t] = CASE name \in {"AddPulse", "SetMessage"} -> "begin"
                                  [] name = "SetDrop" -> "getDrop"
                                  [] name = "CreateDrop" -> "wait"
                                  [] name = "View" -> "read"]
    /\ tries' = [tries EXCEPT ![t] = TxRetries]
    /\ must' = [must EXCEPT ![t] =
                  IF name = "CreateDrop"
                  THEN {MsgKey(p, u) : u \in {v \in InTx : op[v] = [name |-> "SetMessage", pn |-> p]}}
                  ELSE {}]
    /\ UNCHANGED <<bootPc, kv, dropWG, attempts, rs, ws, dirty>>

\* One turn of Update's loop up to Commit: BeginTransaction(true) adds to
\* dropWG, and the closure runs on a fresh snapshot.
UpdateBegin(t) ==
    LET c == Closure(t) IN
    /\ pc[t] = "begin"
    /\ dropWG' = dropWG + 1
    /\ attempts' = [attempts EXCEPT ![t] = @ + 1]
    /\ rs' = [rs EXCEPT ![t] = c.reads]
    /\ ws' = [ws EXCEPT ![t] = c.writes]
    /\ dirty' = [dirty EXCEPT ![t] = {}]
    /\ pc' = [pc EXCEPT ![t] = "commit"]
    /\ UNCHANGED <<bootPc, kv, op, tries, must>>

\* tx.Commit() and the rest of the loop: success, a conflict with tries
\* left (Discard, retry), or a conflict with none (Discard, return).
UpdateCommit(t) ==
    LET conflict == rs[t] \cap dirty[t] # {} IN
    /\ pc[t] = "commit"
    /\ \/ /\ ~conflict
          /\ kv' = ws[t] @@ kv
          /\ dirty' = [u \in Threads |->
                         IF u \in InTx \ {t} THEN dirty[u] \cup DOMAIN ws[t] ELSE dirty[u]]
          /\ dropWG' = DoneTx(dropWG)
          /\ Return(t)
          /\ UNCHANGED bootPc
       \/ /\ conflict /\ OutOfTries(tries[t])
          /\ dropWG' = DoneTx(dropWG)
          /\ Return(t)
          /\ UNCHANGED <<bootPc, kv, dirty>>
       \/ /\ conflict /\ ~OutOfTries(tries[t])
          /\ tries' = [tries EXCEPT ![t] = @ - 1]
          /\ dropWG' = RetryDiscard(dropWG)
          /\ pc' = WakeWaiters([pc EXCEPT ![t] = "begin"], dropWG')
          /\ UNCHANGED <<bootPc, kv, dirty, op, attempts, rs, ws, must>>

\* SetDrop: db.get of the drop key in a read transaction; ErrOverride if
\* the drop is there, else db.set, an Update of its own.
SetDropGet(t) ==
    /\ pc[t] = "getDrop"
    /\ \/ /\ DropKey(op[t].pn) \in DOMAIN kv
          /\ UNCHANGED <<bootPc, kv, dropWG, dirty>>
          /\ Return(t)
       \/ /\ DropKey(op[t].pn) \notin DOMAIN kv
          /\ pc' = [pc EXCEPT ![t] = "begin"]
          /\ UNCHANGED <<bootPc, kv, dropWG, op, txVars, must>>

\* The process dies and is started again: open transactions are lost
\* (Badger keeps only what was committed), every call in flight is gone,
\* dropWG is a new zero WaitGroup, and the node runs Bootstrap again.
Restart ==
    /\ bootPc' = "getGenesis"
    /\ dropWG' = 0
    /\ pc' = [t \in Threads |-> "idle"]
    /\ op' = [t \in Threads |-> NoOp]
    /\ tries' = [t \in Threads |-> 0]
    /\ attempts' = [t \in Threads |-> 0]
    /\ rs' = [t \in Threads |-> {}]
    /\ ws' = [t \in Threads |-> [k \in {} |-> None]]
    /\ dirty' = [t \in Threads |-> {}]
    /\ must' = [t \in Threads |-> {}]
    /\ UNCHANGED kv

\* The process dies of a cause outside the DB (a kill, a power loss, a
\* panic elsewhere).
Crash == Restart

\* CreateDrop: waitinflight, which returns at once or blocks until the
\* counter reaches zero.
CreateDropWait(t) ==
    /\ pc[t] = "wait"
    /\ pc' = [pc EXCEPT ![t] = IF waitinflight(dropWG) THEN "view" ELSE "blocked"]
    /\ UNCHANGED <<bootPc, kv, dropWG, op, txVars, must>>

\* The released goroutine returns from Wait.  Go checks the WaitGroup's
\* state on the way out: if another goroutine's BeginTransaction(true) has
\* added to dropWG since the release, Wait panics ("sync: WaitGroup is
\* reused before previous Wait has returned"), and the panic ends the
\* process.
CreateDropResume(t) ==
    /\ pc[t] = "woken"
    /\ \/ /\ waitinflight(dropWG)
          /\ pc' = [pc EXCEPT ![t] = "view"]
          /\ UNCHANGED <<bootPc, kv, dropWG, op, txVars, must>>
       \/ /\ ~waitinflight(dropWG)
          /\ Restart

\* CreateDrop, after the wait: iterate the messages of the pulse in a read
\* transaction and return the drop built from them.
CreateDropView(t) ==
    /\ pc[t] = "view"
    /\ UNCHANGED <<bootPc, kv, dropWG, dirty>>
    /\ Return(t)

\* View (and get, GetObjectIndex, GetLatestPulseNumber, which open the
\* transaction themselves): BeginTransaction(false), which does not add to
\* dropWG, the reads on the snapshot, and the deferred Discard.
ReadView(t) ==
    /\ pc[t] = "read"
    /\ UNCHANGED <<bootPc, kv, dropWG, dirty>>
    /\ Return(t)

\* Bootstrap, getGenesisRef: the genesis key found means bootstrap is done;
\* ErrNotFound starts createGenesisRecord.
BootGetGenesis ==
    /\ bootPc = "getGenesis"
    /\ bootPc' = IF GenesisKey \in DOMAIN kv THEN "done" ELSE "addPulse"
    /\ UNCHANGED <<kv, dropWG, pc, op, txVars, must>>

\* One call of createGenesisRecord, each an Update of its own:
\*   AddPulse(GenesisPulse);
\*   SetDrop(&JetDrop{}), the drop of pulse 0, ErrOverride if it is there;
\*   GetLatestPulseNumber and SetRecord of the genesis record in that pulse
\*   (the record store accepts the same bytes again);
\*   SetObjectIndex of the genesis lifeline;
\*   db.set of the genesis key.
\* Any error ends Bootstrap with "bootstrap failed".
BootCall ==
    LET step(writes) == kv' = writes @@ kv /\ bootPc' = BootNext(bootPc) IN
    /\ \/ bootPc = "addPulse" /\ step(AddPulseWrites(GenesisPulse))
       \/ /\ bootPc = "setDrop"
          /\ \/ DropKey(None) \in DOMAIN kv /\ bootPc' = "failed" /\ UNCHANGED kv
             \/ DropKey(None) \notin DOMAIN kv /\ step(DropKey(None) :> TRUE)
       \/ bootPc = "setRecord" /\ step(RecordKey(kv[Latest]) :> TRUE)
       \/ bootPc = "setIndex" /\ step(IndexKey :> TRUE)
       \/ bootPc = "setGenesis" /\ step(GenesisKey :> TRUE)
    /\ UNCHANGED <<dropWG, pc, op, txVars, must>>

Next ==
    \/ \E t \in Threads :
          \/ \E name \in Calls, p \in Pulses : Call(t, name, p)
          \/ UpdateBegin(t) \/ UpdateCommit(t) \/ SetDropGet(t)
          \/ CreateDropWait(t) \/ CreateDropResume(t) \/ CreateDropView(t)
          \/ ReadView(t)
    \/ BootGetGenesis \/ BootCall \/ Crash

Spec == Init /\ [][Next]_vars

-----------------------------------------------------------------------------
(* Properties                                                              *)

\* dropWG never goes negative (sync: negative WaitGroup counter panics).
TypeOK ==
    /\ dropWG \in 0..Cardinality(Threads)
    /\ pc \in [Threads -> {"idle", "begin", "commit", "getDrop", "wait", "blocked",
                              "woken", "view", "read"}]
    /\ tries \in [Threads -> 0..TxRetries]
    /\ attempts \in [Threads -> 0..TxRetries + 1]
    /\ DOMAIN kv \subseteq Keys
    /\ bootPc \in {"getGenesis", "addPulse", "setDrop", "setRecord", "setIndex",
                   "setGenesis", "done", "failed"}

\* CreateDrop seals every message whose Update had begun when CreateDrop
\* was called: waitinflight waits for those transactions, and each commits
\* before its Discard releases dropWG, so the view that builds the drop
\* sees them all.  A message written by a transaction that began later may
\* or may not be in the drop.
DropSealsInflightMessages ==
    [][\A t \in Threads :
         CreateDropView(t) => must[t] \subseteq Messages(op[t].pn)]_vars

\* Update gives up on a conflict only after txretiries retries, that is
\* txretiries + 1 transactions.
ConflictAfterAllRetries ==
    [][\A t \in Threads :
         (UpdateCommit(t) /\ pc'[t] = "idle" /\ rs[t] \cap dirty[t] # {})
            => attempts[t] = TxRetries + 1]_vars

\* The genesis key is the mark getGenesisRef reads as "bootstrap done": a
\* node that restarts and finds it skips createGenesisRecord.  So whenever
\* the key is in the store, every write of createGenesisRecord is too,
\* whatever calls a crash interrupted before.
GenesisSealsBootstrap ==
    GenesisKey \in DOMAIN kv =>
        /\ PulseKey(GenesisPulse) \in DOMAIN kv /\ DropKey(None) \in DOMAIN kv
        /\ IndexKey \in DOMAIN kv
        /\ \E p \in AllPulses : RecordKey(p) \in DOMAIN kv

\* Bootstrap never fails on the store it finds: spec.md promises that an
\* interrupted Update leaves the store as it was, so a node that died
\* during createGenesisRecord can be started again.
BootstrapNeverFails == bootPc # "failed"

\* CreateDrop's Wait never panics: a goroutine released from dropWG.Wait
\* returns before any update transaction adds to dropWG again.  Go panics
\* otherwise, and the panic takes the node down.
WaitNeverReused ==
    [][\A t \in Threads : CreateDropResume(t) => waitinflight(dropWG)]_vars
=============================================================================
