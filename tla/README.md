# TLA+ models of the insolar light-node ledger

This directory holds TLA+ models of the concurrent parts of the repository under
`src/`, the TLC configurations that check them, and `PROJECT.json`. That file
lists the components, runs, mutants, the map from definitions to source lines,
the findings and the hazards.

## The system

A light node keeps the recent state of the ledger in memory and in a key-value
store. Time is divided into pulses.

- **PulseManager** (`src/ledger/pulsemanager/pulsemanager.go`). On each new
  pulse, `Set` takes the global lock and the pulse-storage lock. It then splits
  jets, writes drops, sends hot data to the next executors, moves the
  synchronisation state to active, and starts a background clean-up of the
  pulse `LightChainLimit` behind.
- **FilamentCache** (`src/ledger/object/filament_cache.go`). This is the
  per-pulse, per-object cache of pending requests that message handlers call
  concurrently. Each object has an index (lifeline + pending records) guarded
  by the index RWMutex, and each (pulse, object) pair has a bucket guarded by
  its own RWMutex. The cleaner calls `DeleteForPN` for old pulses.
- **DB** (`src/ledger/storage/db.go`). This is the Badger-backed store for
  drops, pulses and jets. `Update` retries on transaction conflicts.
- **IDLocker** (`src/ledger/storage/lock.go`). It holds per-id mutexes in a
  reference-counted map.
- **SlotQueue** and **Conditional** (`src/conveyor/smachine`). These are the
  conveyor's intrusive slot queue and its counting synchronisation gate.

## Modules

| module | models | state ↔ code |
|---|---|---|
| `FilamentCache` | `FilamentCacheStorage` | `lifeline`/`pendingRecords` ↔ `idx.objectMeta`; `buckets` ↔ `i.buckets` (each bucket with its RWMutex as `w`/`r`); `idxLock` ↔ the index RWMutex; `recStore` ↔ the record storage; `pc`/`op` ↔ the callers' goroutines (`op.stale`: the bucket the caller holds was dropped from the map); `cleaned`/`orphan` ↔ the pulses `DeleteForPN` ran for and the buckets it dropped while callers held them |
| `MC_FilamentCache` | model values and operation subsets for TLC | |
| `PulseManager` | `PulseManager.Set`, `Stop`, `cleanLightData`, and handlers reading the pulse storage | `setLock` ↔ `m.setLock`; `psLocked`/`psPulse` ↔ `PulseStorage`'s lock and pulse; `tracker`/`latest`/`added` ↔ the pulse tracker; `rosters`, `tree` ↔ node and jet storage; `splitLeft` ↔ `splitCount`; `execOf` ↔ the jet coordinator's answers; `infos` ↔ the `jetInfo`s of the tick; `epPc` ↔ the `processEndPulse` goroutines; `pending` ↔ the recent storage's pending storages; `hot` ↔ `HotData` messages sent; `unlocked` ↔ `HotDataWaiter.Unlock` calls; `regPc`/`regArg`/`registered` ↔ a handler registering open requests; `clPc`/`clPn` ↔ one cleaner goroutine per tick |
| `MC_PulseManager` | one reader, one request and the failure sets of each run | |
| `IDLocker` | `idLocker` | `muxs` ↔ `l.muxs` (id → mutex object and `count`); `mutex` ↔ each `mucount`'s RWMutex (writer slot `w`, readers `r`); `obj` ↔ the pointer a thread read under `l.mu` |
| `IDLockSpec` | what `IDLocker` promises: one read/write lock per id | `hold` ↔ which id and mode each thread holds |
| `MC_IDLocker` | two ids, three threads | |
| `SlotQueue` | `QueueHead` and the slot links in `slot_queue.go` | `next`/`prev`/`queue` ↔ `nextInQueue`/`prevInQueue`/`queue`; `count` ↔ `QueueHead.count`; the head of queue `q` is the node `q` |
| `SlotQueueSpec` | what a slot queue promises | `seqs` ↔ each queue as a sequence of slots |
| `Conditional` | `conditionalSync` and `holdingQueueController` | `state` ↔ `controller.state`; `waitq` ↔ the dependency queue; `phase` ↔ where each waiting slot is |
| `MC_Conveyor` | `SlotQueue` and `Conditional` interleaved on one worker | `lastCall` is a trace label only |
| `DB` | `DB.Update`, `AddPulse`, `SetMessage`, `SetDrop`, `CreateDrop`, `View` (the getters, as `ReadView`) | `kv` ↔ the Badger store; `dropWG` ↔ `db.dropWG`; `rs`/`ws`/`dirty` ↔ the open transaction's reads, `txupdates`, and Badger's conflict set; `tries`/`attempts` ↔ `Update`'s loop |
| `MC_DB` | two goroutines on one pulse | `lastStep` is a trace label only |

### PulseManager

`Set` is split at its lock boundaries, one action per stretch of code:
- `SetAcquire` takes `setLock`.
- `UnderPulseStorageLock` is `setUnderGilSection`, under the pulse-storage write lock. It covers reading the latest pulse, `AddPulse`, the node setter and `MoveSyncToActive`, with every error return.
- `AfterPulseStorage` is the rest of `setUnderGilSection`. `processJets` clones the tree, finds the jets this node executed, splits the one at the random index while `splitCount` is positive, and asks who executes each successor next. `rewriteHotData` then copies a split parent's pending storage to each child this node executes next. Next come `prepareArtifactManagerMessageHandlerForNextPulse`, which unlocks the `HotDataWaiter` of every successor this node keeps, and `Nodes.All`. An empty roster for the old pulse activates and unlocks the zero jet.
- `EndPulse` starts one `processEndPulse` goroutine per `jetInfo`.
- Each goroutine (`EPHotData`, `EPRemove`) creates the drop, which may fail, and snapshots the jet's pending storage into the hot data. It sends the snapshot fire-and-forget to every successor that another node executes, then calls `RemovePendingStorage` on the jet.
- `EndPulseJoin` is `g.Wait()`. On success it runs `postProcessJets` and starts the cleaner goroutine of the tick. In every case it releases `setLock`.

Each call that can fail is in `Failures` when a run lets it fail. The error
path is then a disjunct of the action.

The cleaner is a goroutine per tick (`Cleaner(c)`, named by the tick's pulse).
It walks back `LightChainLimit` pulses, runs the light clean-up, reads the
previous pulse, and deletes the jets, the roster and the pulse record. Each of
these is a step, so the cleaners of successive ticks interleave.

`Stop` takes `setLock` and sets `stopped`. A handler (`Readers`) asks the pulse
storage for the current pulse under its read lock.

A second handler registers open requests (`RegisterRead`, `RegisterAdd`). It
reads the current pulse and waits on the `HotDataWaiter` until the request's
jet is unlocked for that pulse. Some steps later it adds the request to the
jet's pending storage.

The jet coordinator's answer for a jet and a pulse is drawn the first time it
is asked, and kept in `execOf`. A pulse without a roster answers `ErrNoNodes`,
which means "not me". Jets are bit-sequence prefixes whose depth is bounded by
`SplitCount`.

The pulse tracker, node storage and jet storage are not under `src/`. They are
modelled from the design: a record per pulse links to the previous one, and
there is a roster and a jet tree per pulse. The recent storage and the
handlers are not under `src/` either. They are modelled the same way.

### IDLocker

`Lock`/`RLock` is two steps:
- the `l.mu` section, which creates the entry if it is absent, does
  `count++` and keeps the `mucount` pointer;
- the wait on that entry's RWMutex.

`Unlock`/`RUnlock` is one `l.mu` section. It looks up the entry, does
`count--`, releases the mutex, and deletes the entry when the count reaches
zero.

A writer first takes the RWMutex's writer slot and then waits for the readers
already in (`LockAcquire`, `LockDrained`), as Go's RWMutex does. A mutex object
is one of `Objs`. A fresh one is any object nobody refers to, so a thread that
keeps a stale pointer is visible in the state. `IDLocker` implements
`IDLockSpec` under the mapping "a thread in `held` holds `<<tid, mode>>`".

### Conveyor: SlotQueue and Conditional

`SlotQueue` keeps the intrusive ring as pointer functions over slots and queue
heads. Each `QueueHead`/`Slot` operation is one action that composes the code's
helpers (`initEmpty`, `_addQueuePrev`) on a record of the links:
- `AddFirst`
- `AddLast`
- `AppendAll`, including a queue appended to itself
- `RemoveAll`
- `removeFromQueue`

`Ring(q)` reads a queue off its ring by a bounded recursive walk. The refinement
`seqs <- [q |-> Ring(q)]` shows the linked structure implements `SlotQueueSpec`,
where each queue is a sequence and a slot is in at most one queue.
`Slot.ensureNotInQueue` lives in `slot.go`, which is not in this repository. It
is modelled from the queue's contract as the guard that a slot being added has
no links.

`Conditional` models the gate:
- `NewConditional` sets the initial state through `AdjustLimit`.
- `CreateDependency` passes when the gate is open and queues otherwise.
- `AdjustLimit` calls `applyWrappedAdjustment`, then `setLimit`. When the new
  state is open, `setLimit` flushes the whole queue.
- `holdingQueueController.Release` removes the entry. The code's
  open-with-waiters panic is checked as an invariant.

Go's `int` wraps. The model keeps the ratio of widths, not the widths
themselves:
- `IntBits` = 5 stands for the 64-bit int;
- `LimitBits` = 3 stands for the int32 clamp.

Deltas of ±15/16 therefore both leave the clamp range and overflow the int.
The dependency queue is not in the repository and is a FIFO here.

Both structures run on the conveyor worker, one call at a time.
`MC_Conveyor` interleaves their calls.

### DB

`Update` is modelled as a loop:
- `UpdateBegin`: `BeginTransaction(true)` increments `dropWG`, and the closure
  runs on the current snapshot. It records what it read and buffers what it
  writes.
- `UpdateCommit` has three outcomes:
  - success: the writes are applied, and `Discard` decrements `dropWG`;
  - a conflict with tries left: `tries--`, `Discard`, retry;
  - a conflict with no tries left: `Discard`, return the error.

A conflict means that a key the transaction read was committed by another
transaction after it began. This is Badger's optimistic concurrency. The
`TransactionManager` and Badger are not in the repository, so this part is
modelled from the design.

The closures:
- `AddPulse` reads the latest pulse and writes the pulse record and the latest
  key.
- `SetMessage` and `SetDrop`'s `set` are blind writes.

`SetDrop` reads the drop key in its own transaction before its `Update`.
`CreateDrop` is `waitinflight` (`dropWG.Wait`) followed by a read transaction
that collects the pulse's messages. `Wait` is modelled as Go's
`sync.WaitGroup` behaves:
- `CreateDropWait`: `Wait` returns at once if the counter is zero; otherwise
  the goroutine blocks (`"blocked"`).
- `WakeWaiters`: the `Done` that brings the counter to zero releases every
  blocked goroutine (`"woken"`).
- `CreateDropResume`: the released goroutine returns from `Wait` when it next
  runs. If an `Update` has added to `dropWG` in between, `Wait` panics
  ("WaitGroup is reused before previous Wait has returned"). The panic ends
  the process, which is `Restart`, the same step as `Crash`. A call records, as ghost state `must`, the
messages whose `Update` was open when `CreateDrop` was called.

`Bootstrap` runs before the node serves any call (`Call` waits for
`bootPc = "done"`):
- `BootGetGenesis` is `getGenesisRef`. If the genesis key is present,
  bootstrap is done.
- `BootCall` is one call of `createGenesisRecord` per step:
  1. `AddPulse(GenesisPulse)`;
  2. `SetDrop(&JetDrop{})`, which returns `ErrOverride` and ends `Bootstrap`
     with a failure when the drop of pulse 0 is already there;
  3. `SetRecord` of the genesis record;
  4. `SetObjectIndex`;
  5. the genesis key.

Each of these calls is one `Update`, and nothing runs beside it.

`Crash` is the process dying at any step and starting again. Committed data
stays, because Badger keeps it. Open transactions, calls in flight and
`dropWG` are lost, and `Bootstrap` runs again. The record store's `SetRecord`
is not in the repository. It follows spec.md §96, which accepts the same bytes
again.

Commit and the following `Discard` are one step. Between them `dropWG` is still
positive, so no `CreateDrop` can run in between.

## Runs

Each run is listed in `PROJECT.json` with the properties of its cfg. Every property of a passing run has a mutant there: a plausible bug in one mapped definition that makes TLC report the property violated.

### FilamentCache runs

| run | cfg | checks | expect |
|---|---|---|---|
| fc_safety | `fc_safety.cfg` | TypeOK, EarliestOpenRequestSound, PendingChainComplete, BucketTracksOpenRequests | pass (2,038,790 states, 70 s) |
| fc_earliest_cleared | `fc_earliest_cleared.cfg` | OpenRequestsTracked | violation |
| fc_lock_hangs | `fc_lock_hangs.cfg` | OperationsReturn | violation |

What each property says:
- **EarliestOpenRequestSound.** The lifeline's `EarliestOpenRequest`, when set,
  is the pulse of a request that is still open.
- **PendingChainComplete.** Walking `PendingPointer` back through the
  meta-records gives exactly the object's requests, newest first, with pulses
  never increasing.
- **BucketTracksOpenRequests.** For every pulse the cleaner has not dropped,
  a bucket's flat list and its index agree with each other and with that
  pulse's requests that are still open. This holds even when two results for
  one request race.

`DeleteForPN` runs once per pulse, as the cleaner calls it, and has no guard
on callers, just as the code has none. A caller of that pulse that already
holds a bucket keeps working on the dropped bucket. The lifeline properties
still hold in every such interleaving. A caller that looks its bucket up only
after the drop recreates an empty one. That bucket misses the pulse's open
requests and is never dropped again. fc_safety reaches this state, and no run
claims anything about dropped pulses.
- **OperationsReturn.** Every operation a caller starts returns.
- **OpenRequestsTracked.** While any request of the object is open,
  `EarliestOpenRequest` is set and is no later than it. The code breaks this
  (see the findings).

Bounds:

- There is one object and two threads, with thread symmetry.
- Three pulses are used in the safety run. That is enough for a stale caller
  (`pn` behind `curPN`), for requests of two pulses being open at once, and for
  the cleaner to drop a pulse (`LightChainLimit` = 2).
- There is one request id per object per pulse.
- At most two read locks are leaked on one bucket.

Fairness (`FairSpec`, used by fc_lock_hangs):

Go's `sync.RWMutex` switches to starvation mode and hands the lock to a waiter
that has waited too long. So every lock wait is strongly fair, and the work
done under a lock and the bus reply are weakly fair. Callers need not start
operations, and pulses need not come. Under this fairness `OperationsReturn`
fails only because of findings 1 and 2: no run checks it with `Gather` and
`Records` left out.

### PulseManager runs

| run | cfg | checks | expect |
|---|---|---|---|
| pm_safety | `pm_safety.cfg` | TypeOK, RecentPulsesKept, NoPulseAfterStop, HotDataHandedOver | pass |
| pm_progress | `pm_progress.cfg` | ReadersGetPulse, CallsReturn | pass |
| pm_lock_leak | `pm_lock_leak.cfg` | ReadersGetPulse | violation |
| pm_pending_lost | `pm_pending_lost.cfg` | OpenRequestsHandedOver | violation |

What each property says:
- **RecentPulsesKept.** No cleaner deletes a pulse record or roster among the
  `LightChainLimit` + 1 newest, whatever order the cleaners of successive ticks
  run in.
- **NoPulseAfterStop.** Once `Stop` has set `stopped`, no `Set` changes the
  latest or the current pulse.
- **ReadersGetPulse.** A handler that asks for the current pulse gets it.
- **CallsReturn.** `Set` and `Stop` return.
- **HotDataHandedOver.** When a tick's goroutines all succeed, every successor of every jet this node executed is handed over for the new pulse. The successor is the jet itself, or both children of a split. Handed over means this node unlocked its waiter, or a `HotData` message was sent for it. The mutant that sends nothing for a split breaks it.
- **OpenRequestsHandedOver.** Every registered open request is either in some
  jet's pending storage or in a `HotData` message. spec.md, pulse tick step 12,
  says only jets the node no longer owns lose their pending storage.

Bounds:
- There are four pulses and `LightChainLimit` = 1, so the cleaners of ticks 3
  and 4 overlap.
- There is one handler.
- `SplitCount` = 1 allows one split: a split tree, a child this node keeps, and a child it hands away.
- pm_safety and pm_pending_lost have one request. pm_progress has none, to keep the liveness check short. Registration does not block `Set`.
- In pm_safety every store call may fail. pm_progress leaves out
  `MoveSyncToActive`, whose failure is what pm_lock_leak checks.

pm_safety sets `CHECK_DEADLOCK FALSE` because after a `MoveSyncToActive`
failure the node really stops.

Fairness:
- Lock waits are strongly fair, because Go mutexes hand the lock to a
  long-waiting goroutine.
- The rest of a started call, each cleaner, and each `processEndPulse`
  goroutine are weakly fair.
- The registering handler has no fairness: a request need not come.

### IDLocker run

| run | cfg | checks | expect |
|---|---|---|---|
| il_locker | `il_locker.cfg` | TypeOK, MapBalanced, ImplementsIDLockSpec, LocksAcquired | pass |

What each property says:
- **MapBalanced.** An id is in the map exactly while some thread is between its
  `l.mu` section and its unlock, and the count is the number of such threads.
  All of them point at the entry's mutex object.
- **ImplementsIDLockSpec.** Writers exclude everyone on an id, and readers
  exclude writers. This includes the race where an entry is deleted and
  recreated while a thread still holds the old pointer.
- **LocksAcquired.** Every waiting thread eventually gets the lock. This is
  under strong fairness for the writer slot and the read lock (Go's
  starvation mode and reader hand-off).

Bounds: two ids and three threads. That is enough for a reader, a writer and a
third thread on one id, and for a thread to wait on an entry whose holder
unlocks.

### Conveyor run

| run | cfg | checks | expect |
|---|---|---|---|
| cv_conveyor | `cv_conveyor.cfg` | ConveyorTypeOK, RingWellFormed, GateOpenNoWaiters, AdjustmentCorrect, ImplementsSlotQueueSpec | pass (30,602 states) |

What each property says:
- **RingWellFormed.**
  - Every queue's ring closes at its head.
  - `prev` runs it backwards.
  - Its slots point at it, and its count is its length.
  - Free slots have no links.
- **ImplementsSlotQueueSpec.** The rings implement the sequence specification.
  This covers `AppendAll` (order kept, other queue emptied, appending a queue to
  itself) and `removeFromQueue` taking out exactly its slot.
- **GateOpenNoWaiters.** No slot waits behind an open gate. So
  `holdingQueueController.Release` never panics.
- **AdjustmentCorrect.** From every reachable state, every delta or value in
  Go's int range gives the clamped exact result. The two overflow tests
  included, `applyWrappedAdjustment` saturates and never wraps.

Bounds:
- Three slots and two queues: enough for a chain of two to move into a
  non-empty queue.
- Two waiters.
- Adjustments {-16, -5, -1, 1, 4, 15} with `IntBits` = 5: these reach both
  clamps and both overflows.

There is no liveness property. The calls are synchronous on one worker, and
nothing in this part of the code waits.

### DB run

| run | cfg | checks | expect |
|---|---|---|---|
| db_store | `db_store.cfg` | TypeOK, GenesisSealsBootstrap, DropSealsInflightMessages, ConflictAfterAllRetries | pass (153,283 distinct states, 5 s) |
| db_boot_restart | `db_boot_restart.cfg` | BootstrapNeverFails | violation |
| db_wait_reuse | `db_wait_reuse.cfg` | WaitNeverReused | violation |

What each property says:
- **TypeOK.** It includes `dropWG` ≥ 0. A negative WaitGroup counter panics.
- **GenesisSealsBootstrap.** The genesis key is the mark that bootstrap is
  done. Whenever it is in the store, the genesis pulse, the empty drop, the
  genesis record and the lifeline are there too, whatever calls a crash
  interrupted.
- **BootstrapNeverFails.** A restarted node bootstraps on the store it finds.
  The code breaks this (finding 6).
- **DropSealsInflightMessages.** When `CreateDrop` reads the messages, every
  message whose `Update` was open at the call is in the store. This holds
  with Go's release-at-zero `Wait`: a waiter that gets past it saw the
  counter at zero after every such transaction had committed.
- **ConflictAfterAllRetries.** `Update` gives up on a conflict only after
  `txretiries` + 1 transactions.
- **WaitNeverReused.** A goroutine released from `dropWG.Wait` returns
  before any `Update` adds to `dropWG` again, so `Wait` never panics. The
  code breaks this (finding 7).

There is no liveness property for the DB. With two goroutines, one of them
in `CreateDrop`, a lone writer always lets `dropWG` fall back to zero, so
"`Wait` ends" would hold only because of the bound. Two writers that keep
overlapping can keep the counter above zero for ever; that needs a third
goroutine, and is listed as a hazard without a property.

Bounds:
- Two goroutines, one pulse after the genesis pulse, and `TxRetries` = 1.
- The process may die at every step. `Crash` has no fairness, because a
  process need not die.
- Two `AddPulse` calls conflict on the latest key, and one of them conflicts
  twice and gives up.
- A `SetMessage` is in flight while `CreateDrop` waits, and the same
  goroutine's next `Update` can begin before `CreateDrop` resumes.
- Two `SetDrop` calls meet.

A second pulse multiplies the store's states without reaching a new
interleaving. Keys of different pulses never conflict.

## Findings

1. `Gather` deadlocks on its own bucket lock: it holds `pb.Lock` and then
   `refresh` calls `pb.Lock` again at `filament_cache.go:610`.
2. `Records` defers `b.RLock()` instead of `b.RUnlock()` (`:726`). The bucket
   stays read-locked, and the next writer for that pulse and object blocks
   forever.
3. `SetResult` clears `EarliestOpenRequest` when the current pulse's bucket has
   no open requests left (`:311`), although a request from an earlier pulse is
   still open. (fc_earliest_cleared)
4. `setUnderGilSection` returns on a `MoveSyncToActive` error without
   unlocking the pulse storage (`pulsemanager.go:536-538`). Every handler that
   asks for the current pulse then blocks, and so do the next `Set` and `Stop`.
   (pm_lock_leak)
5. Each `processEndPulse` goroutine calls `RemovePendingStorage(info.id)`
   (`pulsemanager.go:192`) whatever the jet's next executor. For a jet this
   node keeps executing, no hot data is sent, so its open requests are lost.
   The same happens to a request that a handler of the new pulse registers on
   that jet while the tick runs. spec.md (pulse tick, step 12) drops the
   pending storage only of jets the node no longer owns, and `postProcessJets`
   (`:620`) already does exactly that. (pm_pending_lost; TLC's trace registers
   a request on a kept jet after it is unlocked for the new pulse and before
   the goroutine's removal.)
6. `Bootstrap` cannot recover from a crash inside `createGenesisRecord`
   (`db.go:134`), and db_boot_restart shows it.
   - If the process dies after `SetDrop(&JetDrop{})` and before the genesis
     key is written, every restart runs `createGenesisRecord` again.
   - That rerun's `SetDrop` returns `ErrOverride`, so `Bootstrap` fails on
     every start.
7. `CreateDrop` can panic in `dropWG.Wait` (`db.go:297`), and db_wait_reuse
   shows it. Every `Update` calls `dropWG.Add(1)` (`BeginTransaction(true)`,
   `db.go:418`) with no ordering against the waiter.
   - A `SetMessage` commits while `CreateDrop` waits, and its `Discard` brings
     the counter to zero and releases the waiter.
   - Before the waiter runs again, the same goroutine's next `Update` begins
     and adds to the counter.
   - `Wait` then finds the WaitGroup in use again and panics. The `sync`
     package requires a reused WaitGroup's new `Add` calls to come after
     every earlier `Wait` has returned.

Findings 1 and 2 are both checked by fc_lock_hangs, whose operations are
`SetRequest`, `Gather` and `Records`. TLC prints the `Gather` hang.

To see the `Records` leak on its own:
- set `Ops <- OpsRecords`, `MaxPulse = 1` and `ReqsPerPulse = 2`;
- TLC then shows a `SetRequest` waiting for ever behind the read lock that
  `Records` left.

fc_safety runs every operation with `CHECK_DEADLOCK FALSE`, so that a blocked
caller does not hide the other properties.


### Differences between spec.md and the code that no run checks

- The cleaner goroutines of successive ticks are not ordered. The cleaner of
  tick N+1 can delete the pulse that the cleaner of tick N walks back to
  (`pulsemanager.go:644`, `:657`). The earlier cleaner then gives up, and one
  old pulse is never deleted. spec.md does not say whether clean-up must be
  complete. `RecentPulsesKept` checks the safety side of this race: no
  cleaner deletes a pulse that is still needed.

- spec.md says `AdjustLimit(+1)` on a closed gate releases one waiter and
  brings the state back to 0. In `setLimit` (`sync_conditional.go:127-133`)
  the state stays 1 and every waiter is flushed. The gate is a gate, not a
  semaphore. `GateOpenNoWaiters` checks the code's behaviour.
- spec.md says a second `SetDrop` for a pulse gets `ErrOverride`. `SetDrop`
  (`db.go:348-360`) checks and writes in separate transactions, so two
  concurrent calls could both succeed. db_store reaches this interleaving.
  Under `src/`, however, the only caller is `Bootstrap`, which runs alone.
  The pulse manager writes drops through its own drop store.
- spec.md says `AddPulse` rejects a pulse that is not newer. `AddPulse`
  (`db.go:363-387`) has no such check.
- spec.md says `CreateDrop`'s hash folds in the messages. The code hashes only
  the previous hash (`db.go:312-316`). Hashing is not modelled.
- spec.md calls the error on conflict `ConflictRetriesOver`. With
  `txretiries` = 0 the code returns `ErrConflict` instead (`db.go:454-459`).

## Not modelled

- The DB's blob, record and index setters as calls of their own. Each is a
  single `Update` with no control beyond that transaction, like
  `SetMessage`; `Bootstrap`'s `SetRecord` and `SetObjectIndex` stand for
  them. Adding them as calls of the two goroutines multiplies db_store's
  state space by about five (a 2-minute liveness check) without reaching an
  interleaving `SetMessage` does not already reach.
- The getters are one call, `View` (`ReadView`): a read transaction, which
  `BeginTransaction(false)` keeps out of `dropWG`, so a reader never holds
  up `CreateDrop`. What they read is not modelled, since no property
  depends on it.
- I/O errors of Badger other than conflicts.
- The body of `FilamentCacheStorage.refresh` (`filament_cache.go:610-678`).
  Its only caller is `Gather`, which blocks on the bucket lock at `:610` before
  any of it runs (finding 1). An action for it would model code that never
  executes.
- `PulseManager.Start`. On a light node, `restoreLatestPulse` does nothing,
  and `Start` stores a one-node roster for the genesis pulse. The model
  starts from an empty tracker, so its first ticks take the network-start
  branch.
- The lifelines and index storages inside hot data, `DecreaseIndexesTTL`,
  `addSync`, `Bus.OnPulse` and the receiving node. A `HotData` send is
  recorded as dispatched. Its loss (`pulsemanager.go:174`, only logged) is a
  hazard of the receiver, whose `HotDataWaiter` is not under `src/`.
- Eventual clean-up of every old pulse. Two things can leave a pulse behind
  for good: out-of-order cleaners, and a tick whose `processEndPulse` fails
  before `go cleanLightData` (`:474`). No run checks eventual clean-up.
- The read-only accessors of the conveyor (`CheckState`, `GetCounts`,
  `QueueNext`, ...). They are used inside the actions.

These components are not modelled either:
- the generated protobuf code;
- the code generator;
- the wiring of components;
- key loading;
- the signing wrapper;
- the test mimic.

None of them has concurrent state of its own.
