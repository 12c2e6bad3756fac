# TLA+ models of the Flow emulator's block coordinator

These modules model the `Blockchain` type of `src/unnamed/part_000`
(package `emulator`). It owns the single mutable *pending block*, and
commits it to a `storage.Store` as the next block of the chain. API callers
reach it concurrently: each is a goroutine of the gRPC access API, the REST
admin API (`src/server/api.go`, `src/server/emulator.go`), or a test.

## The system's parts and how they interact

| part | source | state | modelled |
|---|---|---|---|
| coordinator | `part_000` `Blockchain` | `pendingBlock`, `autoMine`, `mu` (a `sync.RWMutex`) | `Blockchain.tla` |
| pending block | `pending_block.go` (not in `src/`; spec.md 4.1) | queue of tx IDs, execution cursor, ledger view | `PendingBlock.tla` (spec_modelled) |
| store | `storage.Store` (memstore/badger/redis, not in `src/`) | committed blocks by height, latest height | `StoreCommitBlock`, `SealedTxs` in `Blockchain.tla` |
| read queries | `GetTransactionResult`, `GetTransaction` (read-locked); `GetTransactionResultsByBlockID`, `GetTransactionsByBlockID` (an unlocked block read, then one read-locked lookup per transaction) | none (read `pendingBlock`, then the store) | `Blockchain.tla` |
| event range query | `GetEventsForHeightRange` (no lock) | none (reads the store height by height) | `EmulatorServer.tla` |
| other read queries | `GetBlockByID`, `GetBlockByHeight`, `GetEventsForBlockIDs`, `GetAccount`, `ExecuteScript*`, `GetAccountStorage` (REST `Storage`) | none (store reads; `ExecuteScript` and `ExecuteScriptAtBlockHeight` read-lock their instance) | `EmulatorServer.tla` |
| CreateAccount | `part_000` 1529-1598 | none of its own | `Blockchain.tla` |
| DeployContracts | `part_001` | none of its own | out of scope (spec.md: contract deployment is configuration) |
| REST admin API and snapshots | `server/api.go`, `server/emulator.go` | the emulator behind the adapter, the store's current snapshot context | `EmulatorServer.tla` |
| server routines | `server/emulator.go` `BadgerStorage`, `MemoryStorage`, `RedisStorage`, `SqliteStorage`, `RestServer` | the GC ticker, the `done` channel, the REST listener and `http.Server` | `ServerRoutines.tla` |
| FVM, config, logging | `part_000` | none that persists | out of scope |

A transaction goes through these steps:
`AddTransaction` (checks, then append) → `ExecuteBlock` / `ExecuteNextTransaction` (the
cursor runs each queued transaction against the block's view) →
`commitBlock` (lifecycle checks, then `storage.CommitBlock`, then swap in a fresh
pending block on top of the committed one). `ResetPendingBlock` replaces the
pending block without committing. `SendTransaction` is `AddTransaction` and, when
auto-mine is on, `executeAndCommitBlock`.

Only some entry points take `b.mu`:

* **Locked:** `ExecuteNextTransaction`, `CommitBlock`, `ExecuteAndCommitBlock`,
  `ResetPendingBlock` and `CreateAccount`.
* **Read-locked:** `GetTransactionResult`, `GetTransaction`, `GetCollectionByID`
  and the `ExecuteScript*` variants.
* **Unlocked:** `AddTransaction`, `SendTransaction` (including its auto-mine
  commit), `ExecuteBlock`, `Enable/DisableAutoMine`, `GetBlockByID` and
  `ServiceKey` (which writes `b.serviceKey`).

The hazards in `PROJECT.json` all come from that split.

## Modules

* `PendingBlock.tla` holds operators on a pending-block record `[height, txs,
  index, view]`. There are no variables: the coordinator keeps the live block
  in one variable. Its Go source is not in `src/`, so it is written from spec.md
  4.1. `ExecutionComplete` is `index = Len(txs)`, so a cursor past the end is
  not complete, and the next `ExecuteNextTransaction` indexes out of range.
* `Blockchain.tla` is the coordinator. Each caller `c` has a program counter
  `pc[c]` that names the next step of the call it is in. A call is split only
  where another goroutine can observe or change shared state:
  * `AddCheck` / `AddAppend`: AddTransaction's checks and its append;
  * `EBStart` / `LoopHead`: ExecuteBlock's checks and loop head;
  * `ENTBegin` / `ENTEnd`: executeNextTransaction takes the transaction at the
    cursor, then records the VM run;
  * `CBCheck` / `CBStore` / `CBSwap`: commitBlock's lifecycle checks
    (executed, not yet committed), then the reads of the block's
    transactions and ledger delta and `storage.CommitBlock`, then the swap
    of `b.pendingBlock`. A caller outside `b.mu` (an unlocked
    `AddTransaction`) can append between the check and the read.
    `storage.CommitBlock` may fail, up to `MaxStoreFail` times in a
    behaviour (`StoreCommitFails`): the error is returned before the swap,
    so the executed block stays pending;
  * `Lock`: `b.mu.Lock()` of a locked call. `Return` releases it (the `defer`).
    `Lock` waits until no writer (`mu`) and no reader (`rmu`) holds the lock.
  * `RLock` / `GRPending` / `GRStore`: a read-locked query takes the read lock,
    looks in the pending block, then looks in storage. `GetTransaction`
    finds a stored transaction by the block's transaction list
    (`SealedTxs`), `GetTransactionResult` by the stored ledger deltas
    (`SealedResults`): a transaction sealed without being run has no
    result. `RLock` also waits
    while a writer is waiting at `Lock`, as Go's `sync.RWMutex` makes new
    readers wait.
  * `TBBlock` / `TBNext`: `GetTransactionResultsByBlockID` and
    `GetTransactionsByBlockID`. `TBBlock` is the unlocked `GetBlockByID`
    (codes.NotFound when the block is not stored) with the collection
    lookup folded in, since the collection is stored with the block. A
    block is named by its height. `TBNext` hands the block's next
    transaction to the `RLock` / `GRPending` / `GRStore` steps; their
    answer is appended to `qres[c]` instead of being returned
    (`Collect`). `GetTransactionsByBlockID` returns
    TransactionNotFoundError as soon as one ID is unknown.
  * `CALast`: CreateAccount's `lastResult := results[len(results)-1]`. It
    panics when there are no results; otherwise it goes on to the second
    `commitBlock`, whose error CreateAccount returns.
    CreateAccount reuses the AddTransaction and executeAndCommitBlock steps
    above.

  `held[c]` records whether the block `c` is executing in is still
  `b.pendingBlock`. Go calls `ExecuteNextTransaction` on the block that was
  pending when the call started, so a run whose block was swapped out writes
  into a discarded object. A VM run is abstracted to its transaction ID,
  appended to the view it ran against. A block's ledger delta is the sequence
  of its runs. Four variables exist only for the properties:
  * `accepted` and `discarded` are history variables;
  * `obs[c]` is a transaction's status when a query took the read lock;
  * `res[c]` is the status the query returned.

  `results[c]` is the results slice of a CreateAccount's ExecuteBlock, and
  `mine[c]` is the transaction that CreateAccount submitted, and
  `lastResult[c]` the transaction of the result it took.
* `ChainAbstract.tla` is what the coordinator promises (spec.md 3, 4.1 and 8),
  stated with no goroutines, no lock and no store:
  * the chain grows one block at a time;
  * a block holds its admitted transactions in order;
  * they run in order, each once, before the commit;
  * an ID is admitted at most once while it is pending or committed.
* `EmulatorServer.tla` is the REST admin server of `server/api.go`, and
  the store it shares with every `Blockchain` it configures:
  * The store keeps named snapshot contexts: `ctx[n][h]` is the block at
    height `h` of context `n`, `top[n]` its latest height, `known` what
    `Snapshots()` lists, and `cur` the context that reads and writes go to.
  * A `Blockchain` instance is reduced to `tip[i]`, the block its pending
    block is built on. `emu` is `adapter.Emulator()`.
  * A block is `[inst, h, pinst]`: the instance that committed it, its
    height, and the instance that committed its parent. Pending blocks are
    empty here, because `Blockchain.tla` covers their contents.
  * Requests are split at every store or adapter access:
    * `Commit` / `Respond`: `/emulator/newBlock`. `Commit` is
      `adapter.Emulator().CommitBlock()`. It is one step, because it holds
      that instance's `mu`. `Respond` is the `GetLatestBlock` that the
      response reports.
    * `SCCheck` / `SCJump`: `SnapshotCreate`, its name checks and then
      `JumpToSnapshot(name, true)`.
    * `SJCheck` / `SJJump`: the same for `SnapshotJump`.
    * `Configure` / `SetEmulator` / `Respond`:
      `reloadBlockchainFromSnapshot`, i.e. `configureBlockchain`, then
      `SetEmulator`, then `GetLatestBlock`. `configureBlockchain` may
      fail, up to `MaxConfigFail` times (`configFails`): the handler
      answers 500 and the old emulator stays installed.
    * `EVLatest` / `EVBlock` / `EVEvents`: `GetEventsForHeightRange`.
      `EVLatest` validates the type, reads the latest height once, clamps
      the range and rejects `start > end`. Then, for each height, `EVBlock`
      reads the block and `EVEvents` reads the events.
    * `XSLatest` / `XSHeight` / `XSId`, then `XSRun`: `ExecuteScript`
      (and `GetAccount`), `ExecuteScriptAtBlockHeight` and
      `ExecuteScriptAtBlockID` resolve a block, then `XSRun` reads the
      ledger view at its height and runs the VM (one step that succeeds
      or fails). `rl[c]` is the instance whose `mu` a read-locked script
      holds; a commit through that instance waits for it.
    * `EIValidate` / `EIBlock` / `EIEvents`: `GetEventsForBlockIDs`, the
      type check, then per ID `GetBlockByID` and `GetEventsByHeight`.
    * `Storage`: `GET /emulator/storages/{address}`, i.e.
      `adapter.Emulator().GetAccountStorage`, which reads the pending
      block's view with no lock.
  * A read's result is a sequence of `[block, data]`: the block it names
    and the block whose state or events it actually read.
  * `build` is the handler set the server registers. `api.go` and the
    older `server/emulator.go` both define `EmulatorAPIServer`, so one
    build has one of the two sets. `Routes` and `LegacyRoutes` are their
    routers. `snapOn` says whether the store supports snapshots: api.go
    asks for a `SnapshotProvider` with `SupportSnapshotsWithCurrentConfig`,
    the older handlers for a `*badger.Store`. Both are fixed at Init.
  * The older handlers differ from api.go's in two places:
    * `LegacyCommitBlock` (the older `/emulator/newBlock`) ignores the
      commit's error;
    * `LegacySnapshotList` asserts the badger store without the `ok` form,
      so it panics on another store (status `Aborted`), where api.go's
      `SnapshotList` answers 500.

    Their create and jump handlers make the same checks as api.go's, with
    the badger type assertion and `ListContexts` (`LegacySCCheck`,
    `LegacySJCheck`); `JumpToContext` and the reload are the steps api.go's
    handlers take (`SCJump` / `SJJump`, `Configure`, `SetEmulator`,
    `Respond`). `LegacyStorage` is the older storage endpoint, which goes
    through `m.backend` instead of `m.adapter` and answers the same way.
  * `Config` (`GET /emulator/config`) reads the service key of the
    Blockchain the server started with. Every instance has the same key,
    so it changes nothing.
  * The semantics of `JumpToSnapshot` are not in `src/`, so they are taken
    from how `api.go` uses it:
    * `create = true` copies the current context under the new name and
      switches to it, and refuses a name that exists;
    * `create = false` switches to the named context as it was left.
* `ServerRoutines.tla` is the storage routine and the REST server routine
  of `server/emulator.go`, each a `graceland.Routine` whose `Start` runs on
  its own goroutine:
  * `BadgerStorage.Start` loops on a `select` between the GC ticker
    (`Tick`: `time.Ticker` keeps one pending tick and drops the rest;
    `GCTick`: `RunValueLogGC`, whose error ends `Start` without closing the
    store) and the `done` channel (`DoneRecv`: `store.Close()` and return).
  * `Stop` sends on `done`, a channel of capacity 1 (`StopCall`, then
    `BadgerStop`, which blocks while the buffer is full). `Stoppers` are
    the callers of `Stop`.
  * The Memory, Redis and Sqlite storages return from `Start` at once
    (`StartNoop`), and their `Stop` is empty.
  * `RestStart` opens the listener if there is none (a failed `Listen`
    ends `Start`), `RestServe` is `Serve` returning `ErrServerClosed`
    after `Shutdown`, and `RestStop` is `Shutdown`.
* `MCBlockchain.tla`, `MCEmulatorServer.tla` and `MCServerRoutines.tla` hold the model values and the caller profiles (`OpsOf`):
  which API methods each goroutine calls.

## Runs

| run | profile | checks | result |
|---|---|---|---|
| `serialized` | c1: `AddTransaction`, `CreateAccount`, `CommitBlock`, `ExecuteAndCommitBlock`; c2: `ExecuteNextTransaction`, `ResetPendingBlock`, `GetTransactionResultsByBlockID`; one failed `storage.CommitBlock` | TypeOK, SealedExactlyOnce, NoTxSealedTwice, PendingOnTopOfLatest, CreateAccountReadsOwnResult, CreateAccountHasResult, CommitExtendsChain, ChainSpec (refinement of ChainAbstract), CallsReturn, BlockResultsSealed | passes, 136k states, 40 s |
| `unexecuted_tx_sealed` | c1: `AddTransaction`, `CreateAccount`; c2: the locked mining API (`MCOpsSubmitterAndMiner`) | SealedExactlyOnce | **violated** |
| `reads` | c1: auto-mine `SendTransaction`, `ExecuteBlock`, `ResetPendingBlock`; c2: the two queries and `GetTransactionsByBlockID` | ResultNotStale, CallsReturn | passes, 136k states, 40 s |
| `lost_tx` | as `unexecuted_tx_sealed` | AcceptedNotLost | **violated** |
| `automine_double_run` | two auto-mine `SendTransaction` callers | SealedExactlyOnce | **violated** |
| `create_account_error_after_commit` | `CreateAccount` against an `AddTransaction` caller, no store failure | CreateAccountErrorMeansNotCreated | **violated** |
| `server_serial` | one client makes every request of either build, one at a time, on stores with and without snapshots | TypeOK, StoreChainLinked, EmulatorOnLatest, RESTCommitReportsOwnBlock, ReadsMatchBlock | passes, 228k states |
| `snapshots_concurrent` | both: snapshot create/jump of either build; c1 commits, c2 queries events | EventsMatchReference, SnapshotCreatedOnce | passes, 2.06M states, about 2 min |
| `legacy_commit_error_ignored` | the `server/emulator.go` handler, one storage failure | RESTCommitReportsOwnBlock | **violated** |
| `snapshot_stale_commit` | snapshot requests against a committer | StoreChainLinked | **violated** |
| `script_across_jump` | `ExecuteScriptAtBlockHeight` against commits and jumps | ReadsMatchBlock | **violated** |
| `routines` | every storage kind, two `Stop` callers, the stub GC that never fails | TypeOK, StopReturns, StartsReturnAfterStop | passes, 801 states |

What the runs show. Some counterexamples below name a property and a caller
profile instead of a run. The run list keeps one violation per root cause;
TLC finds those others when that profile is set as `OpsOf` in the cfg of the
run that checks the property.

* **The lock discipline is correct when every writer uses it.** When the
  goroutine that submits is also the one that commits, and a second one
  executes and resets under the lock, the coordinator implements
  `ChainAbstract`, and every call returns. This includes fatal VM errors,
  resets and a failed store write.
* **`AddTransaction` takes no lock, and that is enough to break these
  guarantees:**
  * `unexecuted_tx_sealed`: commitBlock checks that the block is executed,
    then reads its transactions. An `AddTransaction` of another goroutine
    between the two (the block's execution is complete for an empty block
    or one whose queue has run) appends a transaction the block never
    ran. It is stored as sealed, with no result: `GetTransaction` finds
    it and `GetTransactionResult` answers NotFound.
  * `lost_tx`: the append lands in a block that was just committed, or is
    refused because execution has started. Either way nil is returned and the
    transaction never runs.
  * one ID can be sealed at two heights (NoTxSealedTwice, profile
    `MCOpsTwoSubmitters`).
* **Auto-mine commits without the lock:**
  * `automine_double_run`: two callers run the same transaction twice in one
    block, and the cursor overshoots the queue.
  * it recommits a block a locked `CommitBlock` has just stored
    (CommitExtendsChain, profile `MCOpsAutoMineAndMiner`), so the store's block at that height is overwritten.
* **Queries are safe:** the two queries never report a transaction as less
  far along than it was when they took the read lock, even against an
  unlocked auto-mine commit. This holds because `commitBlock` stores the
  block before it swaps `b.pendingBlock`, and the queries look in the
  pending block first. Without the read lock, a concurrent
  `ResetPendingBlock` would make a pending transaction read as Unknown.
* **Block results are consistent only while every commit is locked.**
  `GetTransactionResultsByBlockID` reads the block with no lock and each
  result under its own RLock. In `serialized` (where every submission is
  by the committing goroutine, so the check-then-read race above cannot
  seal an unrun transaction) every transaction of a block
  it finds is reported sealed: a locked commit stores the block and swaps
  the pending block under one `b.mu.Lock()`, so a result lookup that
  follows the block read waits for the swap. An auto-mine commit is
  unlocked. A block read between its store and its swap returns the new
  block, and the lookups then find its transactions still in the pending
  block and report them Pending (BlockResultsSealed, profile
  `MCOpsBlockReadsAutoMine`; `block_results_automine.cfg` reproduces it
  in 16 states).
* **CreateAccount is not safe:** it holds `b.mu`, but its
  `results[len(results)-1]` is its own result only if every other submitter
  takes the lock too:
  * an unlocked `AddTransaction` makes it read a foreign result
    (CreateAccountReadsOwnResult, profile `MCOpsCreateAccount`);
  * an auto-mine commit makes its append be refused silently, so it executes
    an empty block and indexes `-1`, which panics (CreateAccountHasResult,
    profile `MCOpsCreateAccountAutoMine`; `create_account_no_result.cfg`
    reproduces it);
  * `create_account_error_after_commit`: after its account transaction is
    sealed, CreateAccount calls `commitBlock` a second time and returns that
    call's error. An unlocked `AddTransaction` into the fresh pending block
    makes the second commit refuse (commit before execution), so
    CreateAccount reports failure for an account that exists; a caller
    that retries creates a second one. One failed `storage.CommitBlock`
    does the same with no other caller (`MaxStoreFail = 1`, profile
    `MCOpsCreateAccountAlone`).
* **A failed store write is harmless to the coordinator.** In `serialized`
  one `storage.CommitBlock` fails; the block stays pending and the next
  commit stores it, and the refinement and the chain properties still hold.
* **The admin server is safe only one request at a time.** When one client
  makes every admin request in turn, each snapshot context stays a
  parent-linked chain, and the installed emulator builds on the latest
  block. The handlers take no lock, though, so concurrent requests break
  this:
  * `snapshot_stale_commit`: a commit between `JumpToSnapshot` and
    `SetEmulator` goes through the old emulator. It writes a block whose
    parent is in another context, or leaves heights missing.
  * a commit between `configureBlockchain` and `SetEmulator` leaves the new
    emulator building on a stale block (EmulatorOnLatest, profile
    `MCOpsJumpAndCommit`).
  * `script_across_jump`: a jump between `ExecuteScriptAtBlockHeight`'s
    block read and its ledger-view read runs the script on another
    context's state, although the request holds its instance's RLock:
    the snapshot handlers do not take it. The event queries do the same
    with no lock (ReadsMatchBlock, profile `MCOpsQueryAcrossJump`), and
    the storage endpoint reads the emulator a jump is about to replace
    (ReadsMatchBlock, profile `MCOpsStorageAcrossJump`).
  * `/emulator/newBlock` answers with the latest block, which may be
    another request's (RESTCommitReportsOwnBlock, profile
    `MCOpsTwoCommits`).
  * `legacy_commit_error_ignored`: the older handler answers 200 after a
    failed commit.
* **Two creates of one snapshot are never both answered 200.** Both can
  pass the `Snapshots()` check before either jumps. The store refuses the
  second `JumpToSnapshot(name, true)`, and the handler answers it 500
  (not the 409 of the check).
* **The older `SnapshotList` panics on a store other than badger.**
  `server_serial` reaches it (status `Aborted`). No run states the 500 that
  the other snapshot handlers answer, because all 12 runs are in use.
* **The storage routine stops cleanly only while GC never fails.** With the
  stub badger build of `part_005`, where `RunValueLogGC` returns nil,
  `routines` shows that every `Stop` returns, even a second one, and that
  both `Start` calls return. With `GCResults = {"ok", "err"}` (a real
  badger that can fail a GC), `Start` returns on the GC error without
  `store.Close()`; after that the first `Stop` fills the one-slot `done`
  buffer and a second `Stop` blocks forever (StopReturns).
* **A failed reload leaves the old emulator installed.** When
  `configureBlockchain` fails after a snapshot jump has moved the store,
  the handler answers 500 but the installed emulator still builds on the
  previous context's block (EmulatorOnLatest, `MaxConfigFail = 1`;
  `reload_failure_stale_emulator.cfg` reproduces it in 14 states).
* **The height-range clamp is right.** Even with jumps under it,
  `GetEventsForHeightRange` returns exactly the reference range for the
  latest height it read, where an end of 0 means "to the latest". It
  returns the invalid-argument error exactly when that range is empty.
* **Two concurrent executions overshoot the cursor.** An unlocked
  `ExecuteBlock` racing another execution runs one transaction twice and
  pushes the cursor past the queue, and the next
  `ExecuteNextTransaction` panics (`ENTBegin`'s `Panicked` case). Every
  passing profile keeps executions apart, because the double run already
  breaks SealedExactlyOnce (`automine_double_run`) and ResultNotStale; the
  panic case is therefore reached only in profiles outside the run list
  (for example `reads` with `ExecuteBlock` moved to c2).

Every property of a passing run has a mutant in `PROJECT.json`: a plausible
bug in the modelled code (a dropped check, a missing unlock, an off-by-one
height) under which TLC finds the property violated.

## Bounds

* Two callers, which is enough for every race above.
* Three transaction IDs, one of them rejected by the validator.
* `MaxHeight = 2`: no commit-capable call starts once height 2 is committed.
  The by-block queries ask for heights 1..`MaxHeight`, so a stored
  block, a block being stored, and one never stored (NotFound) are asked for.
  Every finding needs at most two commits.
* `MaxFatal = 1`: one fatal VM error per behaviour covers the error path of
  every caller.
* `MaxStoreFail`: one failed `storage.CommitBlock` in `serialized`, none
  elsewhere. The failure returns before any state changes, so one is
  enough to reach every caller's error path.
* `EmulatorServer`:
  * two snapshot names (the default context and one more);
  * `MaxCommits = 2` commit requests and `MaxSnapshotOps = 2` snapshot
    requests per behaviour, which lets two contexts diverge and a jump
    land between them;
  * `MaxStoreFail = 1`, one failed `storage.CommitBlock`;
  * `MaxConfigFail`, failed `configureBlockchain` calls: 1 in
    `snapshots_concurrent` (against a concurrent committer), 0 elsewhere;
  * event queries are unbounded, because they are read-only, and their
    arguments range over every start height, end heights from 0 to one
    past the highest, and an empty type; by-ID reads name one or two IDs
    of blocks some context holds, or an ID no block has.

* `ServerRoutines`: two `Stop` callers, which is the least that can fill the
  `done` buffer; `MaxTicks = 2`, so a tick can be pending when `done`
  arrives and the `select` has both cases ready.

## Fairness

A caller that can take its next step eventually does: `WF` on `Step(c)`.
Goroutines are preemptively scheduled, so this holds.

A caller waiting on `mu` gets it if `mu` is free infinitely often: `SF` on
`Lock(c)`. Go's `sync.Mutex` switches to starvation mode after a waiter has been
blocked for 1 ms.

`EmulatorServer` assumes the same `WF` for its requests, but checks no
liveness property. None of its steps waits: each instance's `CommitBlock`
is a single step there, so every request returns by the shape of the
model.

`ServerRoutines` checks liveness. Go's `select` picks uniformly among its
ready cases, so a `done` value that stays buffered is eventually received:
`WF` on `DoneRecv`, and on the other goroutine steps and the ticker. A sender
blocked on a full channel is queued and woken by a receive: `SF` on each
`BadgerStop(s)`. Calling `Stop`, and `RestStop`, is the caller's choice and
gets no fairness. The routines end, so `routines` sets `CHECK_DEADLOCK FALSE`.

Callers are never obliged to make a call. A panic ends the process, so `Next`
is disabled after `Panicked`, and `CallsReturn` asks only that a call return
unless the process has panicked. No passing `Blockchain` run reaches a panic,
so none sets `CHECK_DEADLOCK FALSE`.

## Not modelled yet (the plan for later work)

1. `ServiceKey()` (`part_000` 637-650) reads the service account at the
   latest block and then writes `b.serviceKey`'s index, sequence number
   and weight with no lock. The REST config handler and the tests call it
   unlocked, and CreateAccount calls it under `b.mu`. CreateAccount also
   signs with the sequence number of the latest committed block, not of
   the pending one. Both effects show only through the FVM's proposal-key
   check, and the model abstracts accounts away, so the two hazards in
   `PROJECT.json` have no property.
2. A store write that fails part way. `StoreCommitFails` takes a failed
   `storage.CommitBlock` to leave the store as it was; the engines'
   transactions are not in `src/`.
3. A fatal VM error that leaves partial writes in the view (spec.md 9).
4. The older `reloadBlockchainFromSnapshot` (`server/emulator.go`
   114-143) as its own steps: it does what api.go's does, in the same
   order, so it runs `Configure`, `SetEmulator` and `Respond`.
5. `GetTransactionResultByIndex`: the by-block result with an index
   bounds check (`len(results) <= index` is NotFound). The model's results
   are statuses, not records, so it cannot tell which transaction an index
   returns.
6. A property that no handler panics: the older `SnapshotList` does on a
   non-badger store (status `Aborted` in `server_serial`), but all 12
   runs are in use. (`deployContract` repeats CreateAccount's
   `results[len(results)-1]` pattern, but runs at startup before any
   server accepts requests.)

Not modelled at all: the FVM and Cadence, signature and payload validation
(reduced to the `Invalid` set), logging, the debugger, configuration, and the
storage engines. These are I/O or interpreters out of TLC's reach, and none of
them has concurrency of its own.
