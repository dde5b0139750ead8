# Namecoin Core: names in TLA+

Namecoin Core is Bitcoin Core plus a name database that is part of the
consensus. A name is a coin with a script: `NAME_NEW` commits to a salted name,
`NAME_FIRSTUPDATE` registers it, `NAME_UPDATE` moves and renews it, and a name
that is not renewed in time expires, which takes its coin out of the UTXO set
without any transaction. Two descriptions of each name therefore exist, its coin
and its database entry, and every connected or disconnected block changes both.
This project models that core and what lives around it: the caches, the flush
to disk and the recovery after a crash, the mempool, the threads that fetch
coins and check scripts, the index of name hashes and the merged-mining
templates. TLC checks each part on small instances, and TLAPS proves the main
safety properties for all values of the constants.

## The parts of the system

| Part | Source (below `src/src/`) | Modules |
| --- | --- | --- |
| Name consensus rules | `names/main.cpp`, `script/names.cpp`, `consensus/params.h` | `NameStore`, `NameDB` |
| Block connection and disconnection | `validation.cpp`, `undo.h` | `NameChain` |
| Choice of the best chain | `validation.cpp`, `chain.h` | `NameChain`, as any sequence of steps |
| Name mempool and the mempool around it, block assembly | `names/mempool.cpp`, `txmempool.cpp`, `validation.cpp`, `node/miner.cpp` | `NameMempool`, over `NameChain` |
| Flush and crash recovery | `validation.cpp`, `txdb.cpp` | `NameReplay`, over `NameChain` |
| Layered name caches and their iterators | `names/common.cpp`, `coins.cpp` | `NameCache`, implements `FlatNames` |
| Coins cache (DIRTY, FRESH) | `coins.cpp`, `coins.h` | `CoinsCache`, implements `FlatCoins` |
| Prefetching block view and thread pool | `coins.h`, `coins.cpp`, `util/threadpool.h` | `PrevoutFetch` |
| Script-check queue | `checkqueue.h` | `CheckQueue` |
| Name-hash index, validation callbacks | `index/base.cpp`, `index/namehash.cpp`, `validation.cpp` | `NameIndex` |
| Merged-mining templates | `rpc/auxpow_miner.cpp` | `AuxpowMiner` |
| Peers, address manager, transaction graph, scripts, storage, snapshots, version bits, wallet, user interfaces | see `PROJECT.json` | not modelled |

`PROJECT.json` has the complete list, with the reason for each part left out, and
for every definition the lines of code it stands for.

How they interact: `ActivateBestChainStep` calls `DisconnectTip` down to the
fork and `ConnectTip` up to the new tip. Each of them makes a cache (the *view*)
over the tip's cache, lets `ConnectBlock` or `DisconnectBlock` change the view,
and flushes it. While `ConnectBlock` checks and applies one transaction after
another, worker threads fetch the coins it is going to ask for, and others check
scripts. At the end it calls `ExpireNames` for the next height. What it
overwrites goes into the block's undo data: spent coins (`vtxundo`), replaced
name data (`vnameundo`) and expired coins (`vexpired`). `DisconnectBlock` undoes
the expirations, then the transactions, then the name operations. The mempool is
told which names expired or came back, validation callbacks tell the indexes
which blocks were connected, and the tip's cache reaches the disk at flushes, in
several batches, of which a crash may let only the first ones through.

## Modules

Definitions marked *Slip* are faulty variants of the definition after them. They
are used only to see that the properties notice the fault.

### `NameStore`, `NameDB` and `NameChain`: the consensus core

`NameStore` has the operations on a name database as pure operators; `NameDB` has
the consensus rules, over `db = [coins, names]`.

* `coins[o]` is the height of the unspent coin at `o`, or `Spent`. The script and
  amount of an output never change, so they are constants (`nameOp`, `nValue`).
* `names.data[n]` is `CNameData`: a height and the outpoint that set it. Value and
  address follow from that outpoint.
* `names.history[n]` is the `CNameHistory` stack, kept only with `-namehistory`.
* `names.expireIndex` is the set of pairs height and name.

The transactions are a constant catalogue (`Tx`, `vin`, `vout`), so a txid always
stands for the same content. A `NAME_NEW` hash is the pair of salt and name, that
is, the hash is taken to be injective. Where the code asserts, or logs a "system
error" and fails, the condition is an operator of its own, named `...Asserts`,
`...Checks` or `UndoClean`.

The variables of `NameChain` are `tip` (`CoinsTip()`), `view` (the
`CCoinsViewCache` of `ConnectTip` or `DisconnectTip`), `chain` (the blocks of
`m_chain` above `BaseHeight`, each with its `CBlockUndo`), `block` (the one in
progress), `pc` and `failed` (an assertion failed, or a system error stopped the
node).

| Action | Code |
| --- | --- |
| `ConnectBegin` | `ConnectTip` up to the call of `ConnectBlock` |
| `ConnectTx(t)` | one iteration of its loop: `CheckNameTransaction`, `UpdateCoins`, `ApplyNameTransaction` |
| `ConnectInvalid` | the block is refused for any reason and the view is reset |
| `ConnectEnd` | `ExpireNames` for height + 1, undo data stored, view flushed |
| `DisconnectBegin` | `UnexpireNames` |
| `DisconnectTx` | the coins of the last transaction undone, with every check for DISCONNECT_UNCLEAN |
| `DisconnectName` | the last `CNameTxUndo` applied |
| `DisconnectEnd` | view flushed, tip moved back |

The model stops with `failed` at the first inconsistency, where
`DisconnectBlock` remembers `fClean = false` and goes on to the end. The outcome
is the same: `DisconnectTip` drops the view and returns an error. Each block
also carries `coinsLog` and `namesLog`, the state before each of its steps: they
are history variables, and no guard reads them. Everything runs under `cs_main`,
so the steps of two blocks do not interleave. What the finer steps expose is a
block refused half-way, and the order in which undo lists touch the same coin.

### `NameMempool`: the mempool over the chain

It extends `NameChain` by `pool` (`mapTx` and the three maps of `CNameMemPool`),
`disconnectpool`, `fBlocksDisconnected`, `step` (where `ActivateBestChainStep`
is) and `poolFailed` (an assertion of the mempool failed).

* `AcceptToMemoryPool(t)`: `checkTx`, inputs, `CheckNameTransaction` for the
  mempool, replacement of any conflicts, `addUnchecked`, eviction of anything.
* `StepConnectBegin` ... `StepInside` run `NameChain`'s actions. `StepConnectEnd`
  then does `removeForBlock` with `removeConflicts`, and after it
  `removeExpireConflicts`; `StepDisconnectEnd` does `removeUnexpireConflicts` and
  queues the block's transactions in `disconnectpool` (with the assertion of
  `AddTransactionsFromBlock`), which may drop some.
* `Resurrect` accepts the disconnected transactions again one by one, or refuses
  one and removes its descendants; `StepEnd` does the rest of
  `MaybeUpdateMempoolForReorg`.
* `Templates` are the sets of transactions that the block assembler can select,
  with `TxAllowedForNamecoin`.

`cs_main` and the mempool's lock are held during a step, so transactions are
accepted only between two of them.

### `NameReplay`: flush, crash, recovery

It extends `NameChain` by `disk` (coins, names, `DB_BEST_BLOCK`,
`DB_HEAD_BLOCKS`), `flush` (what `BatchWrite` is writing) and `mode`.
`FlushBegin`, `PartialBatch` and `FinalBatch` are `CCoinsViewDB::BatchWrite`;
names go with the last batch only. `Crash` may happen anywhere, also during the
recovery. `ReplayBlocks`, `Rollback` (`DisconnectBlock` on what may be a
half-written state, unclean results included), `Rollforward`
(`RollforwardBlock`), `ReplayFlush` and `LoadChainTip` are the next start.
`PartialBatch` writes coins in any order, one at a time, which contains every
order and size of the real batches. A node that has replayed blocks is looked at
when it has loaded its tip, and not followed any further. A block hash is the
chain that ends in the block, so `IsAncestor` and `pprev` are about prefixes.

### `CoinsCache` and `FlatCoins`; `NameCache` and `FlatNames`

Both pairs have the same shape: a database, the tip's cache over it and the
cache of a block over that. The abstract module has three plain maps, `db`, `tip`
and `view`, with actions to change `view`, to commit it, to abandon it and to
persist `tip`. The detailed module has the caches as the code has them, and an
`INSTANCE ... WITH` that maps what can be read through each layer to the plain
maps.

`CoinsCache` has `cacheCoins` with the flags DIRTY and FRESH and
`m_dirty_count`, and as actions `Get`, `TipGet`, `Add`, `Spend`, `FlushView`,
`ResetView`, `FlushTip`, `SyncTip` and `UncacheTip`. `threw` says that
`std::logic_error` was thrown.

`NameCache` has `entries`, `deleted`, `history` and the changes of `expireIndex`
(`CNameCache`), as actions `Set`, `UndoSet`, `Delete`, `FlushView` (`apply`),
`ResetView`, `FlushTip` (`writeBatch`, with the cache kept) and `Restart`. The
iterators are operators: `CacheIterate` is `CCacheNameIterator` over another
iterator, with `NotDeleted` for `advanceBaseIterator` and `next` for one call, and
`DbIterate` is `CDbNameIterator`.

### `PrevoutFetch`: fetching on the thread pool

Actors are the main thread in `ConnectBlock`, the pool's workers and a
controller that interrupts, stops and starts the pool at any time. The main
thread's actions are `StartFetching` (inputs queued, without those that spend an
earlier output of the block), `Submit`, `ConnectInput` and `WaitReady`
(`FetchCoinFromBase`), `ConnectDone` or `ConnectRefused`, `StopFetching` and
`Clear`. A task is `Claim` (`m_input_head`), `Fetch`, `SetReady`; the workers
have `TakeTask` and `WorkerExit`, and `Stop` works off tasks itself (`StopDrain`)
before it joins. Relaxed atomics are taken as sequentially consistent.

### `CheckQueue`: checking scripts

`CCheckQueue::Loop` is split where it takes and gives up `m_mutex`: `CleanUp`,
`Return`, `Wait` (atomic with the release of the mutex), `WakeUp`, `Exit`,
`TakeBatch`, `Execute`. `Add`, the notification after it, `Complete` and the
destructor (`RequestStop`, `NotifyStop`, `Join`) are actions of their own, and so
is a spurious wake-up. A check stands for its outcome.

### `NameIndex`: the name-hash index

Two threads share `m_best_block_index`: the sync thread (`SyncNext`,
`SyncRecheck`, `SyncProcess`) until `m_synced`, and the scheduler thread that
works off the queue of validation callbacks (`BlockConnected`,
`CallbackProcess`, `CallbackSetBest`, `ChainStateFlushed`) from then on. `Commit`
is two steps, the comparison with the last flushed block and the write. The
chain moves by `ActivateBestChain` and `InvalidateBlock` and is flushed by
`FlushStateToDisk`; a caller waits in `BlockUntilSyncedToCurrentChain` and then
looks a name up. `Crash`, `Interrupt`, `Shutdown`, `Stop` and `Start` (with
`-reindex-chainstate` too) end and begin the process.

### `AuxpowMiner`: block templates for merged mining

`heap` has every template ever made, `blocks` those that the miner owns, and
`mapBlocks` and `curBlocks` point to them. `CreateNew`, `CreateCached` and
`CreateFails` are `createAuxBlock` with `getCurrentBlock`; `SubmitLookup` and
`SubmitProcess` are `submitAuxBlock`, the template being copied before the lock
is given up. Tip, mempool and clock change at any time.

### The rest

`MCNameChain`, `MCNameMempool`, `MCNameReplay`, `MCNameCache`, `MCPrevoutFetch`
and `MCNameIndex` hold the instances for TLC; the modules named `..._proofs` the
lemmas and theorems.

## Properties

The chain:

* `NoFailure`: no assertion of the name code fails, `ExpireNames` and
  `UnexpireNames` meet no inconsistency, every block disconnects cleanly.
* `NameDBConsistent`: `ValidateNameDB` holds at every tip.
* `UpdateCheckRedundant`: each unspent coin of a name is the one in the database
  and can be spent in the next block. `CheckNameTransaction` says in a comment
  that its database check of `NAME_UPDATE` is redundant; this is why.
* `HistoryMatchesChain`: history plus current data are exactly the updates in the
  active chain, in order.
* `DisconnectRestores`: disconnecting a block restores coins, data, history and
  expire index exactly.
* `OnlyOwnerUpdates`: a block changes a name that has not expired only by spending
  the name's coin.

The mempool:

* `NoPoolFailure`: no assertion of `CNameMemPool` and of the queue of disconnected
  transactions fails.
* `NameMapsMatchPool`: its maps are those of the transactions in the mempool, also
  in the middle of a reorganisation.
* `PoolInputsValid`: between steps, every entry has its inputs and passes the name
  checks for the next block, and no two conflict.
* `LastNameOutputUnique`: the pending updates of a name form one chain.
* `TemplateConnects`: every block that can be assembled passes the name checks of
  `ConnectBlock`.

Recovery:

* `NamesAtomic`: until blocks are replayed, the names on disk are wholly those of
  one block, and an interrupted flush or replay is continued to the same block.
* `ReplayedCoins`: whatever was written before, a replay ends with the coins of the
  new tip, coins of names excepted.
* `ReplayExact`: it ends with exactly the state of the new tip if the new branch has
  no name operation and no expiration and no old block expired two names.
* `RecoveryTerminates`: a crashed node comes up again.

Caches: `SanityCheck` (the function of that name, with `m_dirty_count`),
`FlagsContract` (DIRTY and FRESH mean what `CCoinsCacheEntry` says; nothing is
thrown), `CacheCoherent` (`CNameCache::empty`'s assertion), `IterationMatchesView`
(the nested iterators list what `GetName` finds, once and in order), and the
refinements `ImplementsFlatCoins` and `ImplementsFlatNames`.

Threads:

* `FetchedFromBase`, `ClaimsExclusive`, `AllInputsConsumed`: a coin is never read
  before it is written, nor `m_inputs` touched by a task of another block; a valid
  block uses up all inputs.
* `BlockFinishes`, `StopReturns`: also when the pool is stopped under a block.
* `CompleteFaithful`: `Complete` answers for exactly the checks of its block.
* `CompleteReturns` and `StopReturns` (of `CheckQueue`): no notification is missed.

Index: `NamesIndexed` (a name up to the best block has its entry, in memory and on
disk), `LookupComplete` (after `BlockUntilSyncedToCurrentChain` a lookup finds
every name of the chain that the call saw), `SyncedCoversTip` (no block is lost
when the sync thread hands over), `NoFatalError`, `SyncFinishes`, `CallerReturns`.

Merged mining: `PointersOwned`, `AnswersSubmittable`, `AnswerExtendsTip`.

`PROJECT.json` lists the hazards of the code and which property covers each.

## Runs

`tlc -config <cfg> <module>` repeats a run. Each passing run explores the complete
state space of its instance.

| Run | Configuration | Distinct states | Properties |
| --- | --- | --- | --- |
| `regtest` | `MCNameChain.cfg` | 100156 | the six of the chain |
| `mainnet_depth` | `MCNameChainMainNet.cfg` | 42583 | `NoFailure`, `NameDBConsistent` |
| `mempool` | `MCNameMempool.cfg` | 166345 | the five of the mempool |
| `coins_cache` | `CoinsCache.cfg` | 7056 | `SanityCheck`, `FlagsContract`, `ImplementsFlatCoins` |
| `name_cache` | `MCNameCache.cfg` | 116424 | `CacheCoherent`, `IterationMatchesView`, `ImplementsFlatNames` |
| `replay` | `MCNameReplay.cfg` | 221797 | the four of recovery |
| `prevout_fetch` | `MCPrevoutFetch.cfg` | 53152 | the five of fetching |
| `check_queue` | `CheckQueue.cfg` | 70909 | `CompleteFaithful`, `CompleteReturns`, `StopReturns` |
| `name_index` | `MCNameIndex.cfg` | 258659 | the six of the index |
| `auxpow_miner` | `AuxpowMiner.cfg` | 395660 | the three of merged mining |
| `chained_expiry` | `ChainedExpiry.cfg` | violated | `NoPoolFailure` |
| `name_db_recovered` | `NameDBRecovered.cfg` | violated | `NameDBRecovered` |

Deadlock is checked except in `replay`, where a recovered node is not followed
any further, and in `name_index`, where the moves and the starts of the node are
bounded and a node may stay down.

Instances and bounds, and why they are enough to be interesting:

* `regtest`: a constant expiration depth, as `RegTestConsensus` has, scaled from 30
  to 3, `MIN_FIRSTUPDATE_DEPTH` scaled from 12 to 1. Fourteen transactions: two
  competing registrations of name `a` with different salts, two conflicting
  updates and a chained one, a registration of `b`, and five that break a rule
  each (wrong name, name input without Namecoin version, no name output, amount
  too small, size limit). `MaxHeight` 6 lets a name be registered, expire, be
  registered again by its competitor and be disconnected back to the start.
  `MaxBlockTxs` 2 lets a block hold two operations on one name, so that both undo
  lists have two entries for it.
* `mainnet_depth`: the three phases of `MainNetConsensus` (constant, growing with
  the height, constant) with 12000 scaled to 2, so that both changes of phase lie
  inside the heights 1 to 9. It is about the range of heights that `ExpireNames`
  computes: while the depth grows, the range is empty. History is off.
* `mempool`: eight transactions of one name, depth 2, `MaxHeight` 4: a pending
  update is there when its name expires, a competing registration becomes
  possible and is resurrected or removed by a reorganisation. 5 was explored too
  (610,953 states). In this run the chained update's txid sorts before its
  parent's; `chained_expiry` has the other order.
* `replay`: two crashes, so that a crash can hit a replay; branches of up to three
  blocks with a registration, an update, expirations and payments.
* `coins_cache`: two outpoints, two coins, no bound. `name_cache`: two names, heights
  1 and 2, a history of one entry, both caches and restarts.
* `prevout_fetch`: two workers and the controller; blocks with independent inputs, an
  input from the same block, a missing one, one asked for twice, and none.
* `check_queue`: a worker and the master, two controls of up to three checks,
  batches of at most two: the queue can be emptied by either thread before or
  after the master waits. `MaxAdded` 4 was explored too (520,549 states).
* `name_index`: a branch of one and a branch of two blocks, two moves of the tip, two
  starts, a queue that blocks at two pending callbacks. The safety properties
  were also explored with three moves and one more pending callback (1,799,705
  states).
* `auxpow_miner`: two addresses and tips, three templates, one change of the mempool.

`MEMPOOL_HEIGHT` only has to exceed every height of the chain.

Each of the 40 properties of the passing runs was also checked against a faulty
variant of the code (the *Slip* definitions) that it must reject; `PROJECT.json`
pairs them up under `mutants`. All are rejected.

### Fairness

The chain, the mempool, the caches and the miner have no fairness: a node may
stop receiving blocks, transactions and calls at any time. Where threads wait for
each other, the assumption is that a thread that can run does:

* `NameReplay`: a flush in progress is completed and a started node goes on with
  loading its chainstate (weak fairness; `ReplayBlocks` is a loop without waits).
  Nothing makes a node crash or not crash, except the bound `MaxCrashes`.
* `PrevoutFetch`: weak fairness of each worker, each task, the main thread and a
  `Stop` that has begun. Nobody has to interrupt, stop or start the pool.
* `CheckQueue`: strong fairness of each thread's loop, as the threads compete for
  `m_mutex` and one of them gets it again and again; weak fairness of what needs
  no lock. A thread on a condition variable need not wake up unless notified, and
  nobody has to add checks or destroy the queue.
* `NameIndex`: weak fairness of the sync thread, the scheduler thread and `Stop`.
  The chain need not move.

## Where code and documentation disagree

Two disagreements have runs of their own and are `findings` in `PROJECT.json`:

* `chained_expiry`: `removeExpireConflicts` asserts that every pending update of an
  expired name is still in the mempool (`names/mempool.cpp:231`). If two are
  chained and the parent's txid sorts first, removing it has removed the other,
  and the assertion fails. `names/mempool.cpp:336` calls such chains "perfectly
  fine". Theorem `OnlyExpiryCanFail` says that this is the only one of the
  assertions behind `NoPoolFailure` that can fail.
* `name_db_recovered`: `RollforwardBlock` (`validation.cpp:4898`) replays coins and
  not names, so after a crash between two batches of a flush the coins are those
  of the new tip and the names are not.

For eight more the property is stated beside the model, with a configuration in
which TLC violates it:

| Configuration (module) | Statement | What the code does |
| --- | --- | --- |
| `PendingUpdateCheck.cfg` (`MCNameMempool`) | assertion in `names/mempool.cpp:288` | it fails for an update on top of a pending registration of an expired name |
| `FlushWipes.cfg` (`MCNameCache`) | `coins.h:577`: Flush will "wipe local state" | `Flush` keeps `cacheNames` (`coins.cpp:376`); harmless, by `ImplementsFlatNames` |
| `RollbackUndoes.cfg` (`MCNameReplay`) | `validation.cpp:4978`: an unclean result still has "the effects of that block undone" | `UnexpireNames` gives up at the first coin that is already there (`names/main.cpp:489`) |
| `CallAgainSame.cfg` (`AuxpowMiner`) | `test/auxpow_tests.cpp:567`: calling again returns "the same, cached block" | `emplace` keeps an older template of the address (`rpc/auxpow_miner.cpp:103`) |
| `SyncedAtTip.cfg` (`MCNameIndex`) | `index/base.cpp:227`: a null next block "means pindex is the chain tip" | it is also null when the tip was set back below the index |
| `NeverCommittedAhead.cfg` (`MCNameIndex`) | `index/base.cpp:334`: the index "must never be ahead of the flushed chainstate" | it is, when the chain is set back and flushed after `Commit` |
| `RewindsToBlock.cfg` (`MCNameIndex`) | assertion in `index/base.cpp:308` | after `-reindex-chainstate`, `Rewind` can be called with a null block |
| `CallerHasBest.cfg` (`MCNameIndex`) | `index/base.cpp:449`: "we're caught up" | with an empty data directory `m_synced` is set while there is no best block |

## What is proved

`tlapm <module>` checks the proofs of a module, for every value of the constants
that satisfies the assumptions. The bounds (`MaxHeight`, `MaxBlockTxs`,
`MaxMoves` and so on) are parameters of the theorems.

| Module | Theorem | Statement |
| --- | --- | --- |
| `NameChain_proofs` | `InvariantHolds` | `Spec => []IInv` |
| | `TypeCorrect` | `Spec => []TypeOK` |
| | `NeverFails` | `Spec => []NoFailure` |
| | `NameDBAlwaysConsistent` | `Spec => []NameDBConsistent` |
| | `UpdateCheckIsRedundant` | `Spec => []UpdateCheckRedundant` |
| | `DisconnectIsInverse` | `Spec => DisconnectRestores` |
| | `OnlyOwnersUpdate` | `Spec => OnlyOwnerUpdates` |
| | `TransactionsConfirmedOnce` | no transaction is twice in the chain: `Spec => []OnceInv` |
| | `HistoryAlwaysMatches` | `Spec => []HistoryMatchesChain` |
| `NameMempool_proofs` | `MempoolImplementsChain` | `PoolSpec => Spec` |
| | `NameMapsAlwaysMatch` | `PoolSpec => []NameMapsMatchPool` |
| | `PoolInvHolds` | `AmountSettled /\ PoolSpec => []PoolInv` |
| | `PoolInputsAlwaysValid` | `AmountSettled /\ PoolSpec => []PoolInputsValid` |
| | `OnlyExpiryCanFail` | only `removeExpireConflicts` sets `poolFailed` |
| | `ChainSafeUnderMempool` | `PoolSpec => [](NameDBConsistent /\ NoFailure)` |
| `NameTemplate_proofs` | `LastNameOutputAlwaysUnique` | `AmountSettled /\ SpendsOlder /\ PoolSpec => []LastNameOutputUnique` |
| | `TemplatesAlwaysConnect` | `AmountSettled /\ SpendsOlder /\ PoolSpec => []TemplateConnects` |
| `NameReplay_proofs` | `ReplayInvariant` | `ReplaySpec => []RInv` |
| | `NamesAlwaysAtomic` | `ReplaySpec => []NamesAtomic` |
| | `CoinsAlwaysReplayed` | `ReplaySpec => []ReplayedCoins` |
| | `ReplayIsExact` | `ReplaySpec => []ReplayExact` |
| | `RestartsAreConsistent` | `ReplaySpec => [](mode \in {"run", "flush"} => NameDBConsistent /\ NoFailure)` |
| `Caches_proofs` | `PointersAlwaysOwned` | `MinerSpec => []PointersOwned` |
| | `AnswersCanBeSubmitted` | `MinerSpec => []AnswersSubmittable` |
| | `AnswersExtendTheTip` | `MinerSpec => AnswerExtendsTip` |
| | `FlagsContractHolds` | `Spec => []FlagsContract` |
| | `StackImplementsFlatCoins` | `Spec => ImplementsFlatCoins` |
| | `SanityCheckPasses` | `Spec => []SanityCheck` |
| | `FetchesFromBase` | `OverlaySpec => []FetchedFromBase` |
| | `ClaimsAreExclusive` | `OverlaySpec => []ClaimsExclusive` |
| | `InputsAllConsumed` | `OverlaySpec => []AllInputsConsumed` |
| `NameCache_proofs` | `CachesStayCoherent` | `Spec => []CacheCoherent` |
| | `CachesImplementFlatNames` | `Spec => ImplementsFlatNames` |
| | `IterationAlwaysMatches` | `Spec => []IterationMatchesView` |
| `CheckQueue_proofs` | `CompleteAlwaysFaithful` | `Spec => []CompleteFaithful` |
| | `CountersExact` | `nTodo`, `nIdle` and `nTotal` count what they are meant to |
| `NameIndex_proofs` | `NamesAlwaysIndexed` | `Spec => []NamesIndexed` |
| | `BestBlockSurvives` | the block index on disk has the index's best block; `Init` never fails for want of it |
| | `SyncedIndexCoversTip` | `Spec => []SyncedCoversTip` |
| | `LookupAlwaysComplete` | `Spec => []LookupComplete` |
| | `FatalErrorNeverRaised` | `Spec => []NoFatalError` |

`NameChain_proofs` begins with the lemmas about the operators of `NameStore` and
`NameDB`. Lemmas that only one theorem needs are named steps of its proof
(`<1>SetNameUndone`, for example); the others stand on their own.

### The chain

Assumptions:

* `CatalogueAssumption`: a transaction spends something, no output is both spent
  and created by it, and two transactions create different outputs. This is what
  "a txid is a hash of the content" gives.
* `ParamsAssumption`: constants have their types; `MEMPOOL_HEIGHT` is above all heights.
* `DepthAssumption`: depths are positive; "n - expirationDepth(n)" never
  decreases, as the comment in `consensus/params.h` demands; and when a depth is
  at most `n` at height `n`, so was the one before. The last conjunct keeps the
  unsigned `expireFrom` from wrapping around. The depths of the three rule sets
  in `consensus/params.h` satisfy it by inspection; TLC evaluates it for the scaled
  ones of the runs.
* `BaseAssumption`: the coins at `BaseHeight` carry no names and are no output of
  a transaction in the catalogue.

None of the properties is inductive alone. That a block disconnects cleanly
depends on undo data written when it was connected, possibly many blocks ago, so
`IInv` says of *every* block of the chain:

1. its undo entries restore, step by step, what its logs recorded (`BlockOK`), and
   the logs of consecutive blocks join up (`After`);
2. before and after its transactions, `DBOK` held: an output of a connected
   transaction cannot be created again (`LedgerOK`), the expire index is the
   inverse of the data (`IndexOK`), history heights do not decrease
   (`HistoryOK`), coins and names describe each other (`CoinsMatchNames`);
3. its `vexpired` is what `ExpireNames` spent for that height.

`LedgerOK` is needed because BIP30 is not enforced on this chain: that an output
never overwrites another follows from its inputs having been spent before. From
`CoinsMatchNames` and `DepthAssumption`, lemma `ExpiringNamesExact` shows that
the names `ExpireNames` finds are exactly those whose coin may not be spent in
the next block; its checks then succeed and `UnexpireNames` finds each coin gone.
`NextOK`, a step of `InvariantInductive`, rests on one step per action.

`HistoryMatchesChain` says what one sequence contains and in which order, so its
invariant `HistInv` has a sequence of places for each name: the block and the
position of each of its updates, in ascending order and none left out
(`InOrder`). It is kept for *every* block of the chain (`After(i)`), not for the
tip alone, because disconnecting a block goes back to what was recorded before
it. `OnceInv` follows from `LedgerOK`: the inputs of a confirmed transaction are
spent, so it cannot be connected a second time.

### The mempool

Every step of `NameMempool` is a step of `NameChain` or leaves its variables
alone, so the theorems about the chain carry over. `MapsOK(pool)` says, map by
map, which transactions of the mempool each entry stands for; acceptance and
removal of any set of transactions preserve it. With it no assertion in
`addUnchecked` or `remove` can fail. `QueueOK` says that while blocks are being
disconnected the queue holds no transaction twice and none that is still in the
chain, so by `OnceInv` the assertion of `AddTransactionsFromBlock` holds as well,
and the one in `removeExpireConflicts` remains.

`PoolInputsValid` speaks of the time between two steps. In the middle of a
reorganisation it is false, so `PoolInv` says what is true throughout
(`EntriesOK`): an input of an entry is an unspent coin, the output of another
entry, or the output of a transaction that is still queued in `disconnectpool`;
no two entries spend the same coin; a pending registration is of a name that is
free; and each entry passes what `CheckNameTransaction` asks whatever the chain
is. That this survives a connected or disconnected block needs to know what the
block did, which is `ChainTraced`: its transactions created the coins that are
new and spent those that are gone, data that changed has its height, and a name
that was free was registered by it. What expires or comes back beside that is
just what `removeExpireConflicts` and `removeUnexpireConflicts` look at. When the queue is empty again `EntriesOK` gives `PoolInputsValid`. That the
descendants of a removed entry go with it is used through `WithDescendants` being
the least set closed under children.

For `LastNameOutputUnique`: each pending update spends one coin of its name, the
confirmed one (or that of the pending registration) or that of another update,
and no two spend the same. With the order of `SpendsOlder` that is one chain. For `TemplateConnects`, `BuiltOK` says of the state built so far
that it satisfies `DBOK`, as a block of the chain does, and agrees with the tip on
everything the rest of the template needs; it is proved by induction on the size
of the template.

The hypotheses of these theorems:

* `OrderAssumption` says only that the two orders are relations and that `NoTx` is
  no transaction.
* `AmountSettled`: `MinNameCoinAmount` is the same from `BaseHeight + 1` on. In
  `consensus/params.h` it is constant on the test networks, and on the main network
  it changes from 0 to 0.01 coins at height 212500 only, which is long past. An
  entry accepted before the change would no longer be valid after it: nothing in
  the mempool looks for that.
* `SpendsOlder`: transactions can be numbered so that each spends outputs of lower
  ones only. An outpoint contains the hash of its transaction, so a circle would
  be a cycle of hashes. `PoolInputsAlwaysValid` does not need it.

### Recovery

After a crash the active chain is gone, and what `ReplayBlocks` works with are two
chains on disk. `Valid(c)` is what `IInv` says of the active chain, as a statement
about a chain `c` by itself; `ActiveChain` gives it for the active chain, and
`AtRest` leads back from a valid chain to `IInv` when `LoadChainTip` has loaded it.
For this the invariant of the chain is extended by `Extra`: transactions spend coins
that are there, and the first block starts from the base coins.

`RInv` says where the database can be: at a block (`Complete`), or between the old
block and the new one (`Between`), with the names of the old block and each coin that
of the old or of the new block. While blocks are replayed (`Rolling`), each coin is
that of the block reached so far or already that of the new block: which of the two
is not known, because the flush wrote some coins and not others. Two lemmas about one
coin carry this over a block. `RollbackCoin`: undoing a block on a coin as it is after
the block gives it as it was before; a coin of the new tip stays or becomes that.
`RollforwardCoin` is the same in the other direction. They hold for a coin that is
not a name's, since then only transactions touch it, and for coins of names if the block
expired at most one name (back) or none (forth): `UnexpireNames` stops at a coin that
is there already, and `RollforwardBlock` does not expire. Names are rolled back as a
whole (`UndoNamesBack`, by induction on `vnameundo`) and never rolled forward, which is
the condition of `ReplayExact` on the new branch. `ForkFound` shows that the way back
ends at the last common ancestor.

`NameLessAssumption` says that the order of names is irreflexive. There is no
hypothesis on the number of crashes, on the batches or on the length of the branches.
What the two findings about recovery show is thus exactly what is left open: coins of
names and the name database after a replay outside of that condition.

### The caches

The invariants (`StackInv`, `CacheInv`) say of each cache what it means over the
layer below: for coins that FRESH entries are spent below and entries that are
not DIRTY are the same below; for names that no name is both set and deleted, and
that a name which is neither has no other change in the cache. From that
`BatchWrite`, `apply` and `writeBatch` show below just what was shown above,
and each action is a step of the plain maps or none. `SaneInv` adds that the
DIRTY entries are finitely many and that `m_dirty_count` is their number; each
operation on one entry, and `BatchWrite` over all of them, keeps the count.

For `IterationMatchesView`, `IsListing` says that a sequence has the names of a set in
ascending order with their data; two listings of the same set are the same
sequence (`ListingUnique`). `NotDeletedListing` is a loop invariant of
`advanceBaseIterator`, and `MergeOK` one of the calls of `next`: what was returned is in
order, comes before what either iterator has left, and covers what each has passed.
Each call advances an iterator, so the end is reached (`MergedEnds`), and a cache over
a listing of the layer below lists what the cache shows (`CacheListing`), once for the
tip and once for the block. `FiniteInv`, that finitely many names are set, makes the
listings exist.

`CacheAssumption` of `NameCache` (names are numbers, for the order of the
iterators; inputs are name data; "no history" is not a history) and the two
assumptions of `CoinsCache` only keep special values apart from ordinary ones.

### Fetching, the index, the templates

* `PrevoutFetch`: the tasks of a block are counted (`TasksCounted`: futures =
  finished + queued + running, by cardinality of the running threads), so
  `m_inputs` changes hands only when none is left; and each input below
  `m_input_head` belongs to one thread or is ready with the base's coin
  (`InputsClaimed`). `QueueOrder` says that the tail has passed just the queued
  ones among the inputs asked for so far, by induction on the loop that queued
  them (`Queued`). `BlockAssumption` says that there are finitely many workers and
  at least one, and that a block is a sequence of transactions with inputs.
* `CheckQueue`: `CheckInv` counts: `nTodo` is the checks in the queue and those that
  threads hold (as a set of pairs of thread and index), `nIdle` and `nTotal` are
  numbers of threads; and an error is in `m_result`, in the queue or in the batch
  of some thread until the control ends (`ErrorsKept`). So `nTodo = 0` means that no
  batch is out, and the result is that of all checks. `QueueAssumption` keeps
  threads, errors and `nullopt` apart and says that batches are not empty.
* `NameIndex`: the two threads take turns (`TurnsTaken`), so what `Commit` compared
  is what it writes; what each knows to be indexed at its place
  (`BlocksIndexed`); and the block index holds the chains in memory and on disk
  (`BlocksKnown`). `QueueInv` is about the pending callbacks: following them in
  order from where the index is leads to the tip (`TipReached`), or to what a
  waiting caller saw when its promise was queued (`CallerServed`); and an index
  without blocks gets genesis first (`GenesisFirst`). `TreeAssumption` says that
  every block but genesis has a predecessor one lower, and that `ancestors` and
  `nHeight` follow from that. That ancestry is transitive, has one block at each
  height, and that two branches share a last block, are lemmas by induction on the
  height.
* `AuxpowMiner`: everything owned can be looked up and was made for `pindexPrev`
  (`BlocksOK`), pointers are to owned templates (`CurrentOK`), and an answer can
  be looked up while `pindexPrev` stands (`AnswerOK`).

TLC finds each of these inductive invariants (`IInv`, `MapsOK(pool)`, `StackInv`,
`CacheInv`, `FetchInv`, `IndexInv`, `MinerInv`, `RInv`, and the further ones above) true in
every state of the instance that the module's run explores (`regtest` for `IInv` and
`HistInv`).

### Only model-checked

* Liveness: the provers do not handle fairness and ENABLED.
* `NoPoolFailure` as such: it does not hold for every order of txids.
  `OnlyExpiryCanFail` is what holds.

The induction theorems of the library take an operator as a parameter, which the
provers here cannot instantiate. Where a proof needs induction it takes the least
counterexample among the naturals, or counts, or the recursion is written as a
function whose equations are proved first; `SelectSeq` and operators declared
RECURSIVE are avoided for that reason.

## What is abstracted or left out

* Coinbases. They are assumed to have no name output. The coins of the first tip
  stand for the funds that transactions spend.
* The historic bugs (`IsHistoricBug`) and `d/postmortem`: fixed transactions of
  the past chain that were accepted against the rules. The results do not cover
  the heights at which `CheckNameDB` itself tolerates an inconsistent database.
* Every reason to refuse a block that does not concern names (scripts, fees, lock
  times, sigops, rewards) is contained in `ConnectInvalid`, which may happen at
  any point of a block.
* Undo data is read back as it was written; the branch of `ApplyTxInUndo` for
  undo records without height, which only old databases have, is left out.
* In `NameChain` the view is a copy of the tip and a flush is an assignment. That
  the layered caches implement this is what `NameCache` and `CoinsCache` show.
* Fees, size limits and the transaction graph of the mempool: what is replaced,
  evicted or selected is any choice. Package acceptance is left out; it validates
  several transactions against one another before any is added.
* Memory accounting of the caches, `EmplaceCoinInternalDANGER` and the encodings in
  LevelDB; pruning and disk-space errors in the flush; reads of an index that fail,
  and indexes other than the name-hash index.
* `CAuxPow::check`: hash and Merkle arithmetic on a given proof.
* Whole parts: the peer-to-peer layer, address manager, wallet, user interfaces
  (inherited, or input and output, and without name state); the transaction graph
  (optimisation, out of TLC's reach); scripts and cryptography (computation on
  bytes; hashes are taken as injective); block storage (file access); snapshots
  (coins only); version bits (a function of headers).
