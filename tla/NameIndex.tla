----------------------------- MODULE NameIndex -----------------------------
(***************************************************************************)
(* The name-hash index: BaseIndex and NameHashIndex.  A background thread  *)
(* (Sync) indexes the chain up to its tip and then hands over to the       *)
(* validation callbacks, which a scheduler thread works off in order while *)
(* the chain moves on, is flushed, or the node goes down and comes back.   *)
(* A block is known by its ancestors and by the names that it registers.   *)
(***************************************************************************)
EXTENDS Integers, Sequences, TLC

CONSTANTS
  Block, genesis, null,
  pprev,         \* pprev[b]: the predecessor, null for genesis
  nHeight,       \* nHeight[b]: the number of blocks below b
  ancestors,     \* ancestors[b]: b and all blocks below it
  names,         \* names[b]: the names with a NAME_FIRSTUPDATE in b
  InitialTip,    \* best blocks of the data directory before the first start
  MaxPending,    \* callbacks pending before the chain waits for them
  MaxMoves,      \* bound on the moves of the tip
  MaxRestarts    \* bound on the starts of the node

ASSUME TreeAssumption ==
  /\ genesis \in Block /\ null \notin Block
  /\ pprev \in [Block -> Block \cup {null}] /\ pprev[genesis] = null
  /\ nHeight \in [Block -> Nat] /\ nHeight[genesis] = 0
  /\ ancestors \in [Block -> SUBSET Block] /\ ancestors[genesis] = {genesis}
  /\ \A b \in Block \ {genesis} :
       /\ pprev[b] \in Block
       /\ nHeight[b] = nHeight[pprev[b]] + 1
       /\ ancestors[b] = {b} \cup ancestors[pprev[b]]
  /\ DOMAIN names = Block
  /\ InitialTip \subseteq Block \cup {null}

VARIABLES
  node,                  \* "up", "stopping" or "down"
  fatal,                 \* what ended it for good, "none" before
  m_chain,               \* the tip of the active chain, null if empty
  m_block_index,         \* the blocks in memory
  m_last_flushed_block,
  blockIndexDB,          \* the blocks in the block index on disk
  coinsDB,               \* the best block of the chainstate on disk
  signals,               \* the callbacks that are pending
  m_synced,
  m_best_block_index,
  m_interrupt,
  pc,                    \* where the "sync" and the "callback" thread are
  ret,                   \* where each of them goes on after Commit
  pindex,                \* the block each of them works on
  bestDB,                \* DB_BEST_BLOCK of the index
  hashDB,                \* the names with a DB_HASH entry
  reader,                \* a caller of BlockUntilSyncedToCurrentChain
  readTip,               \* the tip that it saw
  moves, restarts

chainVars == <<m_chain, m_block_index, m_last_flushed_block, blockIndexDB, coinsDB>>
indexVars == <<m_synced, m_best_block_index, m_interrupt>>
threadVars == <<pc, ret, pindex>>
dbVars == <<bestDB, hashDB>>
readVars == <<reader, readTip>>
boundVars == <<moves, restarts>>
vars == <<node, fatal, chainVars, signals, indexVars, threadVars, dbVars, readVars, boundVars>>

Chain(b) == IF b = null THEN {} ELSE ancestors[b]

(* GetAncestor(p->nHeight) == p, where GetAncestor(-1) is null.            *)
HasAncestor(b, p) == p \in Chain(b) \cup {null}

(* The first block of the chain of the tip that p is not built on; null if *)
(* there is none.                                                          *)
NextSyncBlock(p, tip) ==
  LET new == Chain(tip) \ Chain(p)
  IN  IF new = {} THEN null ELSE CHOOSE c \in new : HasAncestor(p, pprev[c])

(* What a process that ends leaves of the memory of the node.              *)
Down ==
  /\ node' = "down"
  /\ m_chain' = null /\ m_block_index' = {} /\ m_last_flushed_block' = null
  /\ signals' = <<>>
  /\ m_synced' = FALSE /\ m_best_block_index' = null /\ m_interrupt' = FALSE
  /\ pc' = [sync |-> "none", callback |-> "none"]
  /\ ret' = [sync |-> "none", callback |-> "none"]
  /\ pindex' = [sync |-> null, callback |-> null]
  /\ reader' = "none" /\ readTip' = null

Fail(reason) ==
  /\ Down
  /\ fatal' = reason
  /\ UNCHANGED <<blockIndexDB, coinsDB, dbVars, boundVars>>

(* The index is new; the data directory may have been in use.              *)
Init ==
  /\ node = "down" /\ fatal = "none"
  /\ m_chain = null /\ m_block_index = {} /\ m_last_flushed_block = null
  /\ coinsDB \in InitialTip /\ blockIndexDB = {genesis} \cup Chain(coinsDB)
  /\ signals = <<>>
  /\ m_synced = FALSE /\ m_best_block_index = null /\ m_interrupt = FALSE
  /\ pc = [sync |-> "none", callback |-> "none"]
  /\ ret = [sync |-> "none", callback |-> "none"]
  /\ pindex = [sync |-> null, callback |-> null]
  /\ bestDB = null /\ hashDB = {}
  /\ reader = "none" /\ readTip = null
  /\ moves = 0 /\ restarts = 0

-----------------------------------------------------------------------------
(* The chain.                                                              *)

(* AppInitMain up to BaseIndex::Init; with -reindex-chainstate the         *)
(* chainstate is wiped, the index is not.                                  *)
Start(wipe) ==
  LET tip == IF wipe THEN null ELSE coinsDB IN
  /\ node = "down" /\ fatal = "none"
  /\ restarts < MaxRestarts /\ restarts' = restarts + 1
  /\ coinsDB' = tip /\ m_chain' = tip /\ m_last_flushed_block' = tip
  /\ m_block_index' = blockIndexDB
  /\ IF bestDB # null /\ bestDB \notin blockIndexDB
     THEN fatal' = "InitError" /\ UNCHANGED <<node, m_best_block_index, m_synced>>
     ELSE /\ node' = "up"
          /\ m_best_block_index' = bestDB
          /\ m_synced' = (bestDB = tip)
          /\ UNCHANGED fatal
  /\ UNCHANGED <<blockIndexDB, signals, m_interrupt, threadVars, dbVars, readVars, moves>>

(* LimitValidationInterfaceQueue.                                          *)
MayMove ==
  /\ node = "up"
  /\ Len(signals) <= MaxPending
  /\ moves < MaxMoves /\ moves' = moves + 1

Connected(b) == [event |-> "BlockConnected", block |-> b]

GetAncestor(b, height) == CHOOSE a \in ancestors[b] : nHeight[a] = height

(* The last block that the chain of b shares with the active chain.        *)
FindFork(b) ==
  LET common == ancestors[b] \cap Chain(m_chain)
  IN  IF common = {} THEN null ELSE CHOOSE c \in common : common \subseteq ancestors[c]

(* The blocks to connect, the lowest first.                                *)
vpindexToConnect(b) ==
  LET pindexFork == FindFork(b)
      nFork == IF pindexFork = null THEN -1 ELSE nHeight[pindexFork]
  IN  [i \in 1..(nHeight[b] - nFork) |-> GetAncestor(b, nFork + i)]

(* A switch to the chain of b: what is between two releases of cs_main.    *)
ActivateBestChain(b) ==
  /\ MayMove
  /\ b \notin Chain(m_chain)
  /\ m_chain' = b
  /\ m_block_index' = m_block_index \cup ancestors[b]
  /\ LET path == vpindexToConnect(b)
     IN signals' = signals \o [i \in DOMAIN path |-> Connected(path[i])]
  /\ UNCHANGED <<node, fatal, m_last_flushed_block, blockIndexDB, coinsDB, indexVars,
                 threadVars, dbVars, readVars, restarts>>

(* One round of its loop; the index has no handler for BlockDisconnected.  *)
InvalidateBlock ==
  /\ MayMove
  /\ m_chain \notin {null, genesis}
  /\ m_chain' = pprev[m_chain]
  /\ UNCHANGED <<node, fatal, m_block_index, m_last_flushed_block, blockIndexDB, coinsDB,
                 signals, indexVars, threadVars, dbVars, readVars, restarts>>

Flushed ==
  /\ m_chain # null
  /\ blockIndexDB' = m_block_index
  /\ coinsDB' = m_chain
  /\ m_last_flushed_block' = m_chain
  /\ signals' = Append(signals, [event |-> "ChainStateFlushed", block |-> m_chain])
  /\ UNCHANGED <<m_chain, m_block_index>>

FlushStateToDisk ==
  /\ node = "up"
  /\ Len(signals) <= MaxPending
  /\ Flushed
  /\ UNCHANGED <<node, fatal, indexVars, threadVars, dbVars, readVars, boundVars>>

(* A crash, perhaps between the two writes of a flush.                     *)
Crash ==
  /\ node # "down"
  /\ Down
  /\ blockIndexDB' \in {blockIndexDB, m_block_index}
  /\ UNCHANGED <<fatal, coinsDB, dbVars, boundVars>>

-----------------------------------------------------------------------------
(* Commit, by either thread.                                               *)

Goto(t, next) == pc' = [pc EXCEPT ![t] = next] /\ UNCHANGED ret

Return(t) == pc' = [pc EXCEPT ![t] = ret[t]] /\ ret' = [ret EXCEPT ![t] = "none"]

CallCommit(t, next) == pc' = [pc EXCEPT ![t] = "commit"] /\ ret' = [ret EXCEPT ![t] = next]

(* Slip: the comparison with the last flushed block is missing.            *)
CommitUnchecked(t) ==
  /\ pc[t] = "commit"
  /\ IF m_best_block_index # null THEN Goto(t, "write") ELSE Return(t)
  /\ UNCHANGED <<node, fatal, chainVars, signals, indexVars, pindex, dbVars, readVars, boundVars>>

CommitCheck(t) ==
  /\ pc[t] = "commit"
  /\ IF m_best_block_index \in Chain(m_last_flushed_block) THEN Goto(t, "write") ELSE Return(t)
  /\ UNCHANGED <<node, fatal, chainVars, signals, indexVars, pindex, dbVars, readVars, boundVars>>

CommitWrite(t) ==
  /\ pc[t] = "write"
  /\ Return(t)
  /\ bestDB' = m_best_block_index
  /\ UNCHANGED <<node, fatal, chainVars, signals, indexVars, pindex, hashDB, readVars, boundVars>>

-----------------------------------------------------------------------------
(* The sync thread.                                                        *)

StartBackgroundSync ==
  /\ node = "up" /\ m_chain # null
  /\ pc.sync = "none"
  /\ IF m_synced
     THEN Goto("sync", "done") /\ UNCHANGED pindex
     ELSE Goto("sync", "loop") /\ pindex' = [pindex EXCEPT !.sync = m_best_block_index]
  /\ UNCHANGED <<node, fatal, chainVars, signals, indexVars, dbVars, readVars, boundVars>>

SyncInterrupted ==
  /\ pc.sync = "loop" /\ m_interrupt
  /\ m_best_block_index' = pindex.sync
  /\ CallCommit("sync", "done")
  /\ UNCHANGED <<node, fatal, chainVars, signals, m_synced, m_interrupt, pindex, dbVars, readVars, boundVars>>

(* Slip: the best block is set before the block is processed.              *)
AdvanceEarly(next) ==
  /\ m_best_block_index' = next
  /\ pindex' = [pindex EXCEPT !.sync = next]
  /\ Goto("sync", "process")

(* The way to the next block: a rewind to the fork if need be.             *)
Advance(next) ==
  /\ m_best_block_index' = IF pprev[next] # pindex.sync THEN pprev[next] ELSE m_best_block_index
  /\ pindex' = [pindex EXCEPT !.sync = next]
  /\ Goto("sync", "process")

SyncNext ==
  /\ pc.sync = "loop" /\ ~m_interrupt
  /\ LET next == NextSyncBlock(pindex.sync, m_chain) IN
       IF next = null
       THEN /\ m_best_block_index' = pindex.sync
            /\ CallCommit("sync", "recheck")
            /\ UNCHANGED pindex
       ELSE Advance(next)
  /\ UNCHANGED <<node, fatal, chainVars, signals, m_synced, m_interrupt, dbVars, readVars, boundVars>>

(* Slip: the tip is not looked at again after the commit.                  *)
SyncNoRecheck ==
  /\ pc.sync = "recheck"
  /\ m_synced' = TRUE
  /\ Goto("sync", "done")
  /\ UNCHANGED <<node, fatal, chainVars, signals, m_best_block_index, m_interrupt, pindex, dbVars, readVars, boundVars>>

(* Slip: only the tip itself ends the loop.                                *)
SyncOnlyTip ==
  /\ pc.sync = "recheck"
  /\ IF pindex.sync = m_chain
     THEN m_synced' = TRUE /\ Goto("sync", "done")
     ELSE Goto("sync", "loop") /\ UNCHANGED m_synced
  /\ UNCHANGED <<node, fatal, chainVars, signals, m_best_block_index, m_interrupt, pindex, dbVars, readVars, boundVars>>

SyncRecheck ==
  /\ pc.sync = "recheck"
  /\ LET next == NextSyncBlock(pindex.sync, m_chain) IN
       IF next = null
       THEN /\ m_synced' = TRUE
            /\ pindex' = [pindex EXCEPT !.sync = null]
            /\ Goto("sync", "done")
            /\ UNCHANGED m_best_block_index
       ELSE Advance(next) /\ UNCHANGED m_synced
  /\ UNCHANGED <<node, fatal, chainVars, signals, m_interrupt, dbVars, readVars, boundVars>>

(* CustomAppend, and now and then a commit.                                *)
SyncProcess ==
  /\ pc.sync = "process"
  /\ hashDB' = hashDB \cup names[pindex.sync]
  /\ \/ Goto("sync", "loop") /\ UNCHANGED m_best_block_index
     \/ /\ m_best_block_index' = pindex.sync
        /\ CallCommit("sync", "loop")
  /\ UNCHANGED <<node, fatal, chainVars, signals, m_synced, m_interrupt, pindex, bestDB, readVars, boundVars>>

-----------------------------------------------------------------------------
(* The callbacks, one after the other on the scheduler thread.             *)

(* Slip: a node that stops runs no callbacks any more.                     *)
HandlesUp(event) ==
  /\ node = "up"
  /\ pc.callback = "none"
  /\ signals # <<>> /\ Head(signals).event = event

Handles(event) ==
  /\ node # "down"
  /\ pc.callback = "none"
  /\ signals # <<>> /\ Head(signals).event = event

(* A handler that returns without doing anything.                          *)
Ignore ==
  /\ signals' = Tail(signals)
  /\ UNCHANGED <<node, fatal, chainVars, indexVars, threadVars, dbVars, readVars, boundVars>>

BlockConnected ==
  /\ Handles("BlockConnected")
  /\ \/ ~m_synced /\ Ignore
     \/ \E b \in Block :
        /\ m_synced /\ b = Head(signals).block
        /\ \/ /\ m_best_block_index = null /\ b # genesis
              /\ Fail("FirstBlock")
           \/ /\ m_best_block_index # null /\ ~HasAncestor(m_best_block_index, pprev[b])
              /\ Ignore
           \/ /\ m_best_block_index # null /\ b = genesis
              /\ Fail("RewindNull")
           \/ /\ m_best_block_index = null <=> b = genesis
              /\ HasAncestor(m_best_block_index, pprev[b])
              /\ signals' = Tail(signals)
              /\ m_best_block_index' = pprev[b]
              /\ pindex' = [pindex EXCEPT !.callback = b]
              /\ Goto("callback", "process")
              /\ UNCHANGED <<node, fatal, chainVars, m_synced, m_interrupt, dbVars, readVars, boundVars>>

CallbackProcess ==
  /\ pc.callback = "process"
  /\ hashDB' = hashDB \cup names[pindex.callback]
  /\ Goto("callback", "set")
  /\ UNCHANGED <<node, fatal, chainVars, signals, indexVars, pindex, bestDB, readVars, boundVars>>

CallbackSetBest ==
  /\ pc.callback = "set"
  /\ m_best_block_index' = pindex.callback
  /\ pindex' = [pindex EXCEPT !.callback = null]
  /\ Goto("callback", "none")
  /\ UNCHANGED <<node, fatal, chainVars, signals, m_synced, m_interrupt, dbVars, readVars, boundVars>>

ChainStateFlushed ==
  LET b == Head(signals).block IN
  /\ Handles("ChainStateFlushed")
  /\ \/ ~m_synced /\ Ignore
     \/ m_synced /\ b \notin m_block_index /\ Fail("Locator")
     \/ m_synced /\ b \in m_block_index /\ m_best_block_index = null /\ Fail("FlushedNull")
     \/ /\ m_synced /\ b \in m_block_index /\ m_best_block_index # null
        /\ ~HasAncestor(m_best_block_index, b)
        /\ Ignore
     \/ /\ m_synced /\ b \in m_block_index /\ m_best_block_index # null
        /\ HasAncestor(m_best_block_index, b)
        /\ signals' = Tail(signals)
        /\ CallCommit("callback", "none")
        /\ UNCHANGED <<node, fatal, chainVars, indexVars, pindex, dbVars, readVars, boundVars>>

-----------------------------------------------------------------------------
(* GetNameForLookup by hash: BlockUntilSyncedToCurrentChain, then the      *)
(* lookup.  Calls are answered from when genesis is connected.             *)

(* Slip: an index below the tip counts as caught up.                       *)
CallerTooEarly ==
  /\ node = "up" /\ m_chain # null
  /\ reader = "none"
  /\ m_synced /\ m_best_block_index \in Chain(m_chain)
  /\ readTip' = m_chain /\ reader' = "synced"
  /\ UNCHANGED <<node, fatal, chainVars, signals, indexVars, threadVars, dbVars, boundVars>>

BlockUntilSyncedToCurrentChain ==
  /\ node = "up" /\ m_chain # null
  /\ reader = "none"
  /\ m_synced
  /\ \/ m_best_block_index = null /\ Fail("CallerNull")
     \/ /\ m_best_block_index # null
        /\ readTip' = m_chain
        /\ IF HasAncestor(m_best_block_index, m_chain)
           THEN reader' = "synced" /\ UNCHANGED signals
           ELSE /\ reader' = "waiting"
                /\ signals' = Append(signals, [event |-> "Promise", block |-> null])
        /\ UNCHANGED <<node, fatal, chainVars, indexVars, threadVars, dbVars, boundVars>>

(* SyncWithValidationInterfaceQueue returns.                               *)
PromiseKept ==
  /\ Handles("Promise")
  /\ signals' = Tail(signals)
  /\ reader' = "synced"
  /\ UNCHANGED <<node, fatal, chainVars, indexVars, threadVars, dbVars, readTip, boundVars>>

FindNamePreimage ==
  /\ reader = "synced"
  /\ reader' = "none" /\ readTip' = null
  /\ UNCHANGED <<node, fatal, chainVars, signals, indexVars, threadVars, dbVars, boundVars>>

-----------------------------------------------------------------------------
(* Shutting down.                                                          *)

Interrupt ==
  /\ node = "up" /\ ~m_interrupt
  /\ m_interrupt' = TRUE
  /\ UNCHANGED <<node, fatal, chainVars, signals, m_synced, m_best_block_index, threadVars,
                 dbVars, readVars, boundVars>>

(* Shutdown, up to the flush that precedes the end of the callbacks.       *)
Shutdown ==
  /\ node = "up" /\ m_interrupt
  /\ node' = "stopping"
  /\ \/ Flushed
     \/ m_chain = null /\ UNCHANGED <<chainVars, signals>>
  /\ UNCHANGED <<fatal, indexVars, threadVars, dbVars, readVars, boundVars>>

Stop ==
  /\ node = "stopping"
  /\ signals = <<>> /\ pc.callback = "none"
  /\ pc.sync \in {"none", "done"}
  /\ Down
  /\ UNCHANGED <<fatal, blockIndexDB, coinsDB, dbVars, boundVars>>

Sync ==
  SyncInterrupted \/ SyncNext \/ SyncRecheck \/ SyncProcess \/ CommitCheck("sync") \/ CommitWrite("sync")

Callback ==
  BlockConnected \/ CallbackProcess \/ CallbackSetBest \/ ChainStateFlushed \/ PromiseKept
    \/ CommitCheck("callback") \/ CommitWrite("callback")

Next ==
  \/ \E wipe \in BOOLEAN : Start(wipe)
  \/ \E b \in Block : ActivateBestChain(b)
  \/ InvalidateBlock \/ FlushStateToDisk \/ Crash
  \/ StartBackgroundSync \/ Sync
  \/ Callback
  \/ BlockUntilSyncedToCurrentChain \/ FindNamePreimage
  \/ Interrupt \/ Shutdown \/ Stop

(* The sync thread, the scheduler thread and Stop keep running.            *)
Fairness == WF_vars(Sync) /\ WF_vars(Callback) /\ WF_vars(Stop)

Spec == Init /\ [][Next]_vars /\ Fairness

-----------------------------------------------------------------------------
NamesOf(b) == UNION {names[c] : c \in Chain(b)}

(* Whatever the sync thread, the callbacks, reorganisations and crashes    *)
(* do, every name registered up to the best block of the index, in memory  *)
(* (m_best_block_index) and on disk (DB_BEST_BLOCK), has its hash entry:   *)
(* the best block is set after CustomAppend, and a rewind removes nothing. *)
NamesIndexed ==
  /\ NamesOf(m_best_block_index) \subseteq hashDB
  /\ NamesOf(bestDB) \subseteq hashDB

(* When BlockUntilSyncedToCurrentChain has returned true, by its shortcut  *)
(* or after the queue, GetNameForLookup finds every name registered on     *)
(* the chain that the call saw.                                            *)
LookupComplete == reader = "synced" => NamesOf(readTip) \subseteq hashDB

(* Once m_synced is set and the callbacks are worked off, the index covers *)
(* the tip: no block is lost between Sync and BlockConnected, although a   *)
(* backlog of stale blocks may have taken the index back before.           *)
SyncedCoversTip ==
  m_synced /\ signals = <<>> /\ pc.callback = "none" => HasAncestor(m_best_block_index, m_chain) \/ m_chain = null

(* The errors of Init, BlockConnected and ChainStateFlushed that end the   *)
(* node are never raised: the best block on disk is in the block index of  *)
(* every later start, and an index without blocks sees genesis first.      *)
NoFatalError == fatal \notin {"InitError", "FirstBlock", "Locator", "FlushedNull"}

(* The sync thread gets to m_synced, or ends because the node does.        *)
SyncFinishes == pc.sync = "loop" ~> pc.sync \in {"done", "none"}

(* A caller that waits for the queue is answered, unless the node ends.    *)
CallerReturns == reader = "waiting" ~> reader # "waiting"

(* The comment in Sync: a null pindex_next "means pindex is the chain      *)
(* tip"; so the index is at the tip when SyncRecheck sets m_synced.        *)
SyncedAtTip == [][m_synced' /\ ~m_synced /\ node = "up" /\ node' = "up" => m_best_block_index' = m_chain']_vars

(* The comment in Rewind: the committed index state "must never be ahead   *)
(* of the flushed chainstate".                                             *)
NeverCommittedAhead == bestDB # null /\ coinsDB # null /\ coinsDB \in ancestors[bestDB] => bestDB = coinsDB

(* The assertion of Rewind looks at the height of a block: BlockConnected  *)
(* never rewinds to the null predecessor of genesis.                       *)
RewindsToBlock == fatal # "RewindNull"

(* BlockUntilSyncedToCurrentChain knows "we're caught up" from the best    *)
(* block of the index, so there is one when m_synced is set.               *)
CallerHasBest == fatal # "CallerNull"
=============================================================================
