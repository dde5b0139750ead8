---------------------------- MODULE NameMempool -----------------------------
(***************************************************************************)
(* The mempool on top of the chain of NameChain: CNameMemPool and the      *)
(* parts of CTxMemPool, AcceptToMemoryPool and ActivateBestChainStep that  *)
(* it lives on.  The steps of ConnectTip and DisconnectTip are NameChain's *)
(* actions; the two that move the tip also change the mempool, and a       *)
(* reorganisation ends with the disconnected transactions being accepted   *)
(* again one by one.  ActivateBestChainStep holds cs_main and the          *)
(* mempool's lock throughout, so new transactions are only accepted        *)
(* between two of them.                                                    *)
(***************************************************************************)
EXTENDS NameChain, Functions

CONSTANTS NoTx,          \* no entry in a map to txids
          TxidLess,      \* {<<t, u>>}: txid t sorts before txid u
          NameLess       \* {<<m, n>>}: name m sorts before name n

ASSUME OrderAssumption ==
  /\ NoTx \notin Tx
  /\ TxidLess \subseteq Tx \X Tx
  /\ NameLess \subseteq Name \X Name

VARIABLES
  pool,                  \* [mapTx, mapNameRegs, updates, mapNameNews]
  disconnectpool,        \* DisconnectedBlockTransactions: newest first
  fBlocksDisconnected,
  step,                  \* where ActivateBestChainStep is
  poolFailed             \* an assertion of the mempool stopped the node

poolVars == <<pool, disconnectpool, fBlocksDisconnected, step, poolFailed>>
allVars == <<vars, poolVars>>

-----------------------------------------------------------------------------
(* CTxMemPoolEntry: the name operation of a transaction.                   *)

OpNames(t, op) ==
  {nameOp[o].name : o \in {x \in vout[t] : t \in NamecoinTx /\ nameOp[x].op = op}}

(* The commitment hash of a NAME_NEW stands for the name and the salt.     *)
Commitments(t) ==
  {<<nameOp[o].name, nameOp[o].rand>> :
     o \in {x \in vout[t] : t \in NamecoinTx /\ nameOp[x].op = "NEW"}}

Registered(t) == OpNames(t, "FIRSTUPDATE")
Updated(t) == OpNames(t, "UPDATE")

-----------------------------------------------------------------------------
(* CNameMemPool.                                                           *)

EmptyPool ==
  [mapTx |-> {},
   mapNameRegs |-> [n \in Name |-> NoTx],
   updates |-> [n \in Name |-> {}],
   mapNameNews |-> [c \in Name \X Rand |-> NoTx]]


checkTx(p, t) ==
  /\ \A c \in Commitments(t) : p.mapNameNews[c] \in {NoTx, t}
  /\ \A n \in Registered(t) : p.mapNameRegs[n] = NoTx

addUnchecked(p, t) ==
  [mapTx |-> p.mapTx \cup {t},
   mapNameRegs |-> [n \in Name |-> IF n \in Registered(t) THEN t ELSE p.mapNameRegs[n]],
   updates |-> [n \in Name |-> IF n \in Updated(t) THEN p.updates[n] \cup {t} ELSE p.updates[n]],
   mapNameNews |-> [c \in Name \X Rand |-> IF c \in Commitments(t) THEN t ELSE p.mapNameNews[c]]]

addAsserts(p, t) ==
  /\ \A c \in Commitments(t) : p.mapNameNews[c] \in {NoTx, t}
  /\ \A n \in Registered(t) : p.mapNameRegs[n] = NoTx

(* Slip: pending updates are not erased.                                   *)
removeRegsOnly(p, S) ==
  [mapTx |-> p.mapTx \ S,
   mapNameRegs |-> [n \in Name |-> IF \E t \in S : n \in Registered(t) THEN NoTx
                                                                     ELSE p.mapNameRegs[n]],
   updates |-> p.updates,
   mapNameNews |-> p.mapNameNews]

(* removeUnchecked of the transactions S.  mapNameNews keeps its entries.  *)
remove(p, S) ==
  [mapTx |-> p.mapTx \ S,
   mapNameRegs |-> [n \in Name |-> IF \E t \in S : n \in Registered(t) THEN NoTx
                                                                     ELSE p.mapNameRegs[n]],
   updates |-> [n \in Name |-> p.updates[n] \ S],
   mapNameNews |-> p.mapNameNews]

removeAsserts(p, S) ==
  /\ \A t \in S : \A n \in Registered(t) : p.mapNameRegs[n] # NoTx
  /\ \A t \in S : \A n \in Updated(t) : t \in p.updates[n]

-----------------------------------------------------------------------------
(* CTxMemPool.                                                             *)

Children(p, S) == {u \in p.mapTx : \E t \in S : vin[u] \cap vout[t] # {}}

(* Slip: only the transactions themselves.                                 *)
WithoutDescendants(p, S) == S \cap p.mapTx

(* The entries removeRecursive removes for the transactions S, whether     *)
(* these are in the mempool themselves or not: the least set of entries    *)
(* that holds those of S and, with an entry, its children.                 *)
WithDescendants(p, S) ==
  LET closed == {D \in SUBSET p.mapTx : S \cap p.mapTx \subseteq D /\ Children(p, S \cup D) \subseteq D}
  IN {u \in p.mapTx : \A D \in closed : u \in D}

(* What conflicts with a block: removeConflicts of CTxMemPool and          *)
(* CNameMemPool.                                                           *)
BlockConflicts(p, txs) ==
  {u \in p.mapTx \ txs : \E t \in txs : \/ vin[u] \cap vin[t] # {}
                                        \/ \E n \in Registered(t) : p.mapNameRegs[n] = u}

removeForBlock(p, txs) ==
  LET rest == remove(p, p.mapTx \cap txs)
  IN remove(rest, WithDescendants(rest, BlockConflicts(p, txs)))

removeExpireConflicts(p, expired) ==
  remove(p, WithDescendants(p, UNION {p.updates[n] : n \in expired}))

(* Its assertion: each txid of the copied set is still in the mempool when *)
(* its turn comes.  It is not if it was removed as a descendant of an      *)
(* earlier one of the same name.                                           *)
ExpireConflictsAsserts(p, expired) ==
  \A n \in expired :
    LET gone == WithDescendants(p, UNION {p.updates[m] : m \in {x \in expired : <<x, n>> \in NameLess}})
        txids == p.updates[n] \ gone
    IN \A t, u \in txids : <<t, u>> \in TxidLess => u \notin WithDescendants(p, {t})

(* Slip: registrations of names that are live again stay.                  *)
removeNoUnexpireConflicts(p, unexpired) == p

removeUnexpireConflicts(p, unexpired) ==
  remove(p, WithDescendants(p, {p.mapNameRegs[n] : n \in unexpired} \ {NoTx}))

(* CCoinsViewMemPool over the tip.                                         *)
PoolCoins(p) ==
  [o \in OutPoint |-> IF \E t \in p.mapTx : o \in vout[t] THEN MEMPOOL_HEIGHT ELSE tip.coins[o]]

PoolView(p) == [coins |-> PoolCoins(p), names |-> tip.names]

-----------------------------------------------------------------------------
(* MemPoolAccept.                                                          *)

SpendConflicts(p, t) == {u \in p.mapTx : vin[u] \cap vin[t] # {}}

(* PreChecks, and that t does not build on what it replaces.               *)
PreChecks(p, t) ==
  /\ t \notin p.mapTx
  /\ checkTx(p, t)
  /\ CheckNameTransaction(PoolView(p), t, Height + 1, TRUE)
  /\ ~ \E u \in WithDescendants(p, SpendConflicts(p, t)) : vin[t] \cap vout[u] # {}

(* FinalizeSubpackage: the conflicts and their descendants are replaced.   *)
Accepted(p, t) ==
  addUnchecked(remove(p, WithDescendants(p, SpendConflicts(p, t))), t)

AcceptAsserts(p, t) ==
  /\ CheckNameAsserts(PoolView(p), t, TRUE)
  /\ addAsserts(remove(p, WithDescendants(p, SpendConflicts(p, t))), t)

(* LimitMempoolSize: Expire and TrimToSize remove entries by age and       *)
(* feerate, always with their descendants.                                 *)
LimitMempoolSize(p, victims) == remove(p, WithDescendants(p, victims))

-----------------------------------------------------------------------------
(* DisconnectedBlockTransactions.                                          *)

(* AddTransactionsFromBlock: the block's last transaction comes first.     *)
AddTransactionsFromBlock(queue, vtx) ==
  queue \o [i \in 1 .. Len(vtx) |-> vtx[Len(vtx) - i + 1]]

(* Its assertion: no transaction is queued twice.                          *)
QueueAsserts(queue) == IsInjective(queue)

(* removeForBlock: the queue without the transactions of a block.          *)
Unmined(queue, txs) ==
  LET left[i \in 0 .. Len(queue)] ==
        IF i = 0 THEN <<>>
        ELSE IF queue[i] \in txs THEN left[i - 1] ELSE Append(left[i - 1], queue[i])
  IN left[Len(queue)]

-----------------------------------------------------------------------------
(* BlockAssembler.                                                         *)

(* Slip: an unconfirmed NAME_NEW is not noticed.                           *)
TxAllowedUnlessImmature(t) ==
  Registered(t) # {} =>
    \A o \in vin[t] : (tip.coins[o] # Spent /\ nameOp[o].op = "NEW")
                         => tip.coins[o] + MIN_FIRSTUPDATE_DEPTH <= Height + 1

TxAllowedForNamecoin(t) ==
  Registered(t) # {} =>
    LET news == {o \in vin[t] : tip.coins[o] # Spent /\ nameOp[o].op = "NEW"}
    IN /\ news # {}
       /\ \A o \in news : tip.coins[o] + MIN_FIRSTUPDATE_DEPTH <= Height + 1

(* What addChunks may select: it takes chunks in an order in which parents *)
(* come first, and skips the rest of a cluster with a chunk it refuses.    *)
Templates ==
  {S \in SUBSET pool.mapTx :
     \A t \in S : /\ TxAllowedForNamecoin(t)
                  /\ \A u \in pool.mapTx : vin[t] \cap vout[u] # {} => u \in S}

LastOf(S) == {t \in S : Children(pool, {t}) \cap S = {}}

(* The view after the transactions of S are connected to the tip.          *)
Built ==
  LET built[S \in SUBSET pool.mapTx] ==
        IF S = {} THEN tip
        ELSE LET t == CHOOSE u \in LastOf(S) : TRUE
                 db == built[S \ {t}]
             IN [coins |-> UpdateCoins(db.coins, t, Height + 1),
                 names |-> ApplyNameTransaction(db.names, t, Height + 1)]
  IN built

-----------------------------------------------------------------------------
(* The mempool becomes new, unless an assertion fails.                     *)
SetPool(new, asserts) ==
  IF asserts /\ removeAsserts(pool, pool.mapTx \ new.mapTx)
  THEN pool' = new /\ UNCHANGED poolFailed
  ELSE poolFailed' = TRUE /\ UNCHANGED pool

PoolInit ==
  /\ Init
  /\ pool = EmptyPool
  /\ disconnectpool = <<>>
  /\ fBlocksDisconnected = FALSE
  /\ step = "none"
  /\ poolFailed = FALSE

(* AcceptToMemoryPool of a new transaction, alone or as a replacement.     *)
AcceptToMemoryPool(t) ==
  /\ step = "none" /\ ~failed /\ ~poolFailed
  /\ PreChecks(pool, t)
  /\ \E victims \in SUBSET (pool.mapTx \cup {t}) :
       SetPool(LimitMempoolSize(Accepted(pool, t), victims), AcceptAsserts(pool, t))
  /\ UNCHANGED <<vars, disconnectpool, fBlocksDisconnected, step>>

(* ActivateBestChainStep and InvalidateBlock first disconnect blocks ...   *)
StepDisconnectBegin ==
  /\ ~poolFailed
  /\ step \in {"none", "disconnect"}
  /\ DisconnectBegin
  /\ step' = "disconnect"
  /\ UNCHANGED <<pool, disconnectpool, fBlocksDisconnected, poolFailed>>

(* ... DisconnectTip ending with removeUnexpireConflicts and the block's   *)
(* transactions queued; the newest are evicted if the queue grows too big. *)
StepDisconnectEnd ==
  /\ ~poolFailed
  /\ DisconnectEnd
  /\ LET b == chain[Len(chain)]
         queue == AddTransactionsFromBlock(disconnectpool, b.vtx)
         unexpired == {c.name : c \in b.vexpired}
         kept == removeUnexpireConflicts(pool, unexpired)
     IN \E k \in 0 .. Len(queue) :
          /\ disconnectpool' = SubSeq(queue, k + 1, Len(queue))
          /\ SetPool(remove(kept, WithDescendants(kept, Range(SubSeq(queue, 1, k)))), QueueAsserts(queue))
  /\ fBlocksDisconnected' = TRUE
  /\ UNCHANGED step

(* ... then connect the blocks of the better branch ...                    *)
StepConnectBegin ==
  /\ ~poolFailed
  /\ step \in {"none", "disconnect", "connect"}
  /\ ConnectBegin
  /\ step' = "connect"
  /\ UNCHANGED <<pool, disconnectpool, fBlocksDisconnected, poolFailed>>

(* ... ConnectTip ending with removeForBlock and removeExpireConflicts ... *)
StepConnectEnd ==
  /\ ~poolFailed
  /\ ConnectEnd
  /\ LET txs == TxsOf(block)
         expired == ExpiringNames(view.names, Height + 2)
         kept == removeForBlock(pool, txs)
     IN /\ SetPool(removeExpireConflicts(kept, expired), ExpireConflictsAsserts(kept, expired))
        /\ disconnectpool' = Unmined(disconnectpool, txs)
  /\ UNCHANGED <<fBlocksDisconnected, step>>

(* ... or stop at an invalid one.                                          *)
StepConnectInvalid ==
  /\ ~poolFailed
  /\ ConnectInvalid
  /\ step' = "finish"
  /\ UNCHANGED <<pool, disconnectpool, fBlocksDisconnected, poolFailed>>

(* The iterations of ConnectBlock and DisconnectBlock.                     *)
StepInside ==
  /\ ~poolFailed
  /\ (\E t \in Tx : ConnectTx(t)) \/ DisconnectTx \/ DisconnectName
  /\ UNCHANGED poolVars

(* MaybeUpdateMempoolForReorg offers the disconnected transactions to the  *)
(* mempool again, the oldest first; what depends on one that is refused    *)
(* (because of its names, or by policy) is removed.                        *)
Resurrect ==
  /\ step \in {"disconnect", "connect", "finish"} /\ pc = "idle" /\ ~failed /\ ~poolFailed
  /\ disconnectpool # <<>>
  /\ \E t \in Tx :
       /\ t = disconnectpool[Len(disconnectpool)]
       /\ \/ PreChecks(pool, t) /\ SetPool(Accepted(pool, t), AcceptAsserts(pool, t))
          \/ SetPool(remove(pool, WithDescendants(pool, {t})), TRUE)
  /\ disconnectpool' = SubSeq(disconnectpool, 1, Len(disconnectpool) - 1)
  /\ step' = "finish"
  /\ UNCHANGED <<vars, fBlocksDisconnected>>

(* The end of MaybeUpdateMempoolForReorg and of the step: removeForReorg   *)
(* and LimitMempoolSize remove entries only if blocks were disconnected.   *)
StepEnd ==
  /\ step \in {"disconnect", "connect", "finish"} /\ pc = "idle" /\ ~failed /\ ~poolFailed
  /\ disconnectpool = <<>>
  /\ \E victims \in SUBSET pool.mapTx :
       /\ victims # {} => fBlocksDisconnected
       /\ SetPool(LimitMempoolSize(pool, victims), TRUE)
  /\ step' = "none"
  /\ fBlocksDisconnected' = FALSE
  /\ UNCHANGED <<vars, disconnectpool>>

PoolNext ==
  \/ \E t \in Tx : AcceptToMemoryPool(t)
  \/ StepDisconnectBegin
  \/ StepDisconnectEnd
  \/ StepConnectBegin
  \/ StepConnectEnd
  \/ StepConnectInvalid
  \/ StepInside
  \/ Resurrect
  \/ StepEnd

PoolSpec == PoolInit /\ [][PoolNext]_allVars

-----------------------------------------------------------------------------
(* No assertion of CNameMemPool or of DisconnectedBlockTransactions fails: *)
(* an entry is in the maps when it is removed, a name is registered at     *)
(* most once (addUnchecked), every pending update of an expired name is    *)
(* still there when removeExpireConflicts comes to it, and no transaction  *)
(* is disconnected while it is queued from an earlier block.               *)
NoPoolFailure == ~poolFailed

(* CNameMemPool::check, bookkeeping: the maps list exactly the pending     *)
(* registrations and updates of the entries, and the first NAME_NEW of a   *)
(* commitment, also in the middle of a reorganisation.                     *)
NameMapsMatchPool ==
  /\ \A n \in Name, t \in Tx :
       pool.mapNameRegs[n] = t <=> t \in pool.mapTx /\ n \in Registered(t)
  /\ \A n \in Name : pool.updates[n] = {t \in pool.mapTx : n \in Updated(t)}
  /\ \A t \in pool.mapTx : \A c \in Commitments(t) : pool.mapNameNews[c] = t

(* CTxMemPool::check: between two steps of the chain every entry's inputs  *)
(* are there, no two entries spend the same, and each passes the name      *)
(* checks for the next block (so a pending registration's old name has     *)
(* expired, and a confirmed name being updated has not): neither           *)
(* removeExpireConflicts, removeConflicts nor a reorganisation leaves an   *)
(* update without the name it updates.                                     *)
PoolInputsValid ==
  step = "none" =>
    /\ \A t \in pool.mapTx : /\ CheckNameTransaction(PoolView(pool), t, Height + 1, TRUE)
                            /\ CheckNameAsserts(PoolView(pool), t, TRUE)
    /\ \A t, u \in pool.mapTx : t # u => vin[t] \cap vin[u] = {}

(* CNameMemPool::check of a pending update: the name's data, if there is   *)
(* any, has not expired; else the name is being registered.                *)
PendingUpdateCheck ==
  step = "none" =>
    \A n \in Name : pool.updates[n] # {} =>
      IF GetName(tip.names, n) # NoData THEN ~isExpired(GetName(tip.names, n).height, Height + 1)
                                        ELSE pool.mapNameRegs[n] # NoTx

(* lastNameOutput: the pending updates of a name form one chain, so        *)
(* exactly one of them is not spent by another.                            *)
LastNameOutputUnique ==
  step = "none" =>
    \A n \in Name : pool.updates[n] # {} =>
      \E t \in pool.updates[n] :
        {u \in pool.updates[n] : ~ \E w \in pool.updates[n] : vin[w] \cap vout[u] # {}} = {t}

(* TestBlockValidity in CreateNewBlock does not fail because of names: any *)
(* block template chosen from the mempool passes the name checks of        *)
(* ConnectBlock, although the mempool accepts registrations whose NAME_NEW *)
(* is immature or unconfirmed and does not apply pending operations.       *)
TemplateConnects ==
  (step = "none" /\ Height < MaxHeight) =>
    LET built == Built
    IN \A S \in Templates :
         /\ \A t \in LastOf(S) :
              LET db == built[S \ {t}]
              IN /\ CheckNameTransaction(db, t, Height + 1, FALSE)
                 /\ CheckNameAsserts(db, t, FALSE)
                 /\ ApplyNameAsserts(db.names, t)
         /\ ExpireChecks(built[S], Height + 2)
=============================================================================
