------------------------------- MODULE NameDB -------------------------------
(***************************************************************************)
(* What names/main.cpp does to the state behind a CCoinsViewCache, as pure *)
(* operators over the unspent outputs and the name database of NameStore.  *)
(* The modules that give these operations a life of their own (block       *)
(* connection, the mempool, crash recovery) all build on this one.         *)
(*                                                                         *)
(* Transactions are a fixed catalogue: txid and outpoint are what they     *)
(* name, so the script of an output is a constant and only the height of   *)
(* its coin is state.                                                      *)
(***************************************************************************)
EXTENDS NameStore

CONSTANTS
  Tx,                     \* the transactions (by txid), coinbases left out
  Rand,                   \* the salts of their commitments
  vin, vout,              \* Tx -> set of outpoints spent and created
  NamecoinTx,             \* the transactions with NAMECOIN_VERSION
  nameOp,                 \* OutPoint -> CNameScript of the output
  nValue,                 \* OutPoint -> amount
  Malformed,              \* name outputs that break a size limit
  NameExpirationDepth,    \* height -> depth
  MinNameCoinAmount,      \* height -> amount
  MIN_FIRSTUPDATE_DEPTH,
  MEMPOOL_HEIGHT          \* height of a coin that only the mempool has

(* A spent or missing coin.  Coins have heights from 1 on: the coinbase of *)
(* the genesis block never enters the UTXO set.                            *)
Spent == 0

NameScript == [op : {"NOP", "NEW", "FIRSTUPDATE", "UPDATE"}, name : Name, rand : Rand]

CoinHeight == 0 .. MaxHeight

ASSUME CatalogueAssumption ==
  /\ vin \in [Tx -> SUBSET OutPoint]
  /\ vout \in [Tx -> SUBSET OutPoint]
  /\ \A t \in Tx : vin[t] # {} /\ vin[t] \cap vout[t] = {}
  /\ \A t, u \in Tx : t # u => vout[t] \cap vout[u] = {}
  /\ NamecoinTx \subseteq Tx
  /\ nameOp \in [OutPoint -> NameScript]
  /\ NoData \notin NameData

ASSUME ParamsAssumption ==
  /\ MaxHeight \in Nat
  /\ MEMPOOL_HEIGHT \in Nat /\ MEMPOOL_HEIGHT > MaxHeight
  /\ MIN_FIRSTUPDATE_DEPTH \in Nat
  /\ fNameHistory \in BOOLEAN
  /\ \A o \in OutPoint : nValue[o] \in Nat
  /\ \A h \in 0 .. MaxHeight + 1 : MinNameCoinAmount[h] \in Nat

(* What ExpireNames relies on: "n - expirationDepth(n)" never decreases    *)
(* (consensus/params.h), and no depth shrinks to n before n has passed the *)
(* previous depth.                                                         *)
ASSUME DepthAssumption ==
  /\ \A h \in 0 .. MaxHeight + 1 : NameExpirationDepth[h] \in Nat \ {0}
  /\ \A h \in 1 .. MaxHeight + 1 :
       /\ NameExpirationDepth[h] <= NameExpirationDepth[h - 1] + 1
       /\ NameExpirationDepth[h] <= h => NameExpirationDepth[h - 1] <= h

-----------------------------------------------------------------------------
(* Scripts and expiration.                                                 *)

isNameOp(o) == nameOp[o].op # "NOP"
isAnyUpdate(o) == nameOp[o].op \in {"FIRSTUPDATE", "UPDATE"}
NameIns(t) == {o \in vin[t] : isNameOp(o)}
NameOuts(t) == {o \in vout[t] : isNameOp(o)}

isExpired(nPrevHeight, nHeight) ==
  /\ nPrevHeight # MEMPOOL_HEIGHT
  /\ nPrevHeight + NameExpirationDepth[nHeight] <= nHeight

-----------------------------------------------------------------------------
(* CheckNameTransaction.  db is [coins, names].                            *)

AtMostOne(S) == \A a, b \in S : a = b

UpdateAllowed(db, t, out, nHeight) ==
  /\ nameOp[out].op = "UPDATE"
  /\ \E in \in NameIns(t) :
       /\ isAnyUpdate(in)
       /\ nameOp[in].name = nameOp[out].name
       /\ LET old == GetName(db.names, nameOp[out].name)
          IN \/ db.coins[in] = MEMPOOL_HEIGHT
             \/ old # NoData /\ ~isExpired(old.height, nHeight)

(* Slip: the tx-firstupdate-existing-name check is missing.                *)
FirstUpdateOverExisting(db, t, out, nHeight, fMempool) ==
  /\ nameOp[out].op = "FIRSTUPDATE"
  /\ \E in \in NameIns(t) :
       /\ nameOp[in].op = "NEW"
       /\ fMempool \/ db.coins[in] + MIN_FIRSTUPDATE_DEPTH <= nHeight
       /\ nameOp[in].rand = nameOp[out].rand
       /\ nameOp[in].name = nameOp[out].name

FirstUpdateAllowed(db, t, out, nHeight, fMempool) ==
  /\ nameOp[out].op = "FIRSTUPDATE"
  /\ \E in \in NameIns(t) :
       /\ nameOp[in].op = "NEW"
       /\ fMempool \/ db.coins[in] + MIN_FIRSTUPDATE_DEPTH <= nHeight
       /\ nameOp[in].rand = nameOp[out].rand
       /\ nameOp[in].name = nameOp[out].name
       /\ LET old == GetName(db.names, nameOp[out].name)
          IN old # NoData => isExpired(old.height, nHeight)

CheckNameTransaction(db, t, nHeight, fMempool) ==
  /\ \A o \in vin[t] : db.coins[o] # Spent
  /\ AtMostOne(NameIns(t))
  /\ AtMostOne(NameOuts(t))
  /\ IF t \notin NamecoinTx
     THEN NameIns(t) = {} /\ NameOuts(t) = {}
     ELSE \E out \in NameOuts(t) :
            /\ nValue[out] >= MinNameCoinAmount[nHeight]
            /\ out \notin Malformed
            /\ \/ nameOp[out].op = "NEW" /\ NameIns(t) = {}
               \/ UpdateAllowed(db, t, out, nHeight)
               \/ FirstUpdateAllowed(db, t, out, nHeight, fMempool)

(* The assertions it makes on the way: a confirmed name input is what the  *)
(* name database holds, and a block never spends a mempool coin.           *)
CheckNameAsserts(db, t, fMempool) ==
  \A in \in NameIns(t), out \in NameOuts(t) :
    /\ (nameOp[out].op = "UPDATE" /\ db.coins[in] # MEMPOOL_HEIGHT)
         => GetName(db.names, nameOp[out].name) = [height |-> db.coins[in], out |-> in]
    /\ (nameOp[out].op = "FIRSTUPDATE" /\ ~fMempool) => db.coins[in] # MEMPOOL_HEIGHT

-----------------------------------------------------------------------------
(* Connecting a transaction.                                               *)

UpdateCoins(coins, t, nHeight) ==
  [o \in OutPoint |-> CASE o \in vout[t] -> nHeight
                        [] o \in vin[t] \ vout[t] -> Spent
                        [] OTHER -> coins[o]]

(* CTxUndo: the coins the transaction spends.                              *)
TxUndo(coins, t) == [o \in OutPoint |-> IF o \in vin[t] THEN coins[o] ELSE Spent]

(* ApplyNameTransaction changes the name of the (at most one) name output. *)
UpdatedOuts(t) == {o \in vout[t] : t \in NamecoinTx /\ isAnyUpdate(o)}
UpdatedOut(t) == CHOOSE o \in UpdatedOuts(t) : TRUE

(* Slip: fromOldState takes every operation for a new name.                *)
NameTxUndoAlwaysNew(ns, t) == [name |-> nameOp[UpdatedOut(t)].name, oldData |-> NoData]

NameTxUndo(ns, t) ==
  [name |-> nameOp[UpdatedOut(t)].name,
   oldData |-> GetName(ns, nameOp[UpdatedOut(t)].name)]

ApplyNameTransaction(ns, t, nHeight) ==
  IF UpdatedOuts(t) = {} THEN ns
  ELSE SetName(ns, nameOp[UpdatedOut(t)].name,
               [height |-> nHeight, out |-> UpdatedOut(t)])

ApplyNameAsserts(ns, t) ==
  UpdatedOuts(t) # {} => SetNameAsserts(ns, nameOp[UpdatedOut(t)].name)

-----------------------------------------------------------------------------
(* ExpireNames.  Heights are unsigned, so an old depth above nHeight wraps *)
(* expireFrom around and the assertion on the range fails.                 *)

(* Slip: expireFrom starts one height late.                                *)
ExpireRangeLate(nHeight) ==
  IF NameExpirationDepth[nHeight] > nHeight THEN {}
  ELSE (nHeight - NameExpirationDepth[nHeight - 1] + 1) .. (nHeight - NameExpirationDepth[nHeight])

(* Slip: expireTo is the height of the block, not of the next one.         *)
ExpireRangeEarly(nHeight) ==
  IF NameExpirationDepth[nHeight] > nHeight THEN {}
  ELSE (nHeight - NameExpirationDepth[nHeight - 1]) .. (nHeight - NameExpirationDepth[nHeight] + 1)

ExpireRange(nHeight) ==
  IF NameExpirationDepth[nHeight] > nHeight THEN {}
  ELSE (nHeight - NameExpirationDepth[nHeight - 1]) .. (nHeight - NameExpirationDepth[nHeight])

ExpireAsserts(nHeight) ==
  NameExpirationDepth[nHeight] <= nHeight =>
    /\ NameExpirationDepth[nHeight - 1] <= nHeight
    /\ NameExpirationDepth[nHeight] <= NameExpirationDepth[nHeight - 1] + 1

ExpiringNames(ns, nHeight) ==
  {n \in Name : \E h \in ExpireRange(nHeight) : n \in GetNamesForHeight(ns, h)}

(* The checks ExpireNames makes of each name before it spends its coin.    *)
ExpireChecks(db, nHeight) ==
  \A n \in ExpiringNames(db.names, nHeight) :
    LET data == GetName(db.names, n)
    IN /\ data # NoData
       /\ isExpired(data.height, nHeight)
       /\ db.coins[data.out] # Spent
       /\ isAnyUpdate(data.out) /\ nameOp[data.out].name = n

(* Slip: SpendCoin is left out.                                            *)
ExpireCoinsUnspent(db, nHeight) == db.coins

ExpireCoins(db, nHeight) ==
  LET outs == {GetName(db.names, n).out : n \in ExpiringNames(db.names, nHeight)}
  IN [o \in OutPoint |-> IF o \in outs THEN Spent ELSE db.coins[o]]

(* undo.vexpired: the coins (script and height, not the outpoint).         *)
ExpireUndo(db, nHeight) ==
  {[name |-> n, height |-> db.coins[GetName(db.names, n).out]] :
     n \in ExpiringNames(db.names, nHeight)}

-----------------------------------------------------------------------------
(* Disconnecting: UnexpireNames, the coins of a transaction, a name.       *)

UnexpireChecks(db, vexpired, nHeight) ==
  /\ \A a, b \in vexpired : a.name = b.name => a = b
  /\ \A c \in vexpired :
       LET data == GetName(db.names, c.name)
       IN /\ data # NoData
          /\ isExpired(data.height, nHeight) /\ ~isExpired(data.height, nHeight - 1)
          /\ db.coins[data.out] = Spent

(* Slip: the coins of unexpired names are not restored.                    *)
UnexpireNothing(db, vexpired) == db.coins

UnexpireCoins(db, vexpired) ==
  [o \in OutPoint |->
     IF \E c \in vexpired : GetName(db.names, c.name).out = o
     THEN (CHOOSE c \in vexpired : GetName(db.names, c.name).out = o).height
     ELSE db.coins[o]]

UndoCoins(coins, t, txundo) ==
  [o \in OutPoint |-> CASE o \in vin[t] -> txundo[o]
                        [] o \in vout[t] \ vin[t] -> Spent
                        [] OTHER -> coins[o]]

(* DISCONNECT_OK: every output was there at this height, no input was.     *)
UndoClean(coins, t, nHeight) ==
  /\ \A o \in vout[t] : coins[o] = nHeight
  /\ \A o \in vin[t] : coins[o] = Spent

UndoName(ns, u) ==
  IF u.oldData = NoData THEN DeleteName(ns, u.name)
                        ELSE UndoSetName(ns, u.name, u.oldData)

UndoNameAsserts(ns, u) ==
  IF u.oldData = NoData THEN DeleteNameAsserts(ns, u.name)
                        ELSE UndoSetNameAsserts(ns, u.name, u.oldData)

-----------------------------------------------------------------------------
(* CCoinsViewDB::ValidateNameDB at the tip's height: the expire index and  *)
(* the data agree; a name has exactly one coin while it can still be       *)
(* updated in the next block and none afterwards; history only for names   *)
(* that exist.                                                             *)
ValidateNameDB(db, nHeight) ==
  LET Live(n) == /\ db.names.data[n] # NoData
                 /\ ~isExpired(db.names.data[n].height, nHeight + 1)
      NameCoins(n) == {o \in OutPoint : /\ db.coins[o] # Spent
                                        /\ isAnyUpdate(o) /\ nameOp[o].name = n}
  IN /\ db.names.expireIndex =
          {<<db.names.data[n].height, n>> : n \in {m \in Name : db.names.data[m] # NoData}}
     /\ \A n \in Name : /\ AtMostOne(NameCoins(n))
                        /\ Live(n) <=> NameCoins(n) # {}
                        /\ db.names.data[n] = NoData => db.names.history[n] = <<>>
                        /\ ~fNameHistory => db.names.history[n] = <<>>
=============================================================================
