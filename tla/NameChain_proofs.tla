--------------------------- MODULE NameChain_proofs -------------------------
(***************************************************************************)
(* IInv is an inductive invariant of NameChain, and the properties that    *)
(* follow from it.  The first part says what the operations of the name    *)
(* database do to the state invariants, one block step at a time.          *)
(***************************************************************************)
EXTENDS NameChain, TLAPS

(* Most leaves are first-order, so Zenon is the default prover; a leaf that  *)
(* needs arithmetic, records or function application says SMT.              *)
USE Zenon

(* The data that describes an unspent coin is name data.                   *)
LEMMA DataOfCoin ==
  ASSUME NEW c \in CoinHeight, c # Spent, NEW o \in OutPoint
  PROVE  [height |-> c, out |-> o] \in NameData /\ [height |-> c, out |-> o] # NoData
<1>1. MaxHeight \in Nat
  BY ParamsAssumption
<1>2. c \in 1 .. MaxHeight
  BY <1>1, SMT DEF CoinHeight, Spent
<1>3. [height |-> c, out |-> o] \in NameData
  BY <1>2 DEF NameData
<1>4. NoData \notin NameData
  BY CatalogueAssumption
<1> QED BY <1>3, <1>4

(* SetName keeps the type of the name database.                            *)
LEMMA SetNameType ==
  ASSUME NEW ns \in NamesType, NEW n \in Name, NEW d \in NameData
  PROVE  SetName(ns, n, d) \in NamesType
<1>1. ns.data[n] # NoData => ns.data[n] \in NameData
  BY DEF NamesType
<1>2. [ns.data EXCEPT ![n] = d] \in [Name -> NameData \cup {NoData}]
  BY DEF NamesType
<1>3. ns.data[n] # NoData =>
        [ns.history EXCEPT ![n] = Append(@, ns.data[n])] \in [Name -> Seq(NameData)]
  BY <1>1, SMT DEF NamesType
<1>4. Reindexed(ns, n, d.height) \in SUBSET ((1 .. MaxHeight) \X Name)
  BY SMT DEF NamesType, NameData, Reindexed
<1> QED BY <1>2, <1>3, <1>4 DEF NamesType, SetName

-----------------------------------------------------------------------------
(* The UTXO set.                                                           *)

(* UpdateCoins keeps the type of the coins, and so does its undo data.     *)
LEMMA UpdateCoinsType ==
  ASSUME NEW coins \in CoinsType, NEW t \in Tx, NEW h \in CoinHeight
  PROVE  /\ UpdateCoins(coins, t, h) \in CoinsType
         /\ TxUndo(coins, t) \in CoinsType
<1>1. Spent \in CoinHeight
  BY ParamsAssumption, SMT DEF Spent, CoinHeight
<1> QED BY <1>1 DEF CoinsType, UpdateCoins, TxUndo

(* A transaction whose inputs are all unspent is not connected yet, so its *)
(* outputs are new although BIP30 is not enforced; and connecting it keeps *)
(* the ledger in order.                                                    *)
LEMMA UpdateCoinsLedger ==
  ASSUME NEW coins \in CoinsType, NEW t \in Tx, NEW h \in CoinHeight,
         NEW C \in SUBSET Tx, LedgerOK(coins, C),
         \A o \in vin[t] : coins[o] # Spent
  PROVE  /\ \A o \in vout[t] : coins[o] = Spent
         /\ LedgerOK(UpdateCoins(coins, t, h), C \cup {t})
<1> DEFINE new == UpdateCoins(coins, t, h)
<1>1. /\ \A u \in Tx : vin[u] \subseteq OutPoint /\ vout[u] \subseteq OutPoint
      /\ \A u \in Tx : u # t => vout[u] \cap vout[t] = {}
      /\ vin[t] # {} /\ vin[t] \cap vout[t] = {}
      /\ vout[t] \cap BaseCoins = {}
  BY CatalogueAssumption, BaseAssumption
<1>2. t \notin C
  BY <1>1 DEF LedgerOK
<1>3. \A o \in vout[t] : coins[o] = Spent
  BY <1>1, <1>2 DEF LedgerOK
<1>4. ASSUME NEW u \in C \cup {t}, NEW o \in vin[u]
      PROVE  new[o] = Spent /\ (o \in BaseCoins \/ \E v \in C \cup {t} : o \in vout[v])
  <2>1. o \in OutPoint
    BY <1>1
  <2>2. CASE u = t
    BY <2>1, <2>2, <1>1 DEF UpdateCoins, LedgerOK
  <2>3. CASE u \in C
    <3>1. coins[o] = Spent /\ (o \in BaseCoins \/ \E v \in C : o \in vout[v])
      BY <2>3 DEF LedgerOK
    <3>2. o \notin vout[t]
      BY <3>1, <1>1, <1>2
    <3> QED BY <2>1, <3>1, <3>2 DEF UpdateCoins
  <2> QED BY <2>2, <2>3
<1>5. ASSUME NEW o \in OutPoint, new[o] # Spent
      PROVE  o \in BaseCoins \/ \E u \in C \cup {t} : o \in vout[u]
  BY <1>5 DEF UpdateCoins, LedgerOK
<1> QED BY <1>3, <1>4, <1>5 DEF LedgerOK

-----------------------------------------------------------------------------
(* Connecting a transaction.                                               *)

(* SetName with data of the newest height keeps the expire index in step   *)
(* with the data and the history ordered; its assertion holds.             *)
LEMMA SetNameOK ==
  ASSUME NEW ns \in NamesType, NEW n \in Name, NEW d \in NameData,
         IndexOK(ns), HistoryOK(ns, d.height)
  PROVE  /\ SetNameAsserts(ns, n)
         /\ IndexOK(SetName(ns, n, d))
         /\ HistoryOK(SetName(ns, n, d), d.height)
<1> DEFINE new == SetName(ns, n, d)
<1>1. /\ new.data = [ns.data EXCEPT ![n] = d]
      /\ new.expireIndex = Reindexed(ns, n, d.height)
      /\ d # NoData
      /\ d.height \in 1 .. MaxHeight
      /\ \A m \in Name : new.data[m] = IF m = n THEN d ELSE ns.data[m]
  BY CatalogueAssumption DEF NamesType, SetName, NameData
<1>2. SetNameAsserts(ns, n)
  BY DEF SetNameAsserts, HistoryOK
<1>3. ASSUME NEW h \in 1 .. MaxHeight, NEW m \in Name
      PROVE  <<h, m>> \in new.expireIndex <=> new.data[m] # NoData /\ new.data[m].height = h
  <2>1. <<h, m>> \in ns.expireIndex <=> ns.data[m] # NoData /\ ns.data[m].height = h
    BY DEF IndexOK
  <2>2. CASE m = n
    BY <1>1, <2>1, <2>2 DEF Reindexed
  <2>3. CASE m # n
    BY <1>1, <2>1, <2>3 DEF Reindexed
  <2> QED BY <2>2, <2>3
<1>4. ASSUME NEW m \in Name
      PROVE  /\ new.data[m] = NoData \/ ~fNameHistory => new.history[m] = <<>>
             /\ new.data[m] # NoData => new.data[m].height <= d.height
             /\ new.history[m] # <<>> =>
                  new.history[m][Len(new.history[m])].height <= new.data[m].height
  <2>1. /\ ns.data[m] = NoData \/ ~fNameHistory => ns.history[m] = <<>>
        /\ ns.data[m] # NoData => ns.data[m].height <= d.height
        /\ ns.history[m] # <<>> =>
             ns.history[m][Len(ns.history[m])].height <= ns.data[m].height
    BY DEF HistoryOK
  <2>2. CASE m = n /\ fNameHistory /\ ns.data[n] # NoData
    <3>1. ns.history[n] \in Seq(NameData) /\ ns.data[n] \in NameData
      BY <2>2 DEF NamesType
    <3>2. new.history[n] = Append(ns.history[n], ns.data[n])
      BY <2>2 DEF SetName, NamesType
    <3>3. new.history[n][Len(new.history[n])] = ns.data[n]
      BY <3>1, <3>2, SMT
    <3> HIDE DEF new
    <3> QED BY <1>1, <2>1, <2>2, <3>3, SMT
  <2>3. CASE m # n \/ ~fNameHistory \/ ns.data[n] = NoData
    <3>1. new.history[m] = ns.history[m]
      BY <2>3 DEF SetName, NamesType
    <3>2. m = n => ns.history[m] = <<>>
      BY <2>1, <2>3
    <3>3. d.height <= d.height
      BY <1>1, SMT
    <3> HIDE DEF new
    <3> QED BY <1>1, <2>1, <3>1, <3>2, <3>3
  <2> QED BY <2>2, <2>3
<1>5. IndexOK(new)
  <2> HIDE DEF new
  <2> QED BY <1>3 DEF IndexOK
<1>6. HistoryOK(new, d.height)
  <2> HIDE DEF new
  <2> QED BY <1>4 DEF HistoryOK
<1> QED BY <1>2, <1>5, <1>6

(* A name set at height h has not expired at height h.                     *)
LEMMA NewNotExpired ==
  ASSUME NEW h \in 1 .. MaxHeight
  PROVE  ~isExpired(h, h)
  BY ParamsAssumption, DepthAssumption, SMT DEF isExpired

(* A transaction without a name update: CheckNameTransaction let it pass,  *)
(* so it touches no name coin at all.                                      *)
LEMMA ConnectPlainTx ==
  ASSUME NEW db \in DBType, NEW t \in Tx, NEW h \in Nat, h < MaxHeight,
         CoinsMatchNames(db, h), CheckNameTransaction(db, t, h + 1, FALSE),
         UpdatedOuts(t) = {}
  PROVE  /\ CheckNameAsserts(db, t, FALSE)
         /\ CoinsMatchNames([coins |-> UpdateCoins(db.coins, t, h + 1), names |-> db.names], h)
<1> DEFINE coins == UpdateCoins(db.coins, t, h + 1)
<1>1. NameIns(t) = {}
  BY DEF CheckNameTransaction, UpdateAllowed, FirstUpdateAllowed, UpdatedOuts, isAnyUpdate,
         NameOuts
<1>2. \A o \in vout[t] : ~isAnyUpdate(o)
  BY DEF CheckNameTransaction, UpdatedOuts, isAnyUpdate, isNameOp, NameOuts
<1>3. \A o \in vin[t] : ~isAnyUpdate(o)
  BY <1>1 DEF NameIns, isAnyUpdate, isNameOp
<1>4. \A o \in OutPoint : isAnyUpdate(o) => coins[o] = db.coins[o]
  BY <1>2, <1>3 DEF UpdateCoins
<1>5. \A n \in Name : db.names.data[n] # NoData => db.names.data[n].out \in OutPoint
  BY DEF DBType, NamesType, NameData
<1>6. CoinsMatchNames([coins |-> coins, names |-> db.names], h)
  <2> HIDE DEF coins
  <2> QED BY <1>4, <1>5 DEF CoinsMatchNames
<1>7. CheckNameAsserts(db, t, FALSE)
  BY <1>1 DEF CheckNameAsserts
<1> QED BY <1>6, <1>7

(* A transaction that updates a name: CheckNameTransaction let it pass, so *)
(* its name input is the name's current coin, or the name has none.        *)
LEMMA ConnectNameTx ==
  ASSUME NEW db \in DBType, NEW t \in Tx, NEW h \in Nat, h < MaxHeight,
         CoinsMatchNames(db, h), CheckNameTransaction(db, t, h + 1, FALSE),
         UpdatedOuts(t) # {}
  PROVE  /\ CheckNameAsserts(db, t, FALSE)
         /\ CoinsMatchNames([coins |-> UpdateCoins(db.coins, t, h + 1),
                             names |-> ApplyNameTransaction(db.names, t, h + 1)], h)
<1> DEFINE out == UpdatedOut(t)
           n == nameOp[out].name
           d == [height |-> h + 1, out |-> out]
           coins == UpdateCoins(db.coins, t, h + 1)
           names == ApplyNameTransaction(db.names, t, h + 1)
<1>1. out \in UpdatedOuts(t)
  BY DEF UpdatedOut
<1>2. t \in NamecoinTx /\ out \in vout[t] /\ out \in OutPoint /\ isAnyUpdate(out) /\ out \in NameOuts(t)
  <2> HIDE DEF out
  <2> QED BY <1>1, CatalogueAssumption DEF UpdatedOuts, NameOuts, isAnyUpdate, isNameOp
<1>3. n \in Name
  BY <1>2, CatalogueAssumption DEF NameScript
<1>4. /\ \A o \in vin[t] : db.coins[o] # Spent
      /\ AtMostOne(NameIns(t)) /\ AtMostOne(NameOuts(t))
  BY DEF CheckNameTransaction
<1>5. \A o \in NameOuts(t) : o = out
  BY <1>2, <1>4 DEF AtMostOne
<1>6. UpdateAllowed(db, t, out, h + 1) \/ FirstUpdateAllowed(db, t, out, h + 1, FALSE)
  <2> HIDE DEF out
  <2> QED BY <1>2, <1>5 DEF CheckNameTransaction, isAnyUpdate
<1>7. PICK in \in NameIns(t) :
        /\ nameOp[in].name = n
        /\ \/ nameOp[out].op = "UPDATE" /\ isAnyUpdate(in)
           \/ /\ nameOp[out].op = "FIRSTUPDATE" /\ nameOp[in].op = "NEW"
              /\ db.names.data[n] # NoData => isExpired(db.names.data[n].height, h + 1)
  <2> HIDE DEF out
  <2> QED BY <1>6 DEF UpdateAllowed, FirstUpdateAllowed, GetName, n
<1>8. in \in vin[t] /\ in \in OutPoint /\ (\A o \in NameIns(t) : o = in) /\ db.coins[in] # Spent
  BY <1>4, CatalogueAssumption DEF AtMostOne, NameIns
<1>9. names.data = [db.names.data EXCEPT ![n] = d]
  BY <1>1 DEF ApplyNameTransaction, SetName
<1>10. \A m \in Name : names.data[m] = IF m = n THEN d ELSE db.names.data[m]
  BY <1>3, <1>9 DEF DBType, NamesType
<1>11. coins[out] = h + 1 /\ h + 1 # Spent
  BY <1>2, SMT DEF UpdateCoins, Spent
<1>12. ~isExpired(h + 1, h + 1)
  <2>1. h + 1 \in 1 .. MaxHeight
    BY ParamsAssumption, SMT
  <2> QED BY <2>1, NewNotExpired
<1>13. \A o \in OutPoint : db.coins[o] \in CoinHeight
  BY DEF DBType, CoinsType
<1>14. isAnyUpdate(in) => db.names.data[n] = [height |-> db.coins[in], out |-> in]
  BY <1>7, <1>8 DEF CoinsMatchNames
<1> HIDE DEF out
<1>15. CheckNameAsserts(db, t, FALSE)
  <2>1. db.coins[in] # MEMPOOL_HEIGHT
    BY <1>8, <1>13, ParamsAssumption, SMT DEF CoinHeight
  <2> QED BY <2>1, <1>5, <1>7, <1>8, <1>14 DEF CheckNameAsserts, GetName, isAnyUpdate
<1>16. ASSUME NEW o \in OutPoint, coins[o] # Spent, isAnyUpdate(o)
       PROVE  /\ names.data[nameOp[o].name] = [height |-> coins[o], out |-> o]
              /\ ~isExpired(names.data[nameOp[o].name].height, h + 1)
  <2>1. CASE o \in vout[t]
    <3>1. o = out
      BY <2>1, <1>5, <1>16 DEF NameOuts, isAnyUpdate, isNameOp
    <3> HIDE DEF coins, names
    <3> QED BY <3>1, <1>3, <1>10, <1>11, <1>12, SMT
  <2>2. CASE o \notin vout[t]
    <3>1. o \notin vin[t] /\ coins[o] = db.coins[o]
      BY <2>2, <1>16 DEF UpdateCoins
    <3>2. /\ db.names.data[nameOp[o].name] = [height |-> db.coins[o], out |-> o]
          /\ ~isExpired(db.names.data[nameOp[o].name].height, h + 1)
      BY <3>1, <1>16 DEF CoinsMatchNames
    <3>3. nameOp[o].name \in Name
      BY CatalogueAssumption DEF NameScript
    <3>4. nameOp[o].name # n
      <4>1. SUFFICES ASSUME nameOp[o].name = n PROVE FALSE
        OBVIOUS
      <4>2. db.names.data[n] # NoData
        <5>1. db.coins[o] \in CoinHeight /\ db.coins[o] # Spent
          BY <1>13, <1>16, <3>1
        <5>2. [height |-> db.coins[o], out |-> o] # NoData
          BY <5>1, DataOfCoin
        <5> QED BY <4>1, <3>2, <5>2
      <4>3. isAnyUpdate(in)
        BY <4>1, <4>2, <3>2, <1>7
      <4>4. db.names.data[n].out = in /\ db.names.data[n].out = o
        BY <4>1, <4>3, <3>2, <1>14, SMT
      <4> QED BY <4>4, <3>1, <1>8
    <3> HIDE DEF coins, names
    <3> QED BY <3>1, <3>2, <3>3, <3>4, <1>10
  <2> QED BY <2>1, <2>2
<1>17. ASSUME NEW m \in Name, names.data[m] # NoData
       PROVE  /\ isAnyUpdate(names.data[m].out) /\ nameOp[names.data[m].out].name = m
              /\ ~isExpired(names.data[m].height, h + 1) => coins[names.data[m].out] # Spent
  <2>1. CASE m = n
    <3>1. names.data[m] = d
      BY <2>1, <1>10
    <3>2. names.data[m].out = out
      BY <3>1, SMT
    <3> HIDE DEF coins, names, d, n
    <3>3. nameOp[out].name = m
      BY <2>1 DEF n
    <3>4. isAnyUpdate(out) /\ coins[out] # Spent
      BY <1>2, <1>11
    <3> QED BY <3>2, <3>3, <3>4
  <2>2. CASE m # n
    <3> DEFINE o == db.names.data[m].out
    <3>1. names.data[m] = db.names.data[m] /\ db.names.data[m] # NoData
      BY <2>2, <1>10, <1>17
    <3>2. /\ isAnyUpdate(o) /\ nameOp[o].name = m
          /\ ~isExpired(db.names.data[m].height, h + 1) => db.coins[o] # Spent
          /\ o \in OutPoint
      <4>1. db.names.data[m] \in NameData
        BY <3>1 DEF DBType, NamesType
      <4>2. o \in OutPoint
        BY <4>1 DEF NameData
      <4> QED BY <3>1, <4>2 DEF CoinsMatchNames
    <3>3. o \notin vin[t]
      BY <2>2, <3>2, <1>7, <1>8 DEF NameIns, isAnyUpdate, isNameOp
    <3>4. coins[o] = db.coins[o] \/ coins[o] # Spent
      BY <3>2, <3>3, <1>11 DEF UpdateCoins
    <3> HIDE DEF coins, names
    <3> QED BY <3>1, <3>2, <3>4
  <2> QED BY <2>1, <2>2
<1>18. CoinsMatchNames([coins |-> coins, names |-> names], h)
  <2> HIDE DEF coins, names
  <2> QED BY <1>16, <1>17 DEF CoinsMatchNames
<1> QED BY <1>15, <1>18

(* One iteration of ConnectBlock's loop: no assertion fails, the state     *)
(* invariants survive, and the outputs of the transaction are new.         *)
LEMMA ConnectTxOK ==
  ASSUME NEW db \in DBType, NEW t \in Tx, NEW h \in Nat, h < MaxHeight,
         NEW C \in SUBSET Tx, DBOK(db, C, h, h + 1),
         CheckNameTransaction(db, t, h + 1, FALSE)
  PROVE  LET new == [coins |-> UpdateCoins(db.coins, t, h + 1),
                     names |-> ApplyNameTransaction(db.names, t, h + 1)]
         IN /\ CheckNameAsserts(db, t, FALSE)
            /\ ApplyNameAsserts(db.names, t)
            /\ new \in DBType
            /\ DBOK(new, C \cup {t}, h, h + 1)
            /\ \A o \in vout[t] : db.coins[o] = Spent
<1> DEFINE coins == UpdateCoins(db.coins, t, h + 1)
           names == ApplyNameTransaction(db.names, t, h + 1)
           d == [height |-> h + 1, out |-> UpdatedOut(t)]
<1>1. h + 1 \in CoinHeight /\ h + 1 \in 1 .. MaxHeight
  BY ParamsAssumption, SMT DEF CoinHeight
<1>2. db.coins \in CoinsType /\ db.names \in NamesType
  BY DEF DBType
<1>3. \A o \in vin[t] : db.coins[o] # Spent
  BY DEF CheckNameTransaction
<1>4. LedgerOK(coins, C \cup {t}) /\ \A o \in vout[t] : db.coins[o] = Spent
  BY <1>1, <1>2, <1>3, UpdateCoinsLedger DEF DBOK
<1>5. coins \in CoinsType
  BY <1>1, <1>2, UpdateCoinsType
<1>6. CASE UpdatedOuts(t) = {}
  <2>1. names = db.names /\ ApplyNameAsserts(db.names, t)
    BY <1>6 DEF ApplyNameTransaction, ApplyNameAsserts
  <2>2. /\ CheckNameAsserts(db, t, FALSE)
        /\ CoinsMatchNames([coins |-> coins, names |-> db.names], h)
    BY <1>6, ConnectPlainTx DEF DBOK
  <2>3. DBOK([coins |-> coins, names |-> names], C \cup {t}, h, h + 1)
    <3> HIDE DEF coins, names
    <3> QED BY <1>4, <2>1, <2>2 DEF DBOK
  <2> QED BY <1>2, <1>4, <1>5, <2>1, <2>2, <2>3 DEF DBType
<1>7. CASE UpdatedOuts(t) # {}
  <2>1. UpdatedOut(t) \in UpdatedOuts(t)
    BY <1>7 DEF UpdatedOut
  <2>2. d \in NameData /\ nameOp[UpdatedOut(t)].name \in Name
    BY <1>1, <2>1, CatalogueAssumption DEF UpdatedOuts, NameData, NameScript
  <2>3. names = SetName(db.names, nameOp[UpdatedOut(t)].name, d)
    BY <1>7 DEF ApplyNameTransaction
  <2>4. IndexOK(db.names) /\ HistoryOK(db.names, d.height)
    BY DEF DBOK
  <2>5. names \in NamesType
    <3> HIDE DEF d
    <3> QED BY <1>2, <2>2, <2>3, SetNameType
  <2>6. /\ SetNameAsserts(db.names, nameOp[UpdatedOut(t)].name)
        /\ IndexOK(names) /\ HistoryOK(names, d.height)
    <3> HIDE DEF d
    <3> QED BY <1>2, <2>2, <2>3, <2>4, SetNameOK
  <2>7. ApplyNameAsserts(db.names, t)
    BY <2>6 DEF ApplyNameAsserts
  <2>8. /\ CheckNameAsserts(db, t, FALSE)
        /\ CoinsMatchNames([coins |-> coins, names |-> names], h)
    BY <1>7, ConnectNameTx DEF DBOK
  <2>9. HistoryOK(names, h + 1)
    BY <2>6
  <2>10. DBOK([coins |-> coins, names |-> names], C \cup {t}, h, h + 1)
    <3> HIDE DEF coins, names
    <3> QED BY <1>4, <2>6, <2>8, <2>9 DEF DBOK
  <2> QED BY <1>4, <1>5, <2>5, <2>7, <2>8, <2>10 DEF DBType
<1> QED BY <1>6, <1>7

-----------------------------------------------------------------------------
(* Expiration.                                                             *)

(* The range of ExpireNames is exactly the update heights that have        *)
(* expired at nHeight but had not at nHeight - 1, and what had expired     *)
(* stays expired.                                                          *)
LEMMA ExpireRangeExact ==
  ASSUME NEW nHeight \in 1 .. MaxHeight + 1, NEW h \in 1 .. MaxHeight
  PROVE  /\ ExpireAsserts(nHeight)
         /\ h \in ExpireRange(nHeight) <=> isExpired(h, nHeight) /\ ~isExpired(h, nHeight - 1)
         /\ isExpired(h, nHeight - 1) => isExpired(h, nHeight)
<1> DEFINE now == NameExpirationDepth[nHeight]
           old == NameExpirationDepth[nHeight - 1]
<1>1. now \in Nat /\ old \in Nat /\ now <= old + 1 /\ (now <= nHeight => old <= nHeight)
  BY ParamsAssumption, DepthAssumption, SMT
<1>2. h # MEMPOOL_HEIGHT
  BY ParamsAssumption, SMT
<1>3. ExpireAsserts(nHeight)
  BY <1>1 DEF ExpireAsserts
<1>4. /\ isExpired(h, nHeight) <=> h + now <= nHeight
      /\ isExpired(h, nHeight - 1) <=> h + old <= nHeight - 1
  BY <1>2 DEF isExpired
<1>5. h \in ExpireRange(nHeight) <=>
        now <= nHeight /\ nHeight - old <= h /\ h <= nHeight - now
  BY <1>1, SMT DEF ExpireRange
<1> HIDE DEF now, old
<1> QED BY <1>1, <1>3, <1>4, <1>5, ParamsAssumption, SMT

(* The names ExpireNames finds at the end of the block at height h + 1:    *)
(* those with a coin that cannot be spent at h + 2.                        *)
LEMMA ExpiringNamesExact ==
  ASSUME NEW db \in DBType, NEW h \in Nat, h < MaxHeight, IndexOK(db.names),
         NEW n \in Name
  PROVE  n \in ExpiringNames(db.names, h + 2) <=>
           /\ db.names.data[n] # NoData
           /\ isExpired(db.names.data[n].height, h + 2)
           /\ ~isExpired(db.names.data[n].height, h + 1)
<1>1. n \in ExpiringNames(db.names, h + 2) <=>
        \E k \in ExpireRange(h + 2) : <<k, n>> \in db.names.expireIndex
  BY DEF ExpiringNames, GetNamesForHeight
<1>2. db.names.expireIndex \subseteq (1 .. MaxHeight) \X Name
  BY DEF DBType, NamesType
<1>3. db.names.data[n] # NoData => db.names.data[n].height \in 1 .. MaxHeight
  BY DEF DBType, NamesType, NameData
<1>4. n \in ExpiringNames(db.names, h + 2) <=>
        db.names.data[n] # NoData /\ db.names.data[n].height \in ExpireRange(h + 2)
  <2>1. \A k : <<k, n>> \in db.names.expireIndex => k \in 1 .. MaxHeight
    BY <1>2
  <2>2. \A k \in 1 .. MaxHeight : <<k, n>> \in db.names.expireIndex
          <=> db.names.data[n] # NoData /\ db.names.data[n].height = k
    BY DEF IndexOK
  <2>3. ASSUME NEW k \in ExpireRange(h + 2), <<k, n>> \in db.names.expireIndex
        PROVE  db.names.data[n] # NoData /\ db.names.data[n].height \in ExpireRange(h + 2)
    BY <2>1, <2>2, <2>3, SMT
  <2>4. ASSUME db.names.data[n] # NoData
        PROVE  <<db.names.data[n].height, n>> \in db.names.expireIndex
    BY <1>3, <2>2, <2>4
  <2> QED BY <1>1, <2>3, <2>4
<1>5. h + 2 \in 1 .. MaxHeight + 1 /\ (h + 2) - 1 = h + 1
  BY ParamsAssumption, SMT
<1>6. db.names.data[n] # NoData =>
        (db.names.data[n].height \in ExpireRange(h + 2) <=>
           /\ isExpired(db.names.data[n].height, h + 2)
           /\ ~isExpired(db.names.data[n].height, (h + 2) - 1))
  BY <1>3, <1>5, ExpireRangeExact
<1> QED BY <1>4, <1>5, <1>6

(* ExpireNames at the end of a block finds what it checks for, and leaves  *)
(* a database that is in order at the next height.                         *)
LEMMA ExpireNamesOK ==
  ASSUME NEW db \in DBType, NEW h \in Nat, h < MaxHeight,
         NEW C \in SUBSET Tx, DBOK(db, C, h, h + 1)
  PROVE  LET new == [coins |-> ExpireCoins(db, h + 2), names |-> db.names]
         IN /\ ExpireAsserts(h + 2) /\ ExpireChecks(db, h + 2)
            /\ new \in DBType
            /\ DBOK(new, C, h + 1, h + 1)
            /\ ExpireUndo(db, h + 2) \subseteq [name : Name, height : CoinHeight]
<1> DEFINE E == ExpiringNames(db.names, h + 2)
           coins == ExpireCoins(db, h + 2)
<1>1. h + 2 \in 1 .. MaxHeight + 1 /\ (h + 2) - 1 = h + 1 /\ (h + 1) + 1 = h + 2
  BY ParamsAssumption, SMT
<1>2. ExpireAsserts(h + 2)
  <2>1. 1 \in 1 .. MaxHeight
    BY ParamsAssumption, SMT
  <2> QED BY <2>1, <1>1, ExpireRangeExact
<1>3. IndexOK(db.names) /\ CoinsMatchNames(db, h)
  BY DEF DBOK
<1>4. \A n \in Name : n \in E <=> /\ db.names.data[n] # NoData
                                  /\ isExpired(db.names.data[n].height, h + 2)
                                  /\ ~isExpired(db.names.data[n].height, h + 1)
  BY <1>3, ExpiringNamesExact
<1>5. E \subseteq Name
  BY DEF ExpiringNames
<1>6. \A n \in Name : db.names.data[n] # NoData =>
        /\ db.names.data[n] \in NameData
        /\ db.names.data[n].out \in OutPoint
        /\ db.names.data[n].height \in 1 .. MaxHeight
        /\ isExpired(db.names.data[n].height, h + 1) => isExpired(db.names.data[n].height, h + 2)
  <2>1. \A n \in Name : db.names.data[n] # NoData =>
          /\ db.names.data[n] \in NameData
          /\ db.names.data[n].out \in OutPoint
          /\ db.names.data[n].height \in 1 .. MaxHeight
    BY DEF DBType, NamesType, NameData
  <2> QED BY <2>1, <1>1, ExpireRangeExact
<1>7. ExpireChecks(db, h + 2)
  <2>1. \A n \in E : /\ db.names.data[n] # NoData
                     /\ isExpired(db.names.data[n].height, h + 2)
                     /\ db.coins[db.names.data[n].out] # Spent
                     /\ isAnyUpdate(db.names.data[n].out)
                     /\ nameOp[db.names.data[n].out].name = n
    <3> HIDE DEF E
    <3> QED BY <1>3, <1>4, <1>5 DEF CoinsMatchNames
  <2> QED BY <2>1 DEF ExpireChecks, GetName
<1>8. \A o \in OutPoint :
        coins[o] = IF \E n \in E : db.names.data[n].out = o THEN Spent ELSE db.coins[o]
  <2> HIDE DEF E
  <2> QED BY DEF ExpireCoins, GetName, E
<1>9. Spent \in CoinHeight /\ db.coins \in CoinsType /\ db.names \in NamesType
  BY ParamsAssumption, SMT DEF Spent, CoinHeight, DBType
<1>10. coins \in CoinsType
  BY <1>9 DEF ExpireCoins, CoinsType
<1>11. ExpireUndo(db, h + 2) \subseteq [name : Name, height : CoinHeight]
  <2>1. \A n \in E : n \in Name /\ db.coins[db.names.data[n].out] \in CoinHeight
    <3>1. \A n \in E : n \in Name /\ db.names.data[n] # NoData
      BY <1>4, <1>5
    <3>2. \A n \in E : n \in Name /\ db.names.data[n].out \in OutPoint
      BY <1>6, <3>1
    <3> HIDE DEF E
    <3> QED BY <3>2, <1>9 DEF CoinsType
  <2>2. ExpireUndo(db, h + 2)
          = {[name |-> n, height |-> db.coins[db.names.data[n].out]] : n \in E}
    BY DEF ExpireUndo, GetName
  <2> HIDE DEF E
  <2>3. \A n \in E : [name |-> n, height |-> db.coins[db.names.data[n].out]] \in [name : Name, height : CoinHeight]
    BY <2>1
  <2> QED BY <2>2, <2>3
<1>12. LedgerOK(coins, C)
  <2>1. LedgerOK(db.coins, C) /\ \A t \in C : vin[t] \subseteq OutPoint
    BY CatalogueAssumption DEF DBOK
  <2>2. \A o \in OutPoint : coins[o] # Spent => coins[o] = db.coins[o]
    BY <1>8
  <2>3. \A o \in OutPoint : db.coins[o] = Spent => coins[o] = Spent
    BY <1>8
  <2> HIDE DEF coins
  <2> QED BY <2>1, <2>2, <2>3 DEF LedgerOK
<1>13. ASSUME NEW o \in OutPoint, coins[o] # Spent, isAnyUpdate(o)
       PROVE  /\ db.names.data[nameOp[o].name] = [height |-> coins[o], out |-> o]
              /\ ~isExpired(db.names.data[nameOp[o].name].height, h + 2)
  <2> DEFINE n == nameOp[o].name
  <2>1. n \in Name
    BY CatalogueAssumption DEF NameScript
  <2>2. coins[o] = db.coins[o] /\ \A m \in E : db.names.data[m].out # o
    BY <1>8, <1>13
  <2>3. /\ db.names.data[n] = [height |-> coins[o], out |-> o]
        /\ ~isExpired(db.names.data[n].height, h + 1)
    BY <1>3, <1>13, <2>2 DEF CoinsMatchNames
  <2>4. db.names.data[n] # NoData
    <3>1. coins[o] \in CoinHeight /\ coins[o] # Spent
      BY <1>9, <1>13, <2>2 DEF CoinsType
    <3> HIDE DEF coins
    <3>2. [height |-> coins[o], out |-> o] # NoData
      BY <3>1, DataOfCoin
    <3> QED BY <2>3, <3>2
  <2>5. n \notin E
    BY <2>2, <2>3, SMT
  <2> HIDE DEF E, coins
  <2> QED BY <1>4, <2>1, <2>3, <2>4, <2>5
<1>14. ASSUME NEW n \in Name, db.names.data[n] # NoData,
              ~isExpired(db.names.data[n].height, h + 2)
       PROVE  coins[db.names.data[n].out] # Spent
  <2> DEFINE o == db.names.data[n].out
  <2>1. ~isExpired(db.names.data[n].height, h + 1) /\ o \in OutPoint
    BY <1>6, <1>14
  <2>2. db.coins[o] # Spent /\ nameOp[o].name = n
    BY <1>3, <1>14, <2>1 DEF CoinsMatchNames
  <2>3. \A m \in E : db.names.data[m].out # o
    <3>1. \A m \in E : db.names.data[m] # NoData => nameOp[db.names.data[m].out].name = m
      BY <1>3, <1>5 DEF CoinsMatchNames
    <3> HIDE DEF E
    <3>2. \A m \in E : db.names.data[m] # NoData /\ isExpired(db.names.data[m].height, h + 2)
      BY <1>4, <1>5
    <3>3. n \notin E
      BY <3>2, <1>14
    <3>4. \A m \in E : nameOp[db.names.data[m].out].name = m
      BY <3>1, <3>2
    <3> SUFFICES ASSUME NEW m \in E, db.names.data[m].out = o PROVE FALSE
      OBVIOUS
    <3>5. nameOp[o].name = m
      BY <3>4
    <3> QED BY <2>2, <3>3, <3>5
  <2> QED BY <1>8, <2>1, <2>2, <2>3
<1>15. CoinsMatchNames([coins |-> coins, names |-> db.names], h + 1)
  <2> HIDE DEF E, coins
  <2> QED BY <1>1, <1>3, <1>13, <1>14 DEF CoinsMatchNames
<1>16. DBOK([coins |-> coins, names |-> db.names], C, h + 1, h + 1)
  <2> HIDE DEF coins
  <2> QED BY <1>12, <1>15 DEF DBOK
<1> QED BY <1>2, <1>7, <1>9, <1>10, <1>11, <1>16 DEF DBType

-----------------------------------------------------------------------------
(* Blocks and their logs.                                                  *)

(* The output of a name's entry.                                           *)
LEMMA EntryOut == ASSUME NEW e, NEW h, NEW o, e = [height |-> h, out |-> o] PROVE e.out = o
  BY SMT

(* What Append does to a sequence.                                         *)
LEMMA AppendFacts ==
  ASSUME NEW S, NEW s \in Seq(S), NEW x \in S
  PROVE  /\ Append(s, x) \in Seq(S)
         /\ Len(s) \in Nat /\ Len(Append(s, x)) = Len(s) + 1
         /\ Append(s, x)[Len(s) + 1] = x
         /\ \A k \in 1 .. Len(s) : Append(s, x)[k] = s[k]
  BY SMT

(* The same in one predicate.                                              *)
IsAppended(t, s, x) ==
  Len(t) = Len(s) + 1 /\ t[Len(s) + 1] = x /\ \A k \in 1 .. Len(s) : t[k] = s[k]

(* Append, in these terms.                                                 *)
LEMMA AppendedFacts ==
  ASSUME NEW S, NEW s \in Seq(S), NEW x \in S PROVE IsAppended(Append(s, x), s, x)
  BY AppendFacts, SMT DEF IsAppended

(* What is left when the last element of a sequence is removed.            *)
LEMMA FrontFacts ==
  ASSUME NEW S, NEW s \in Seq(S), NEW m \in 0 .. Len(s)
  PROVE  /\ SubSeq(s, 1, m) \in Seq(S)
         /\ Len(SubSeq(s, 1, m)) = m
         /\ \A k \in 1 .. m : SubSeq(s, 1, m)[k] = s[k]
  BY SMT

(* The two ends of a block's logs are databases.                           *)
LEMMA BlockEnds ==
  ASSUME NEW b \in BlockType, NEW h, BlockOK(b, h)
  PROVE  /\ Before(b) \in DBType /\ Applied(b) \in DBType
         /\ Len(b.vtx) \in Nat /\ Len(b.vnameundo) \in Nat
         /\ b.vtx \in Seq(Tx) /\ b.coinsLog \in Seq(CoinsType) /\ b.namesLog \in Seq(NamesType)
<1>1. /\ b.vtx \in Seq(Tx) /\ b.vnameundo \in Seq([name : Name, oldData : NameData \cup {NoData}])
      /\ b.coinsLog \in Seq(CoinsType) /\ b.namesLog \in Seq(NamesType)
  BY DEF BlockType
<1>2. /\ Len(b.vtx) \in Nat /\ Len(b.vnameundo) \in Nat
      /\ Len(b.coinsLog) = Len(b.vtx) + 1 /\ Len(b.namesLog) = Len(b.vnameundo) + 1
  BY <1>1, SMT DEF BlockOK
<1>3. \A k \in 1 .. Len(b.coinsLog) : b.coinsLog[k] \in CoinsType
  BY <1>1, SMT
<1>4. \A k \in 1 .. Len(b.namesLog) : b.namesLog[k] \in NamesType
  BY <1>1, SMT
<1>5. /\ b.coinsLog[1] \in CoinsType /\ b.coinsLog[Len(b.coinsLog)] \in CoinsType
      /\ b.namesLog[1] \in NamesType /\ b.namesLog[Len(b.namesLog)] \in NamesType
  <2>1. 1 \in 1 .. Len(b.coinsLog) /\ Len(b.coinsLog) \in 1 .. Len(b.coinsLog)
    BY <1>2, SMT
  <2>2. 1 \in 1 .. Len(b.namesLog) /\ Len(b.namesLog) \in 1 .. Len(b.namesLog)
    BY <1>2, SMT
  <2> QED BY <1>3, <1>4, <2>1, <2>2
<1>6. Before(b) \in DBType /\ Applied(b) \in DBType
  BY <1>5 DEF Before, Applied, DBType
<1> QED BY <1>1, <1>2, <1>6

(* A database in order at height h is in order when h + 1 may appear in it. *)
LEMMA NewestMayGrow ==
  ASSUME NEW db \in DBType, NEW C, NEW h \in Nat, DBOK(db, C, h, h)
  PROVE  DBOK(db, C, h, h + 1)
<1>1. \A n \in Name : db.names.data[n] # NoData => db.names.data[n].height \in Nat
  BY SMT DEF DBType, NamesType, NameData
<1>2. HistoryOK(db.names, h + 1)
  BY <1>1, SMT DEF DBOK, HistoryOK
<1> QED BY <1>2 DEF DBOK

-----------------------------------------------------------------------------
(* The inductive invariant.                                                *)

(* What every step starts from.                                            *)
LEMMA IInvFacts ==
  ASSUME IInv
  PROVE  /\ Len(chain) \in Nat /\ Height = BaseHeight + Len(chain)
         /\ BaseHeight \in Nat /\ BaseHeight >= 1 /\ Height \in Nat /\ Height <= MaxHeight
         /\ \A i \in 1 .. Len(chain) : chain[i] \in BlockType
         /\ \A i \in Int : Connected(i) \subseteq Tx \/ i > Len(chain)
<1>1. chain \in Seq(BlockType) /\ Height <= MaxHeight
  BY DEF IInv, TypeOK
<1>2. Len(chain) \in Nat /\ \A i \in 1 .. Len(chain) : chain[i] \in BlockType
  BY <1>1, SMT
<1>3. \A i \in 1 .. Len(chain) : TxsOf(chain[i]) \subseteq Tx
  <2>1. \A b \in BlockType : TxsOf(b) \subseteq Tx
    <3>1. SUFFICES ASSUME NEW b \in BlockType PROVE TxsOf(b) \subseteq Tx
      OBVIOUS
    <3>2. b.vtx \in Seq(Tx)
      BY DEF BlockType
    <3>3. \A k \in 1 .. Len(b.vtx) : b.vtx[k] \in Tx
      BY <3>2, SMT
    <3> QED BY <3>3 DEF TxsOf
  <2> QED BY <2>1, <1>2
<1>4. \A i \in Int : Connected(i) \subseteq Tx \/ i > Len(chain)
  BY <1>2, <1>3, SMT DEF Connected
<1> QED BY <1>1, <1>2, <1>4, BaseAssumption, SMT DEF Height

(* What IInv says while a block is disconnected.                           *)
LEMMA UndoFacts ==
  ASSUME IInv, pc = "undo coins"
  PROVE  /\ block \in BlockType /\ BlockOK(block, Height) /\ Height \in Nat
         /\ Before(block) = Before(chain[Len(chain)]) /\ Applied(block) = view
         /\ chain # <<>> /\ chain \in Seq(BlockType) /\ view \in DBType /\ ~failed
  BY IInvFacts DEF IInv, TypeOK

(* A block without transactions and name operations changes nothing.       *)
LEMMA NothingApplied ==
  ASSUME NEW b, NEW h, BlockOK(b, h), Len(b.vtx) = 0, Len(b.vnameundo) = 0
  PROVE  Applied(b) = Before(b)
<1>1. Len(b.coinsLog) = Len(b.vtx) + 1 /\ Len(b.namesLog) = Len(b.vnameundo) + 1
  BY DEF BlockOK
<1>2. Len(b.coinsLog) = 1 /\ Len(b.namesLog) = 1
  BY <1>1, SMT
<1> QED BY <1>2 DEF Before, Applied

(* When nothing is left to undo, the view is the state before the block.   *)
LEMMA UndoneIsBefore ==
  ASSUME IInv, pc = "undo coins", block.vtx = <<>>, block.vnameundo = <<>>
  PROVE  view = Before(chain[Len(chain)])
<1>1. /\ BlockOK(block, Height)
      /\ Before(block) = Before(chain[Len(chain)]) /\ Applied(block) = view
  BY UndoFacts
<1>2. Len(<<>>) = 0
  OBVIOUS
<1>3. Len(block.vtx) = 0 /\ Len(block.vnameundo) = 0
  BY <1>2
<1>4. Applied(block) = Before(block)
  BY <1>1, <1>3, NothingApplied
<1> QED BY <1>1, <1>4

-----------------------------------------------------------------------------
(* The inductive invariant holds at the first tip, and each iteration of   *)
(* ConnectBlock and DisconnectBlock preserves it.                          *)
LEMMA InvariantInductive == (Init => IInv) /\ (IInv /\ [Next]_vars => IInv')
(* CNameTxUndo::apply undoes SetName: the undo entry made from the state   *)
(* before SetName satisfies the assertions of DeleteName or SetName with   *)
(* undo, and brings back data, history and expire index exactly.           *)
<1>SetNameUndone.
  ASSUME NEW ns \in NamesType, NEW n \in Name, NEW d \in NameData, NEW h,
         IndexOK(ns), HistoryOK(ns, h)
  PROVE  LET u == [name |-> n, oldData |-> ns.data[n]]
         IN /\ UndoNameAsserts(SetName(ns, n, d), u)
            /\ UndoName(SetName(ns, n, d), u) = ns
<2> USE <1>SetNameUndone
<2> DEFINE new == SetName(ns, n, d)
           u == [name |-> n, oldData |-> ns.data[n]]
<2>1. new.data = [ns.data EXCEPT ![n] = d] /\ new.data[n] = d /\ d # NoData
  BY CatalogueAssumption DEF NamesType, SetName
<2>2. d.height \in 1 .. MaxHeight
  BY DEF NameData
<2>3. [new.data EXCEPT ![n] = ns.data[n]] = ns.data
  BY <2>1 DEF NamesType
<2>4. ns = [data |-> ns.data, history |-> ns.history, expireIndex |-> ns.expireIndex]
  BY DEF NamesType
<2>5. CASE ns.data[n] = NoData
  <3>1. new.history = ns.history /\ ns.history[n] = <<>>
    BY <2>5 DEF SetName, HistoryOK
  <3>2. new.expireIndex = ns.expireIndex \cup {<<d.height, n>>}
    BY <2>5 DEF SetName, Reindexed
  <3>3. <<d.height, n>> \notin ns.expireIndex
    BY <2>5, <2>2 DEF IndexOK
  <3>4. new.expireIndex \ {<<new.data[n].height, n>>} = ns.expireIndex
    BY <2>1, <3>2, <3>3
  <3>5. UndoName(new, u) = ns
    <4>1. UndoName(new, u) = DeleteName(new, n)
      BY <2>5 DEF UndoName
    <4> QED BY <4>1, <2>3, <2>4, <2>5, <3>1, <3>4 DEF DeleteName
  <3>6. UndoNameAsserts(new, u)
    BY <2>5, <2>1, <3>1 DEF UndoNameAsserts, DeleteNameAsserts
  <3> QED BY <3>5, <3>6
<2>6. CASE ns.data[n] # NoData
  <3> DEFINE old == ns.data[n]
  <3>1. old \in NameData /\ old.height \in 1 .. MaxHeight
    BY <2>6 DEF NamesType, NameData
  <3>2. new.expireIndex = (ns.expireIndex \ {<<old.height, n>>}) \cup {<<d.height, n>>}
    BY <2>6 DEF SetName, Reindexed
  <3>3. <<old.height, n>> \in ns.expireIndex
    BY <2>6, <3>1 DEF IndexOK
  <3>4. <<d.height, n>> \in ns.expireIndex => d.height = old.height
    BY <2>2 DEF IndexOK
  <3>5. Reindexed(new, n, old.height) = ns.expireIndex
    <4>1. Reindexed(new, n, old.height)
            = (new.expireIndex \ {<<d.height, n>>}) \cup {<<old.height, n>>}
      BY <2>1 DEF Reindexed
    <4> QED BY <4>1, <3>2, <3>3, <3>4
  <3>6. CASE fNameHistory
    <4>1. new.history = [ns.history EXCEPT ![n] = Append(ns.history[n], old)]
      BY <2>6, <3>6 DEF SetName
    <4>2. ns.history[n] \in Seq(NameData)
      BY DEF NamesType
    <4>3. new.history[n] = Append(ns.history[n], old)
      BY <4>1 DEF NamesType
    <4>4. /\ Len(new.history[n]) = Len(ns.history[n]) + 1
          /\ new.history[n][Len(new.history[n])] = old
          /\ new.history[n] # <<>>
          /\ SubSeq(new.history[n], 1, Len(new.history[n]) - 1) = ns.history[n]
      <5> HIDE DEF old, new
      <5> QED BY <3>1, <4>2, <4>3, SMT
    <4>5. [new.history EXCEPT ![n] = SubSeq(@, 1, Len(@) - 1)] = ns.history
      <5>1. [new.history EXCEPT ![n] = SubSeq(@, 1, Len(@) - 1)]
              = [new.history EXCEPT ![n] = ns.history[n]]
        BY <4>4
      <5>2. [new.history EXCEPT ![n] = ns.history[n]] = ns.history
        BY <4>1 DEF NamesType
      <5> QED BY <5>1, <5>2
    <4>6. UndoName(new, u) = UndoSetName(new, n, old)
      BY <2>6 DEF UndoName
    <4>7. UndoSetName(new, n, old) = ns
      BY <3>6, <2>3, <2>4, <3>5, <4>5 DEF UndoSetName
    <4>8. UndoNameAsserts(new, u)
      BY <2>6, <2>1, <3>6, <4>4 DEF UndoNameAsserts, UndoSetNameAsserts
    <4> QED BY <4>6, <4>7, <4>8
  <3>7. CASE ~fNameHistory
    <4>1. new.history = ns.history
      BY <3>7 DEF SetName
    <4>2. UndoName(new, u) = UndoSetName(new, n, old)
      BY <2>6 DEF UndoName
    <4>3. UndoSetName(new, n, old) = ns
      BY <3>7, <4>1, <2>3, <2>4, <3>5 DEF UndoSetName
    <4>4. UndoNameAsserts(new, u)
      BY <2>6, <2>1, <3>7 DEF UndoNameAsserts, UndoSetNameAsserts
    <4> QED BY <4>2, <4>3, <4>4
  <3> QED BY <3>6, <3>7
<2> QED BY <2>5, <2>6
(* DisconnectBlock finds a transaction's outputs and restores its inputs:  *)
(* if the outputs were new, the coins are what they were before.           *)
<1>UpdateCoinsUndone.
  ASSUME NEW coins \in CoinsType, NEW t \in Tx, NEW h \in Nat,
         \A o \in vout[t] : coins[o] = Spent
  PROVE  /\ UndoClean(UpdateCoins(coins, t, h), t, h)
         /\ UndoCoins(UpdateCoins(coins, t, h), t, TxUndo(coins, t)) = coins
<2> USE <1>UpdateCoinsUndone
<2> DEFINE new == UpdateCoins(coins, t, h)
<2>1. vin[t] \subseteq OutPoint /\ vout[t] \subseteq OutPoint /\ vin[t] \cap vout[t] = {}
  BY CatalogueAssumption
<2>2. UndoClean(new, t, h)
  BY <2>1 DEF UndoClean, UpdateCoins
<2>3. ASSUME NEW o \in OutPoint
      PROVE  UndoCoins(new, t, TxUndo(coins, t))[o] = coins[o]
  <3>1. CASE o \in vin[t]
    BY <3>1 DEF UndoCoins, TxUndo
  <3>2. CASE o \in vout[t]
    BY <3>2, <2>1 DEF UndoCoins
  <3>3. CASE o \notin vin[t] /\ o \notin vout[t]
    BY <3>3 DEF UndoCoins, UpdateCoins
  <3> QED BY <3>1, <3>2, <3>3
<2>4. UndoCoins(new, t, TxUndo(coins, t)) = [o \in OutPoint |-> coins[o]]
  BY <2>3 DEF UndoCoins
<2> QED BY <2>2, <2>4 DEF CoinsType
(* UnexpireNames undoes ExpireNames: its checks pass and the coins of the  *)
(* expired names are back at their outpoints with their heights.           *)
<1>ExpireNamesUndone.
  ASSUME NEW db \in DBType, NEW h \in Nat, h < MaxHeight,
         NEW C \in SUBSET Tx, DBOK(db, C, h, h + 1)
  PROVE  LET new == [coins |-> ExpireCoins(db, h + 2), names |-> db.names]
             undo == ExpireUndo(db, h + 2)
         IN /\ UnexpireChecks(new, undo, h + 2)
            /\ UnexpireCoins(new, undo) = db.coins
<2> USE <1>ExpireNamesUndone
<2> DEFINE E == ExpiringNames(db.names, h + 2)
           Out(n) == db.names.data[n].out
           coins == ExpireCoins(db, h + 2)
           new == [coins |-> coins, names |-> db.names]
           undo == ExpireUndo(db, h + 2)
<2>1. (h + 2) - 1 = h + 1
  BY SMT
<2>2. E \subseteq Name
  BY DEF ExpiringNames
<2>3. \A n \in E : /\ db.names.data[n] # NoData
                   /\ isExpired(db.names.data[n].height, h + 2)
                   /\ ~isExpired(db.names.data[n].height, h + 1)
  <3>1. IndexOK(db.names)
    BY DEF DBOK
  <3> QED BY <2>2, <3>1, ExpiringNamesExact
<2>4. \A n \in E : Out(n) \in OutPoint
  <3> HIDE DEF E
  <3> QED BY <2>2, <2>3 DEF DBType, NamesType, NameData
<2>5. \A o \in OutPoint :
        coins[o] = IF \E n \in E : Out(n) = o THEN Spent ELSE db.coins[o]
  <3> HIDE DEF E
  <3> QED BY DEF ExpireCoins, GetName, E
<2>6. undo = {[name |-> n, height |-> db.coins[Out(n)]] : n \in E}
  BY DEF ExpireUndo, GetName
<2>7. \A c \in undo : c.name \in E /\ c.height = db.coins[Out(c.name)]
                        /\ c = [name |-> c.name, height |-> db.coins[Out(c.name)]]
  <3> HIDE DEF E, undo, Out
  <3>1. TAKE c \in undo
  <3>2. PICK n \in E : c = [name |-> n, height |-> db.coins[Out(n)]]
    BY <2>6
  <3>3. c.name = n /\ c.height = db.coins[Out(n)]
    BY <3>2
  <3> QED BY <3>2, <3>3
<2>8. \A n \in E : \E c \in undo : c.name = n
  <3> HIDE DEF E, undo
  <3>1. TAKE n \in E
  <3> HIDE DEF Out
  <3>2. [name |-> n, height |-> db.coins[Out(n)]] \in undo
    BY <2>6
  <3>3. [name |-> n, height |-> db.coins[Out(n)]].name = n
    OBVIOUS
  <3> QED BY <3>2, <3>3
<2>9. UnexpireChecks(new, undo, h + 2)
  <3>1. \A a, b \in undo : a.name = b.name => a = b
    <4> HIDE DEF undo, E
    <4> QED BY <2>7
  <3>2. \A c \in undo : /\ db.names.data[c.name] # NoData
                        /\ isExpired(db.names.data[c.name].height, h + 2)
                        /\ ~isExpired(db.names.data[c.name].height, h + 1)
                        /\ coins[db.names.data[c.name].out] = Spent
    <4> HIDE DEF undo, E, coins
    <4> QED BY <2>3, <2>4, <2>5, <2>7
  <3> HIDE DEF undo, E, coins
  <3> QED BY <3>1, <3>2, <2>1 DEF UnexpireChecks, GetName
<2>10. ASSUME NEW o \in OutPoint
       PROVE  UnexpireCoins(new, undo)[o] = db.coins[o]
  <3> HIDE DEF undo, E, coins
  <3>1. CASE \E c \in undo : Out(c.name) = o
    <4> DEFINE c == CHOOSE x \in undo : Out(x.name) = o
    <4>1. c \in undo /\ Out(c.name) = o
      BY <3>1
    <4>2. UnexpireCoins(new, undo)[o] = c.height
      BY <3>1 DEF UnexpireCoins, GetName
    <4> HIDE DEF c
    <4> QED BY <4>1, <4>2, <2>7
  <3>2. CASE ~\E c \in undo : Out(c.name) = o
    <4>1. UnexpireCoins(new, undo)[o] = coins[o]
      BY <3>2 DEF UnexpireCoins, GetName
    <4>2. ~\E n \in E : Out(n) = o
      BY <3>2, <2>8
    <4> QED BY <4>1, <4>2, <2>5
  <3> QED BY <3>1, <3>2
<2>11. UnexpireCoins(new, undo) = db.coins
  <3>1. UnexpireCoins(new, undo) = [o \in OutPoint |-> UnexpireCoins(new, undo)[o]]
    BY DEF UnexpireCoins
  <3>2. db.coins = [o \in OutPoint |-> db.coins[o]]
    BY DEF DBType, CoinsType
  <3> HIDE DEF undo, new
  <3> QED BY <3>1, <3>2, <2>10
<2> QED BY <2>9, <2>11
(* BlockOK is about the transactions, the undo data and the logs.          *)
<1>SameBlockOK.
  ASSUME NEW b, NEW c, NEW h, BlockOK(c, h),
         b.vtx = c.vtx /\ b.vtxundo = c.vtxundo /\ b.vnameundo = c.vnameundo
           /\ b.coinsLog = c.coinsLog /\ b.namesLog = c.namesLog
  PROVE  BlockOK(b, h)
BY <1>SameBlockOK, SMT DEF BlockOK
(* A transaction added to a block extends its logs and undo data in step.  *)
<1>WithTxOK.
  ASSUME NEW b \in BlockType, NEW t \in Tx, NEW h \in CoinHeight, h # 0, BlockOK(b, h),
         IndexOK(Applied(b).names), NEW m, HistoryOK(Applied(b).names, m),
         \A o \in vout[t] : Applied(b).coins[o] = Spent
  PROVE  LET new == WithTx(b, Applied(b), t, h)
         IN /\ new \in BlockType
            /\ BlockOK(new, h)
            /\ Before(new) = Before(b)
            /\ Applied(new) = [coins |-> UpdateCoins(Applied(b).coins, t, h),
                               names |-> ApplyNameTransaction(Applied(b).names, t, h)]
            /\ TxsOf(new) = TxsOf(b) \cup {t}
<2> USE <1>WithTxOK
<2> DEFINE db == Applied(b)
           coins == UpdateCoins(db.coins, t, h)
           names == ApplyNameTransaction(db.names, t, h)
           txundo == TxUndo(db.coins, t)
           nameundo == NameTxUndo(db.names, t)
           renamed == UpdatedOuts(t) # {}
           new == WithTx(b, Applied(b), t, h)
           N == Len(b.vtx)
           M == Len(b.vnameundo)
<2>1. db \in DBType /\ db.coins \in CoinsType /\ db.names \in NamesType
  BY BlockEnds DEF DBType
<2>2. coins \in CoinsType /\ txundo \in CoinsType
  BY <2>1, UpdateCoinsType
<2>3. renamed => /\ names \in NamesType
                 /\ nameundo \in [name : Name, oldData : NameData \cup {NoData}]
                 /\ UndoNameAsserts(names, nameundo)
                 /\ UndoName(names, nameundo) = db.names
  <3> SUFFICES ASSUME renamed
               PROVE  /\ names \in NamesType
                      /\ nameundo \in [name : Name, oldData : NameData \cup {NoData}]
                      /\ UndoNameAsserts(names, nameundo)
                      /\ UndoName(names, nameundo) = db.names
    OBVIOUS
  <3> DEFINE n == nameOp[UpdatedOut(t)].name
             d == [height |-> h, out |-> UpdatedOut(t)]
  <3>1. UpdatedOut(t) \in UpdatedOuts(t)
    BY DEF UpdatedOut
  <3>2. d \in NameData /\ n \in Name
    BY <3>1, CatalogueAssumption, ParamsAssumption, SMT DEF UpdatedOuts, NameData, NameScript, CoinHeight
  <3>3. names = SetName(db.names, n, d) /\ nameundo = [name |-> n, oldData |-> db.names.data[n]]
    BY DEF ApplyNameTransaction, NameTxUndo, GetName
  <3>4. names \in NamesType
    <4> HIDE DEF d, n, db, names
    <4> QED BY <2>1, <3>2, <3>3, SetNameType
  <3>5. UndoNameAsserts(names, nameundo) /\ UndoName(names, nameundo) = db.names
    <4>1. IndexOK(db.names) /\ HistoryOK(db.names, m)
      OBVIOUS
    <4> HIDE DEF d, n, db, names, nameundo
    <4> QED BY <2>1, <3>2, <3>3, <4>1, <1>SetNameUndone
  <3>6. nameundo \in [name : Name, oldData : NameData \cup {NoData}]
    <4> HIDE DEF d, n, db, nameundo
    <4> QED BY <2>1, <3>2, <3>3 DEF NamesType
  <3> QED BY <3>4, <3>5, <3>6
<2>4. ~renamed => names = db.names
  BY DEF ApplyNameTransaction
<2>5. /\ new.vtx = Append(b.vtx, t) /\ new.vtxundo = Append(b.vtxundo, txundo)
      /\ new.vnameundo = IF renamed THEN Append(b.vnameundo, nameundo) ELSE b.vnameundo
      /\ new.vexpired = b.vexpired
      /\ new.coinsLog = Append(b.coinsLog, coins)
      /\ new.namesLog = IF renamed THEN Append(b.namesLog, names) ELSE b.namesLog
      /\ new = [vtx |-> new.vtx, vtxundo |-> new.vtxundo, vnameundo |-> new.vnameundo,
                vexpired |-> new.vexpired, coinsLog |-> new.coinsLog, namesLog |-> new.namesLog]
  BY DEF WithTx
<2>6. /\ b.vtx \in Seq(Tx) /\ b.vtxundo \in Seq(CoinsType)
      /\ b.vnameundo \in Seq([name : Name, oldData : NameData \cup {NoData}])
      /\ b.coinsLog \in Seq(CoinsType) /\ b.namesLog \in Seq(NamesType)
      /\ b.vexpired \in SUBSET [name : Name, height : CoinHeight]
  BY DEF BlockType
<2>7. /\ N \in Nat /\ Len(b.vtxundo) = N /\ Len(b.coinsLog) = N + 1
      /\ M \in Nat /\ Len(b.namesLog) = M + 1
  BY <2>6, SMT DEF BlockOK
<2>8. db.coins = b.coinsLog[N + 1] /\ db.names = b.namesLog[M + 1]
  BY <2>7 DEF Applied
<2> HIDE DEF db, coins, names, txundo, nameundo, renamed, new, N, M
<2>9. /\ new.vtx \in Seq(Tx) /\ Len(new.vtx) = N + 1 /\ new.vtx[N + 1] = t
      /\ \A k \in 1 .. N : new.vtx[k] = b.vtx[k]
  <3>1. new.vtx = Append(b.vtx, t) /\ b.vtx \in Seq(Tx) /\ Len(b.vtx) = N
    BY <2>5, <2>6 DEF N
  <3> QED BY <3>1, SMT
<2>10. /\ new.vtxundo \in Seq(CoinsType) /\ Len(new.vtxundo) = N + 1
       /\ new.vtxundo[N + 1] = txundo
       /\ \A k \in 1 .. N : new.vtxundo[k] = b.vtxundo[k]
  <3>1. /\ new.vtxundo = Append(b.vtxundo, txundo) /\ b.vtxundo \in Seq(CoinsType)
        /\ Len(b.vtxundo) = N /\ txundo \in CoinsType
    BY <2>2, <2>5, <2>6, <2>7
  <3> QED BY <3>1, SMT
<2>11. /\ new.coinsLog \in Seq(CoinsType) /\ Len(new.coinsLog) = N + 2
       /\ new.coinsLog[N + 2] = coins
       /\ \A k \in 1 .. N + 1 : new.coinsLog[k] = b.coinsLog[k]
  <3>1. (N + 1) + 1 = N + 2
    BY <2>7, SMT
  <3> QED BY <2>2, <2>5, <2>6, <2>7, <3>1, SMTT(30)
<2>12. /\ new.vnameundo \in Seq([name : Name, oldData : NameData \cup {NoData}])
       /\ Len(new.vnameundo) = (IF renamed THEN M + 1 ELSE M)
       /\ renamed => new.vnameundo[M + 1] = nameundo
       /\ \A k \in 1 .. M : new.vnameundo[k] = b.vnameundo[k]
  <3>1. CASE renamed
    <4>1. new.vnameundo = Append(b.vnameundo, nameundo)
      BY <3>1, <2>5
    <4> QED BY <3>1, <4>1, <2>3, <2>6, SMT DEF M
  <3>2. CASE ~renamed
    BY <3>2, <2>5, <2>6 DEF M
  <3> QED BY <3>1, <3>2
<2>13. /\ new.namesLog \in Seq(NamesType)
       /\ Len(new.namesLog) = (IF renamed THEN M + 2 ELSE M + 1)
       /\ renamed => new.namesLog[M + 2] = names
       /\ \A k \in 1 .. M + 1 : new.namesLog[k] = b.namesLog[k]
  <3>1. CASE renamed
    <4>1. new.namesLog = Append(b.namesLog, names) /\ (M + 1) + 1 = M + 2
      BY <3>1, <2>5, <2>7, SMTT(30)
    <4> QED BY <3>1, <4>1, <2>3, <2>6, <2>7, SMT
  <3>2. CASE ~renamed
    BY <3>2, <2>5, <2>6, <2>7
  <3> QED BY <3>1, <3>2
<2>14. new \in BlockType
  BY <2>5, <2>6, <2>9, <2>10, <2>11, <2>12, <2>13 DEF BlockType
<2>15. Before(new) = Before(b)
  <3>1. 1 \in 1 .. N + 1 /\ 1 \in 1 .. M + 1
    BY <2>7, SMT
  <3> QED BY <3>1, <2>11, <2>13 DEF Before
<2>16. Applied(new) = [coins |-> coins, names |-> names]
  BY <2>4, <2>7, <2>8, <2>11, <2>13, SMTT(30) DEF Applied
<2>17. ASSUME NEW k \in 1 .. Len(new.vtx)
       PROVE  /\ new.vtxundo[k] = TxUndo(new.coinsLog[k], new.vtx[k])
              /\ new.coinsLog[k + 1] = UpdateCoins(new.coinsLog[k], new.vtx[k], h)
              /\ \A o \in vout[new.vtx[k]] : new.coinsLog[k][o] = Spent
  <3>1. CASE k \in 1 .. N
    <4>1. /\ b.vtxundo[k] = TxUndo(b.coinsLog[k], b.vtx[k])
          /\ b.coinsLog[k + 1] = UpdateCoins(b.coinsLog[k], b.vtx[k], h)
          /\ \A o \in vout[b.vtx[k]] : b.coinsLog[k][o] = Spent
      BY <3>1 DEF BlockOK, N
    <4>2. k \in 1 .. N + 1 /\ k + 1 \in 1 .. N + 1
      BY <3>1, <2>7, SMT
    <4> QED BY <3>1, <4>1, <4>2, <2>9, <2>10, <2>11
  <3>2. CASE k = N + 1
    <4>1. N + 1 \in 1 .. N + 1 /\ k + 1 = N + 2
      BY <3>2, <2>7, SMT
    <4>2. new.coinsLog[k] = db.coins
      BY <3>2, <4>1, <2>8, <2>11
    <4> QED BY <3>2, <4>1, <4>2, <2>9, <2>10, <2>11 DEF coins, txundo, db
  <3> QED BY <3>1, <3>2, <2>7, <2>9, SMT
<2>18. ASSUME NEW k \in 1 .. Len(new.vnameundo)
       PROVE  /\ UndoNameAsserts(new.namesLog[k + 1], new.vnameundo[k])
              /\ UndoName(new.namesLog[k + 1], new.vnameundo[k]) = new.namesLog[k]
  <3>1. CASE k \in 1 .. M
    <4>1. /\ UndoNameAsserts(b.namesLog[k + 1], b.vnameundo[k])
          /\ UndoName(b.namesLog[k + 1], b.vnameundo[k]) = b.namesLog[k]
      BY <3>1 DEF BlockOK, M
    <4>2. k \in 1 .. M + 1 /\ k + 1 \in 1 .. M + 1
      BY <3>1, <2>7, SMT
    <4> QED BY <3>1, <4>1, <4>2, <2>12, <2>13
  <3>2. CASE k = M + 1 /\ renamed
    <4>1. M + 1 \in 1 .. M + 1 /\ k + 1 = M + 2
      BY <3>2, <2>7, SMT
    <4> QED BY <3>2, <4>1, <2>3, <2>8, <2>12, <2>13
  <3> QED BY <3>1, <3>2, <2>7, <2>12, SMT
<2>19. BlockOK(new, h)
  <3>1. /\ Len(new.vtxundo) = Len(new.vtx)
        /\ Len(new.coinsLog) = Len(new.vtx) + 1
        /\ Len(new.namesLog) = Len(new.vnameundo) + 1
    BY <2>7, <2>9, <2>10, <2>11, <2>12, <2>13, SMT
  <3> QED BY <2>17, <2>18, <3>1 DEF BlockOK
<2>20. TxsOf(new) = TxsOf(b) \cup {t}
  <3>1. 1 .. Len(new.vtx) = (1 .. N) \cup {N + 1}
    BY <2>7, <2>9, SMT
  <3> QED BY <3>1, <2>9, SMT DEF TxsOf, N
<2> QED BY <2>14, <2>15, <2>16, <2>19, <2>20 DEF new, coins, names, db
(* Undoing the last transaction of a block passes DisconnectBlock's checks *)
(* and leaves the coins the block had before it.                           *)
<1>LastTxUndone.
  ASSUME NEW b \in BlockType, NEW h \in Nat, BlockOK(b, h), b.vtx # <<>>
  PROVE  LET k == Len(b.vtx)
             new == WithoutLastTx(b)
         IN /\ UndoClean(Applied(b).coins, b.vtx[k], h)
            /\ new \in BlockType
            /\ BlockOK(new, h)
            /\ Before(new) = Before(b)
            /\ Applied(new) = [coins |-> UndoCoins(Applied(b).coins, b.vtx[k], b.vtxundo[k]),
                             names |-> Applied(b).names]
<2> USE <1>LastTxUndone
<2> DEFINE k == Len(b.vtx)
           new == WithoutLastTx(b)
<2>1. /\ b.vtx \in Seq(Tx) /\ b.vtxundo \in Seq(CoinsType)
      /\ b.vnameundo \in Seq([name : Name, oldData : NameData \cup {NoData}])
      /\ b.coinsLog \in Seq(CoinsType) /\ b.namesLog \in Seq(NamesType)
      /\ b.vexpired \in SUBSET [name : Name, height : CoinHeight]
  BY DEF BlockType
<2>2. k \in Nat /\ k >= 1 /\ Len(b.vtxundo) = k /\ Len(b.coinsLog) = k + 1
  BY <2>1, SMT DEF BlockOK
<2>3. /\ b.vtxundo[k] = TxUndo(b.coinsLog[k], b.vtx[k])
      /\ b.coinsLog[k + 1] = UpdateCoins(b.coinsLog[k], b.vtx[k], h)
      /\ \A o \in vout[b.vtx[k]] : b.coinsLog[k][o] = Spent
  <3>1. k \in 1 .. Len(b.vtx)
    BY <2>2, SMT
  <3> HIDE DEF k
  <3> QED BY <3>1 DEF BlockOK
<2>4. b.coinsLog[k] \in CoinsType /\ b.vtx[k] \in Tx
  BY <2>1, <2>2, SMT
<2>5. /\ UndoClean(b.coinsLog[k + 1], b.vtx[k], h)
      /\ UndoCoins(b.coinsLog[k + 1], b.vtx[k], b.vtxundo[k]) = b.coinsLog[k]
  BY <2>3, <2>4, <1>UpdateCoinsUndone, SMT
<2>6. Applied(b) = [coins |-> b.coinsLog[k + 1], names |-> b.namesLog[Len(b.namesLog)]]
  BY <2>2 DEF Applied
<2>7. /\ new.vtx = SubSeq(b.vtx, 1, k - 1) /\ new.vtxundo = SubSeq(b.vtxundo, 1, k - 1)
      /\ new.coinsLog = SubSeq(b.coinsLog, 1, k)
      /\ new.vnameundo = b.vnameundo /\ new.vexpired = b.vexpired /\ new.namesLog = b.namesLog
      /\ new = [vtx |-> new.vtx, vtxundo |-> new.vtxundo, vnameundo |-> new.vnameundo,
                vexpired |-> new.vexpired, coinsLog |-> new.coinsLog, namesLog |-> new.namesLog]
  BY DEF WithoutLastTx
<2> HIDE DEF k, new
<2>8. k - 1 \in 0 .. Len(b.vtx) /\ k - 1 \in 0 .. Len(b.vtxundo) /\ k \in 0 .. Len(b.coinsLog)
  BY <2>2, SMT DEF k
<2>9. /\ new.vtx \in Seq(Tx) /\ Len(new.vtx) = k - 1
      /\ \A j \in 1 .. k - 1 : new.vtx[j] = b.vtx[j]
  BY <2>1, <2>7, <2>8, FrontFacts, SMTT(30)
<2>10. /\ new.vtxundo \in Seq(CoinsType) /\ Len(new.vtxundo) = k - 1
       /\ \A j \in 1 .. k - 1 : new.vtxundo[j] = b.vtxundo[j]
  BY <2>1, <2>7, <2>8, FrontFacts, SMTT(30)
<2>11. /\ new.coinsLog \in Seq(CoinsType) /\ Len(new.coinsLog) = k
       /\ \A j \in 1 .. k : new.coinsLog[j] = b.coinsLog[j]
  BY <2>1, <2>7, <2>8, FrontFacts, SMTT(30)
<2>12. new \in BlockType
  BY <2>1, <2>7, <2>9, <2>10, <2>11 DEF BlockType
<2>13. Before(new) = Before(b)
  <3>1. 1 \in 1 .. k
    BY <2>2, SMT
  <3> QED BY <3>1, <2>7, <2>11 DEF Before
<2>14. Applied(new) = [coins |-> b.coinsLog[k], names |-> b.namesLog[Len(b.namesLog)]]
  <3>1. k \in 1 .. k
    BY <2>2, SMT
  <3> QED BY <3>1, <2>7, <2>11 DEF Applied
<2>15. Applied(new) = [coins |-> UndoCoins(Applied(b).coins, b.vtx[k], b.vtxundo[k]),
                             names |-> Applied(b).names]
  BY <2>5, <2>6, <2>14, SMT
<2>16. ASSUME NEW j \in 1 .. Len(new.vtx)
       PROVE  /\ new.vtxundo[j] = TxUndo(new.coinsLog[j], new.vtx[j])
              /\ new.coinsLog[j + 1] = UpdateCoins(new.coinsLog[j], new.vtx[j], h)
              /\ \A o \in vout[new.vtx[j]] : new.coinsLog[j][o] = Spent
  <3>1. j \in 1 .. k - 1 /\ j \in 1 .. k /\ j + 1 \in 1 .. k
    BY <2>2, <2>9, SMT
  <3>2. /\ b.vtxundo[j] = TxUndo(b.coinsLog[j], b.vtx[j])
        /\ b.coinsLog[j + 1] = UpdateCoins(b.coinsLog[j], b.vtx[j], h)
        /\ \A o \in vout[b.vtx[j]] : b.coinsLog[j][o] = Spent
    BY <3>1 DEF BlockOK, k
  <3> QED BY <3>1, <3>2, <2>9, <2>10, <2>11
<2>17. BlockOK(new, h)
  <3>1. Len(new.coinsLog) = Len(new.vtx) + 1
    BY <2>2, <2>9, <2>11, SMT
  <3>2. Len(new.vtxundo) = Len(new.vtx)
    BY <2>9, <2>10
  <3> QED BY <3>1, <3>2, <2>7, <2>16 DEF BlockOK
<2> QED BY <2>5, <2>6, <2>12, <2>13, <2>15, <2>17, SMT DEF k, new
(* Undoing the last name operation of a block violates no assertion and    *)
(* leaves the name database the block had before it.                       *)
<1>LastNameUndone.
  ASSUME NEW b \in BlockType, NEW h \in Nat, BlockOK(b, h), b.vnameundo # <<>>
  PROVE  LET k == Len(b.vnameundo)
             new == WithoutLastName(b)
         IN /\ UndoNameAsserts(Applied(b).names, b.vnameundo[k])
            /\ new \in BlockType
            /\ BlockOK(new, h)
            /\ Before(new) = Before(b)
            /\ Applied(new) = [coins |-> Applied(b).coins,
                             names |-> UndoName(Applied(b).names, b.vnameundo[k])]
<2> USE <1>LastNameUndone
<2> DEFINE k == Len(b.vnameundo)
           new == WithoutLastName(b)
           U == [name : Name, oldData : NameData \cup {NoData}]
<2>1. /\ b.vtx \in Seq(Tx) /\ b.vtxundo \in Seq(CoinsType)
      /\ b.vnameundo \in Seq(U)
      /\ b.coinsLog \in Seq(CoinsType) /\ b.namesLog \in Seq(NamesType)
      /\ b.vexpired \in SUBSET [name : Name, height : CoinHeight]
  BY DEF BlockType
<2>2. k \in Nat /\ k >= 1 /\ Len(b.namesLog) = k + 1
  BY <2>1, SMT DEF BlockOK
<2>3. /\ UndoNameAsserts(b.namesLog[k + 1], b.vnameundo[k])
      /\ UndoName(b.namesLog[k + 1], b.vnameundo[k]) = b.namesLog[k]
  <3>1. k \in 1 .. Len(b.vnameundo)
    BY <2>2, SMT
  <3> HIDE DEF k
  <3> QED BY <3>1 DEF BlockOK
<2>4. Applied(b) = [coins |-> b.coinsLog[Len(b.coinsLog)], names |-> b.namesLog[k + 1]]
  BY <2>2 DEF Applied
<2>5. /\ new.vnameundo = SubSeq(b.vnameundo, 1, k - 1) /\ new.namesLog = SubSeq(b.namesLog, 1, k)
      /\ new.vtx = b.vtx /\ new.vtxundo = b.vtxundo /\ new.coinsLog = b.coinsLog
      /\ new.vexpired = b.vexpired
      /\ new = [vtx |-> new.vtx, vtxundo |-> new.vtxundo, vnameundo |-> new.vnameundo,
                vexpired |-> new.vexpired, coinsLog |-> new.coinsLog, namesLog |-> new.namesLog]
  BY DEF WithoutLastName
<2> HIDE DEF k, new, U
<2>6. k - 1 \in 0 .. Len(b.vnameundo) /\ k \in 0 .. Len(b.namesLog)
  BY <2>2, SMT DEF k
<2>7. /\ new.vnameundo \in Seq(U) /\ Len(new.vnameundo) = k - 1
      /\ \A j \in 1 .. k - 1 : new.vnameundo[j] = b.vnameundo[j]
  BY <2>1, <2>5, <2>6, FrontFacts, SMTT(30)
<2>8. /\ new.namesLog \in Seq(NamesType) /\ Len(new.namesLog) = k
      /\ \A j \in 1 .. k : new.namesLog[j] = b.namesLog[j]
  BY <2>1, <2>5, <2>6, FrontFacts, SMTT(30)
<2>9. new \in BlockType
  BY <2>1, <2>5, <2>7, <2>8 DEF BlockType, U
<2>10. Before(new) = Before(b)
  <3>1. 1 \in 1 .. k
    BY <2>2, SMT
  <3> QED BY <3>1, <2>5, <2>8 DEF Before
<2>11. Applied(new) = [coins |-> b.coinsLog[Len(b.coinsLog)], names |-> b.namesLog[k]]
  <3>1. k \in 1 .. k
    BY <2>2, SMT
  <3> QED BY <3>1, <2>5, <2>8 DEF Applied
<2>12. Applied(new) = [coins |-> Applied(b).coins,
                             names |-> UndoName(Applied(b).names, b.vnameundo[k])]
  BY <2>3, <2>4, <2>11, SMT
<2>13. ASSUME NEW j \in 1 .. Len(new.vnameundo)
       PROVE  /\ UndoNameAsserts(new.namesLog[j + 1], new.vnameundo[j])
              /\ UndoName(new.namesLog[j + 1], new.vnameundo[j]) = new.namesLog[j]
  <3>1. j \in 1 .. k - 1 /\ j \in 1 .. k /\ j + 1 \in 1 .. k
    BY <2>2, <2>7, SMT
  <3>2. /\ UndoNameAsserts(b.namesLog[j + 1], b.vnameundo[j])
        /\ UndoName(b.namesLog[j + 1], b.vnameundo[j]) = b.namesLog[j]
    BY <3>1 DEF BlockOK, k
  <3> QED BY <3>1, <3>2, <2>7, <2>8
<2>14. BlockOK(new, h)
  <3>1. Len(new.namesLog) = Len(new.vnameundo) + 1
    BY <2>2, <2>7, <2>8, SMT
  <3>2. /\ Len(new.vtxundo) = Len(new.vtx) /\ Len(new.coinsLog) = Len(new.vtx) + 1
        /\ \A j \in 1 .. Len(new.vtx) :
             /\ new.vtxundo[j] = TxUndo(new.coinsLog[j], new.vtx[j])
             /\ new.coinsLog[j + 1] = UpdateCoins(new.coinsLog[j], new.vtx[j], h)
             /\ \A o \in vout[new.vtx[j]] : new.coinsLog[j][o] = Spent
    BY <2>5, SMT DEF BlockOK
  <3> QED BY <3>1, <3>2, <2>13 DEF BlockOK
<2> QED BY <2>3, <2>4, <2>9, <2>10, <2>12, <2>14, SMT DEF k, new
(* An empty block, and a block just started on a database.                 *)
<1>StartedBlockOK.
  ASSUME NEW db \in DBType, NEW h
  PROVE  /\ EmptyBlock \in BlockType
         /\ StartedBlock(db) \in BlockType
         /\ BlockOK(StartedBlock(db), h)
         /\ Before(StartedBlock(db)) = db /\ Applied(StartedBlock(db)) = db
         /\ TxsOf(StartedBlock(db)) = {}
<2> USE <1>StartedBlockOK
<2>1. db = [coins |-> db.coins, names |-> db.names] /\ db.coins \in CoinsType /\ db.names \in NamesType
  BY DEF DBType
<2>2. EmptyBlock \in BlockType
  BY SMT DEF EmptyBlock, BlockType
<2>3. StartedBlock(db) \in BlockType
  BY <2>1, SMT DEF StartedBlock, BlockType
<2>4. BlockOK(StartedBlock(db), h)
  BY <2>1, SMT DEF StartedBlock, BlockOK
<2>5. Before(StartedBlock(db)) = db
  BY <2>1 DEF StartedBlock, Before
<2>6. Applied(StartedBlock(db)) = db
  BY <2>1 DEF StartedBlock, Applied
<2>7. TxsOf(StartedBlock(db)) = {}
  BY SMT DEF StartedBlock, TxsOf
<2> QED BY <2>2, <2>3, <2>4, <2>5, <2>6, <2>7
(* The empty chain on top of BaseHeight satisfies the invariant.           *)
<1>InitOK. Init => IInv
<2> SUFFICES ASSUME Init PROVE IInv
  OBVIOUS
<2>1. Len(chain) = 0 /\ Height = BaseHeight /\ Height \in 1 .. MaxHeight
  BY BaseAssumption, ParamsAssumption, SMT DEF Init, Height
<2>2. Connected(Len(chain)) = {}
  BY <2>1, SMT DEF Connected
<2>3. tip.coins = [o \in OutPoint |-> IF o \in BaseCoins THEN BaseHeight ELSE Spent]
      /\ tip.names = EmptyNames /\ tip = [coins |-> tip.coins, names |-> tip.names]
  BY DEF Init
<2>4. tip.coins \in CoinsType
  BY <2>3, BaseAssumption, ParamsAssumption, SMT DEF CoinsType, CoinHeight, Spent
<2>5. EmptyNames \in NamesType
  BY SMT DEF EmptyNames, NamesType
<2>6. tip \in DBType /\ view = tip
  BY <2>3, <2>4, <2>5 DEF DBType, Init
<2>7. chain \in Seq(BlockType) /\ block \in BlockType
  BY <2>6, <1>StartedBlockOK, SMT DEF Init
<2>8. TypeOK
  BY <2>6, <2>7 DEF TypeOK, Init
<2>9. ChainOK
  BY <2>1, SMT DEF ChainOK
<2>10. LedgerOK(tip.coins, {})
  BY <2>3 DEF LedgerOK
<2>11. IndexOK(tip.names) /\ HistoryOK(tip.names, Height)
  BY <2>3, SMT DEF IndexOK, HistoryOK, EmptyNames
<2>12. CoinsMatchNames(tip, Height)
  <3>1. \A o \in OutPoint : tip.coins[o] # Spent => ~isAnyUpdate(o)
    BY <2>3, BaseAssumption DEF isAnyUpdate, isNameOp
  <3>2. \A n \in Name : tip.names.data[n] = NoData
    BY <2>3, SMT DEF EmptyNames
  <3> QED BY <3>1, <3>2 DEF CoinsMatchNames
<2>13. DBOK(tip, Connected(Len(chain)), Height, Height)
  BY <2>2, <2>10, <2>11, <2>12 DEF DBOK
<2> QED BY <2>1, <2>6, <2>8, <2>9, <2>13, SMT DEF IInv, Init
(* A step that leaves the tip and the chain alone keeps what IInv says of  *)
(* them.                                                                   *)
<1>ChainFrame.
  ASSUME IInv, UNCHANGED <<tip, chain, failed>>
  PROVE  /\ ChainOK' /\ Height' = Height /\ (Height <= MaxHeight)'
         /\ DBOK(tip, Connected(Len(chain)), Height, Height)'
         /\ Connected(Len(chain))' = Connected(Len(chain))
         /\ (tip \in DBType)' /\ (chain \in Seq(BlockType))' /\ (failed \in BOOLEAN)'
<2> USE <1>ChainFrame
<2>1. tip' = tip /\ chain' = chain /\ failed' = failed
  OBVIOUS
<2>2. Height' = Height
  BY <2>1 DEF Height
<2>3. Connected(Len(chain))' = Connected(Len(chain))
  BY <2>1 DEF Connected
<2>4. ChainOK'
  <3>1. ChainOK
    BY DEF IInv
  <3> QED BY <2>1, <3>1 DEF ChainOK, ChainBlockOK, Connected, After
<2>5. DBOK(tip, Connected(Len(chain)), Height, Height)'
  <3>1. DBOK(tip, Connected(Len(chain)), Height, Height)
    BY DEF IInv
  <3> QED BY <2>1, <2>2, <2>3, <3>1
<2>6. tip \in DBType /\ chain \in Seq(BlockType) /\ Height <= MaxHeight
  BY DEF IInv, TypeOK
<2>7. failed' \in BOOLEAN
  BY <2>1 DEF IInv, TypeOK
<2> QED BY <2>1, <2>2, <2>3, <2>4, <2>5, <2>6, <2>7
(* ConnectBegin preserves the invariant.                                   *)
<1>ConnectBeginOK.
  ASSUME IInv, ConnectBegin
  PROVE  IInv'
<2> USE <1>ConnectBeginOK
<2>1. /\ tip' = tip /\ chain' = chain /\ failed' = failed /\ ~failed
      /\ view' = tip /\ block' = StartedBlock(tip) /\ pc' = "connect" /\ Height < MaxHeight
  BY DEF ConnectBegin
<2>2. /\ ChainOK' /\ Height' = Height /\ (Height <= MaxHeight)'
      /\ DBOK(tip, Connected(Len(chain)), Height, Height)'
      /\ Connected(Len(chain))' = Connected(Len(chain))
      /\ (tip \in DBType)' /\ (chain \in Seq(BlockType))' /\ (failed \in BOOLEAN)'
  BY <2>1, <1>ChainFrame
<2>3. tip \in DBType /\ DBOK(tip, Connected(Len(chain)), Height, Height) /\ Height \in Nat
  BY IInvFacts DEF IInv, TypeOK
<2>4. /\ block' \in BlockType /\ BlockOK(block', Height + 1)
      /\ Before(block') = tip /\ Applied(block') = tip /\ TxsOf(block') = {}
  BY <2>1, <2>3, <1>StartedBlockOK
<2>5. TypeOK'
  BY <2>1, <2>2, <2>3, <2>4 DEF TypeOK
<2>6. OwnersOK'
  BY <2>1 DEF OwnersOK
<2>7. DBOK(view, Connected(Len(chain)) \cup TxsOf(block), Height, Height + 1)'
  <3>1. DBOK(tip, Connected(Len(chain)), Height, Height + 1)
    BY <2>3, NewestMayGrow
  <3>2. (Connected(Len(chain)) \cup TxsOf(block))' = Connected(Len(chain))
    BY <2>2, <2>4
  <3> QED BY <2>1, <2>2, <3>1, <3>2
<2> QED BY <2>1, <2>2, <2>4, <2>5, <2>6, <2>7 DEF IInv
(* ConnectTx preserves the invariant: in particular it does not fail.      *)
<1>ConnectTxStepOK.
  ASSUME IInv, NEW t \in Tx, ConnectTx(t)
  PROVE  IInv'
<2> USE <1>ConnectTxStepOK
<2> DEFINE C == Connected(Len(chain)) \cup TxsOf(block)
           new == [coins |-> UpdateCoins(view.coins, t, Height + 1),
                   names |-> ApplyNameTransaction(view.names, t, Height + 1)]
<2>1. pc = "connect" /\ ~failed /\ CheckNameTransaction(view, t, Height + 1, FALSE)
  BY DEF ConnectTx
<2>2. /\ view \in DBType /\ block \in BlockType /\ Height < MaxHeight
      /\ BlockOK(block, Height + 1) /\ Before(block) = tip /\ Applied(block) = view
      /\ OwnersOK /\ DBOK(view, C, Height, Height + 1)
  BY <2>1 DEF IInv, TypeOK
<2>3. Height \in Nat /\ Connected(Len(chain)) \subseteq Tx
  BY IInvFacts, SMT
<2>4. C \in SUBSET Tx
  <3>1. block.vtx \in Seq(Tx)
    BY <2>2 DEF BlockType
  <3>2. TxsOf(block) \subseteq Tx
    BY <3>1, SMT DEF TxsOf
  <3> QED BY <2>3, <3>2
<2>5. /\ CheckNameAsserts(view, t, FALSE) /\ ApplyNameAsserts(view.names, t)
      /\ new \in DBType /\ DBOK(new, C \cup {t}, Height, Height + 1)
      /\ \A o \in vout[t] : view.coins[o] = Spent
  <3> HIDE DEF C
  <3> QED BY <2>1, <2>2, <2>3, <2>4, ConnectTxOK
<2>6. /\ view' = new /\ block' = WithTx(block, view, t, Height + 1)
      /\ tip' = tip /\ chain' = chain /\ pc' = pc /\ failed' = failed
  BY <2>5 DEF ConnectTx
<2>7. /\ ChainOK' /\ Height' = Height /\ (Height <= MaxHeight)'
      /\ DBOK(tip, Connected(Len(chain)), Height, Height)'
      /\ Connected(Len(chain))' = Connected(Len(chain))
      /\ (tip \in DBType)' /\ (chain \in Seq(BlockType))' /\ (failed \in BOOLEAN)'
  BY <2>6, <1>ChainFrame
<2>8. /\ block' \in BlockType /\ BlockOK(block', Height + 1)
      /\ Before(block') = tip /\ Applied(block') = new
      /\ TxsOf(block') = TxsOf(block) \cup {t}
  <3>1. Height + 1 \in CoinHeight /\ Height + 1 # 0
    BY <2>2, <2>3, ParamsAssumption, SMT DEF CoinHeight
  <3>2. IndexOK(view.names) /\ HistoryOK(view.names, Height + 1)
    BY <2>2 DEF DBOK
  <3> HIDE DEF new
  <3> QED BY <2>2, <2>5, <2>6, <3>1, <3>2, <1>WithTxOK DEF new
<2>9. TypeOK'
  BY <2>1, <2>5, <2>6, <2>7, <2>8 DEF TypeOK
<2>10. DBOK(view, Connected(Len(chain)) \cup TxsOf(block), Height, Height + 1)'
  <3>1. (Connected(Len(chain)) \cup TxsOf(block))' = C \cup {t}
    BY <2>7, <2>8
  <3> HIDE DEF new, C
  <3> QED BY <2>5, <2>6, <2>7, <3>1
<2>11. OwnersOK'
  <3> SUFFICES ASSUME NEW n \in Name, tip.names.data[n] # NoData,
                      ~isExpired(tip.names.data[n].height, Height + 1),
                      new.names.data[n] # tip.names.data[n]
               PROVE  \E k \in 1 .. Len(block'.vtx) : tip.names.data[n].out \in vin[block'.vtx[k]]
    BY <2>6, <2>7 DEF OwnersOK
  <3> DEFINE old == tip.names.data[n]
  <3>1. /\ block'.vtx = Append(block.vtx, t) /\ block.vtx \in Seq(Tx)
    BY <2>2, <2>6 DEF WithTx, BlockType
  <3>2. /\ Len(block.vtx) \in Nat /\ Len(block'.vtx) = Len(block.vtx) + 1
        /\ block'.vtx[Len(block.vtx) + 1] = t
        /\ \A k \in 1 .. Len(block.vtx) : block'.vtx[k] = block.vtx[k]
    BY <3>1, AppendFacts, SMT
  <3>3. CASE view.names.data[n] # old
    <4>1. PICK k \in 1 .. Len(block.vtx) : old.out \in vin[block.vtx[k]]
      BY <2>2, <3>3 DEF OwnersOK
    <4>2. k \in 1 .. Len(block'.vtx) /\ block'.vtx[k] = block.vtx[k]
      BY <3>2, SMT
    <4> QED BY <4>1, <4>2
  <3>4. CASE view.names.data[n] = old
    <4>1. UpdatedOuts(t) # {} /\ nameOp[UpdatedOut(t)].name = n
      <5>1. UpdatedOuts(t) # {}
        BY <3>4 DEF ApplyNameTransaction
      <5>2. view.names.data \in [Name -> NameData \cup {NoData}]
        BY <2>2 DEF DBType, NamesType
      <5> QED BY <3>4, <5>1, <5>2 DEF ApplyNameTransaction, SetName
    <4>2. PICK in \in NameIns(t) : isAnyUpdate(in) /\ nameOp[in].name = n
      <5> DEFINE out == UpdatedOut(t)
      <5>1. out \in UpdatedOuts(t)
        BY <4>1 DEF UpdatedOut
      <5>2. t \in NamecoinTx /\ out \in NameOuts(t) /\ isAnyUpdate(out) /\ nameOp[out].name = n
        <6> HIDE DEF out
        <6> QED BY <4>1, <5>1 DEF UpdatedOuts, NameOuts, isAnyUpdate, isNameOp, out
      <5> HIDE DEF out
      <5>3. \A o \in NameOuts(t) : o = out
        BY <2>1, <5>2 DEF CheckNameTransaction, AtMostOne
      <5>4. ~FirstUpdateAllowed(view, t, out, Height + 1, FALSE)
        BY <3>4, <5>2 DEF FirstUpdateAllowed, GetName
      <5>5. UpdateAllowed(view, t, out, Height + 1)
        BY <2>1, <5>2, <5>3, <5>4 DEF CheckNameTransaction, isAnyUpdate
      <5> QED BY <5>2, <5>5 DEF UpdateAllowed
    <4>3. in \in vin[t] /\ in \in OutPoint /\ view.coins[in] # Spent
      BY <2>1, CatalogueAssumption DEF CheckNameTransaction, NameIns
    <4>4. view.names.data[n].out = in
      <5>1. CoinsMatchNames(view, Height)
        BY <2>2 DEF DBOK
      <5>2. view.names.data[nameOp[in].name] = [height |-> view.coins[in], out |-> in]
        BY <4>2, <4>3, <5>1 DEF CoinsMatchNames
      <5>3. view.names.data[nameOp[in].name].out = in
        BY <5>2, EntryOut
      <5> QED BY <5>3, <4>2
    <4>5. Len(block.vtx) + 1 \in 1 .. Len(block'.vtx)
      BY <3>2, SMT
    <4> QED BY <3>2, <3>4, <4>3, <4>4, <4>5
  <3> QED BY <3>3, <3>4
<2> QED BY <2>1, <2>2, <2>6, <2>7, <2>8, <2>9, <2>10, <2>11 DEF IInv
(* ConnectInvalid preserves the invariant: the view is dropped.            *)
<1>ConnectInvalidOK.
  ASSUME IInv, ConnectInvalid
  PROVE  IInv'
<2> USE <1>ConnectInvalidOK
<2>1. /\ tip' = tip /\ chain' = chain /\ failed' = failed /\ ~failed
      /\ view' = tip /\ block' = EmptyBlock /\ pc' = "idle"
  BY DEF ConnectInvalid
<2>2. /\ ChainOK' /\ Height' = Height /\ (Height <= MaxHeight)'
      /\ DBOK(tip, Connected(Len(chain)), Height, Height)'
      /\ (tip \in DBType)' /\ (chain \in Seq(BlockType))' /\ (failed \in BOOLEAN)'
  BY <2>1, <1>ChainFrame
<2>3. block' \in BlockType
  BY <2>1, <2>2, <1>StartedBlockOK
<2>4. TypeOK'
  BY <2>1, <2>2, <2>3 DEF TypeOK
<2> QED BY <2>1, <2>2, <2>4 DEF IInv
(* ConnectEnd preserves the invariant: ExpireNames does not fail, and the  *)
(* new block joins the chain with matching undo data.                      *)
<1>ConnectEndOK.
  ASSUME IInv, ConnectEnd
  PROVE  IInv'
<2> USE <1>ConnectEndOK
<2> DEFINE C == Connected(Len(chain)) \cup TxsOf(block)
           new == [coins |-> ExpireCoins(view, Height + 2), names |-> view.names]
           b == [block EXCEPT !.vexpired = ExpireUndo(view, Height + 2)]
<2>0. PICK L \in Nat : L = Len(chain)
  BY IInvFacts
<2>1. pc = "connect" /\ ~failed
  BY DEF ConnectEnd
<2>2. /\ view \in DBType /\ block \in BlockType /\ Height < MaxHeight
      /\ BlockOK(block, Height + 1) /\ Before(block) = tip /\ Applied(block) = view
      /\ DBOK(view, C, Height, Height + 1)
      /\ tip \in DBType /\ chain \in Seq(BlockType) /\ ChainOK
      /\ DBOK(tip, Connected(L), Height, Height)
  BY <2>0, <2>1 DEF IInv, TypeOK
<2>3. /\ Height \in Nat /\ Connected(L) \subseteq Tx /\ L \in Nat
      /\ Height = BaseHeight + L /\ BaseHeight \in Nat
  BY <2>0, IInvFacts, SMT
<2>4. C \in SUBSET Tx
  <3>1. block.vtx \in Seq(Tx)
    BY <2>2 DEF BlockType
  <3>2. TxsOf(block) \subseteq Tx
    <4>1. \A k \in 1 .. Len(block.vtx) : block.vtx[k] \in Tx
      BY <3>1, SMT
    <4> QED BY <4>1 DEF TxsOf
  <3>3. Connected(Len(chain)) \subseteq Tx
    BY <2>0, <2>3
  <3> QED BY <3>2, <3>3
<2>5. /\ ExpireAsserts(Height + 2) /\ ExpireChecks(view, Height + 2)
      /\ new \in DBType /\ DBOK(new, C, Height + 1, Height + 1)
      /\ ExpireUndo(view, Height + 2) \subseteq [name : Name, height : CoinHeight]
  <3> HIDE DEF C
  <3> QED BY <2>2, <2>3, <2>4, ExpireNamesOK
<2>6. /\ tip' = new /\ view' = new /\ chain' = Append(chain, b)
      /\ block' = EmptyBlock /\ pc' = "idle" /\ failed' = failed
  BY <2>5 DEF ConnectEnd
<2>7. /\ b.vtx = block.vtx /\ b.vtxundo = block.vtxundo /\ b.vnameundo = block.vnameundo
      /\ b.coinsLog = block.coinsLog /\ b.namesLog = block.namesLog
      /\ b.vexpired = ExpireUndo(view, Height + 2) /\ b \in BlockType
  BY <2>2, <2>5 DEF BlockType
<2> HIDE DEF b
<2>8. /\ BlockOK(b, Height + 1) /\ Before(b) = tip /\ Applied(b) = view /\ TxsOf(b) = TxsOf(block)
  <3>1. BlockOK(b, Height + 1)
    <4>1. BlockOK(block, Height + 1)
      BY <2>2
    <4>2. /\ b.vtx = block.vtx /\ b.vtxundo = block.vtxundo /\ b.vnameundo = block.vnameundo
          /\ b.coinsLog = block.coinsLog /\ b.namesLog = block.namesLog
      BY <2>7
    <4> QED BY <4>1, <4>2, <1>SameBlockOK
  <3>2. Before(b) = Before(block) /\ Applied(b) = Applied(block) /\ TxsOf(b) = TxsOf(block)
    BY <2>7 DEF Before, Applied, TxsOf
  <3> QED BY <2>2, <3>1, <3>2
<2>9. /\ chain' \in Seq(BlockType) /\ Len(chain') = L + 1 /\ chain'[L + 1] = b
      /\ \A i \in 1 .. L : chain'[i] = chain[i]
  <3>1. chain' = Append(chain, b) /\ chain \in Seq(BlockType) /\ b \in BlockType /\ Len(chain) = L
    BY <2>0, <2>2, <2>6, <2>7
  <3> QED BY <3>1, AppendFacts, SMT
<2>10. /\ Height' = Height + 1 /\ (Height <= MaxHeight)'
  <3>1. Height' = BaseHeight + Len(chain')
    BY DEF Height
  <3>2. Height < MaxHeight /\ MaxHeight \in Nat
    BY <2>2, ParamsAssumption
  <3>3. Len(chain') = L + 1
    BY <2>9
  <3> QED BY <2>3, <3>1, <3>2, <3>3, SMT
<2>11. \A i \in 0 .. L : Connected(i)' = Connected(i)
  BY <2>3, <2>9, SMT DEF Connected
<2>12. Connected(L + 1)' = C
  <3>1. 1 .. L + 1 = (1 .. L) \cup {L + 1}
    BY <2>3, SMT
  <3>2. Connected(L + 1)' = UNION {TxsOf(chain'[j]) : j \in (1 .. L) \cup {L + 1}}
    BY <3>1 DEF Connected
  <3>3. UNION {TxsOf(chain'[j]) : j \in (1 .. L) \cup {L + 1}}
          = (UNION {TxsOf(chain[j]) : j \in 1 .. L}) \cup TxsOf(b)
    BY <2>9
  <3> QED BY <2>0, <3>2, <3>3, <2>8 DEF Connected
<2>13. ASSUME NEW i \in 1 .. L + 1
       PROVE  ChainBlockOK(i)'
  <3>1. CASE i \in 1 .. L
    <4>1. ChainBlockOK(i)
      BY <2>0, <2>2, <3>1 DEF ChainOK
    <4>2. i - 1 \in 0 .. L /\ i \in 0 .. L
      BY <3>1, <2>3, SMT
    <4>3. After(i)' = After(i)
      <5>1. After(i)' = Before(chain'[i + 1])
        BY <3>1, <2>3, <2>9, SMT DEF After
      <5>2. CASE i = L
        BY <2>0, <5>1, <5>2, <2>8, <2>9 DEF After
      <5>3. CASE i # L
        <6>1. i + 1 \in 1 .. L
          BY <3>1, <5>3, <2>3, SMT
        <6> QED BY <2>0, <5>1, <5>3, <6>1, <2>9 DEF After
      <5> QED BY <5>2, <5>3
    <4>4. /\ chain'[i] = chain[i] /\ Connected(i - 1)' = Connected(i - 1)
          /\ Connected(i)' = Connected(i)
      BY <3>1, <4>2, <2>9, <2>11
    <4> QED BY <4>1, <4>3, <4>4 DEF ChainBlockOK
  <3>2. CASE i = L + 1
    <4>1. /\ BaseHeight + i = Height + 1 /\ (BaseHeight + i) - 1 = Height
          /\ (BaseHeight + i) + 1 = Height + 2 /\ i - 1 = L /\ L \in 0 .. L
      BY <3>2, <2>3, SMT
    <4>2. After(i)' = new
      BY <3>2, <2>6, <2>9 DEF After
    <4>3. chain'[i] = b /\ Connected(i - 1)' = Connected(L) /\ Connected(i)' = C
      BY <3>2, <4>1, <2>9, <2>11, <2>12
    <4>4. /\ BlockOK(chain'[i], BaseHeight + i)
          /\ DBOK(Before(chain'[i]), Connected(i - 1)', (BaseHeight + i) - 1, (BaseHeight + i) - 1)
          /\ DBOK(Applied(chain'[i]), Connected(i)', (BaseHeight + i) - 1, BaseHeight + i)
      <5> HIDE DEF C
      <5> QED BY <4>1, <4>3, <2>2, <2>8
    <4>5. /\ chain'[i].vexpired = ExpireUndo(Applied(chain'[i]), (BaseHeight + i) + 1)
          /\ After(i)' = [coins |-> ExpireCoins(Applied(chain'[i]), (BaseHeight + i) + 1),
                          names |-> Applied(chain'[i]).names]
      BY <4>1, <4>2, <4>3, <2>7, <2>8
    <4> QED BY <4>4, <4>5 DEF ChainBlockOK
  <3> QED BY <3>1, <3>2, <2>3, SMT
<2>14. ChainOK'
  BY <2>9, <2>13 DEF ChainOK
<2>15. DBOK(tip, Connected(Len(chain)), Height, Height)'
  <3>1. Connected(Len(chain))' = C
    BY <2>9, <2>12 DEF Connected
  <3> HIDE DEF C, new
  <3> QED BY <3>1, <2>5, <2>6, <2>10
<2>16. TypeOK'
  <3>1. block' \in BlockType
    BY <2>2, <2>6, <1>StartedBlockOK
  <3>2. failed' \in BOOLEAN
    BY <2>6 DEF IInv, TypeOK
  <3> QED BY <2>5, <2>6, <2>9, <3>1, <3>2 DEF TypeOK
<2> QED BY <2>1, <2>6, <2>10, <2>14, <2>15, <2>16 DEF IInv
(* DisconnectBegin preserves the invariant: UnexpireNames succeeds and     *)
(* leaves the database as the block's transactions left it.                *)
<1>DisconnectBeginOK.
  ASSUME IInv, DisconnectBegin
  PROVE  IInv'
<2> USE <1>DisconnectBeginOK
<2> DEFINE b == chain[Len(chain)]
<2>0. PICK L \in Nat : L = Len(chain)
  BY IInvFacts
<2>1. pc = "idle" /\ ~failed /\ chain # <<>>
  BY DEF DisconnectBegin
<2>2. /\ chain \in Seq(BlockType) /\ tip \in DBType /\ ChainOK
      /\ Height \in Nat /\ Height = BaseHeight + L /\ BaseHeight \in Nat /\ BaseHeight >= 1
      /\ Height <= MaxHeight /\ Connected(L) \subseteq Tx
  <3>1. chain \in Seq(BlockType) /\ tip \in DBType /\ ChainOK
    BY DEF IInv, TypeOK
  <3>2. /\ Height \in Nat /\ Height = BaseHeight + L /\ BaseHeight \in Nat /\ BaseHeight >= 1
        /\ Height <= MaxHeight
    BY <2>0, IInvFacts
  <3>3. Connected(L) \subseteq Tx
    <4>1. L \in Int /\ ~(L > Len(chain))
      BY <2>0, SMT
    <4> QED BY <4>1, IInvFacts
  <3> QED BY <3>1, <3>2, <3>3
<2>3. L >= 1 /\ L \in 1 .. L /\ b \in BlockType
  BY <2>0, <2>1, <2>2, SMT
<2>4. ChainBlockOK(L)
  BY <2>0, <2>2, <2>3 DEF ChainOK
<2>5. PICK h \in Nat : /\ h < MaxHeight /\ h + 1 = Height /\ h + 2 = Height + 1
                       /\ (BaseHeight + L) - 1 = h
  <3>1. /\ Height - 1 \in Nat /\ Height - 1 < MaxHeight /\ (Height - 1) + 1 = Height
        /\ (Height - 1) + 2 = Height + 1 /\ (BaseHeight + L) - 1 = Height - 1
    BY <2>2, <2>3, ParamsAssumption, SMT
  <3> QED BY <3>1
<2>6. /\ BlockOK(b, Height) /\ DBOK(Applied(b), Connected(L), h, h + 1)
      /\ b.vexpired = ExpireUndo(Applied(b), h + 2)
      /\ After(L) = [coins |-> ExpireCoins(Applied(b), h + 2), names |-> Applied(b).names]
  BY <2>0, <2>2, <2>4, <2>5 DEF ChainBlockOK
<2>7. tip = [coins |-> ExpireCoins(Applied(b), h + 2), names |-> Applied(b).names]
  BY <2>0, <2>6 DEF After
<2>8. Applied(b) \in DBType
  BY <2>3, <2>6, BlockEnds
<2>9. /\ UnexpireChecks(tip, b.vexpired, h + 2)
      /\ UnexpireCoins(tip, b.vexpired) = Applied(b).coins
  <3> HIDE DEF b
  <3> QED BY <2>2, <2>5, <2>6, <2>7, <2>8, <1>ExpireNamesUndone
<2>10. /\ view' = [coins |-> UnexpireCoins(tip, b.vexpired), names |-> tip.names]
       /\ block' = b /\ pc' = "undo coins" /\ tip' = tip /\ chain' = chain /\ failed' = failed
  BY <2>5, <2>9 DEF DisconnectBegin
<2>11. view' = Applied(b)
  <3>1. tip.names = Applied(b).names
    BY <2>7
  <3> HIDE DEF b
  <3> QED BY <2>8, <2>9, <2>10, <3>1 DEF DBType
<2>12. /\ ChainOK' /\ Height' = Height /\ (Height <= MaxHeight)'
       /\ DBOK(tip, Connected(Len(chain)), Height, Height)'
       /\ (tip \in DBType)' /\ (chain \in Seq(BlockType))' /\ (failed \in BOOLEAN)'
  BY <2>10, <1>ChainFrame
<2>13. TypeOK'
  BY <2>3, <2>8, <2>10, <2>11, <2>12 DEF TypeOK
<2>14. (chain # <<>> /\ BlockOK(block, Height)
         /\ Before(block) = Before(chain[Len(chain)]) /\ Applied(block) = view)'
  BY <2>1, <2>6, <2>10, <2>11, <2>12
<2> QED BY <2>1, <2>10, <2>12, <2>13, <2>14 DEF IInv
(* DisconnectTx preserves the invariant.                                   *)
<1>DisconnectTxOK.
  ASSUME IInv, DisconnectTx
  PROVE  IInv'
<2> USE <1>DisconnectTxOK
<2> DEFINE k == Len(block.vtx)
<2>1. pc = "undo coins" /\ block.vtx # <<>>
  BY DEF DisconnectTx
<2>2. /\ block \in BlockType /\ BlockOK(block, Height) /\ Height \in Nat
      /\ Before(block) = Before(chain[Len(chain)]) /\ Applied(block) = view
      /\ chain # <<>> /\ ~failed
  BY <2>1, UndoFacts
<2>3. /\ UndoClean(view.coins, block.vtx[k], Height)
      /\ WithoutLastTx(block) \in BlockType /\ BlockOK(WithoutLastTx(block), Height)
      /\ Before(WithoutLastTx(block)) = Before(block)
      /\ Applied(WithoutLastTx(block))
           = [coins |-> UndoCoins(view.coins, block.vtx[k], block.vtxundo[k]), names |-> view.names]
  BY <2>1, <2>2, <1>LastTxUndone
<2>4. /\ view' = [coins |-> UndoCoins(view.coins, block.vtx[k], block.vtxundo[k]),
                  names |-> view.names]
      /\ block' = WithoutLastTx(block)
      /\ tip' = tip /\ chain' = chain /\ pc' = pc /\ failed' = failed
  BY <2>3 DEF DisconnectTx
<2>5. /\ ChainOK' /\ Height' = Height /\ (Height <= MaxHeight)'
      /\ DBOK(tip, Connected(Len(chain)), Height, Height)'
      /\ (tip \in DBType)' /\ (chain \in Seq(BlockType))' /\ (failed \in BOOLEAN)'
  BY <2>4, <1>ChainFrame
<2>6. /\ block' \in BlockType /\ BlockOK(block', Height')
      /\ Before(block') = Before(chain'[Len(chain')]) /\ Applied(block') = view'
  BY <2>2, <2>3, <2>4, <2>5
<2>7. view' \in DBType
  BY <2>6, BlockEnds
<2>8. TypeOK'
  BY <2>1, <2>4, <2>5, <2>6, <2>7 DEF TypeOK
<2> QED BY <2>1, <2>2, <2>4, <2>5, <2>6, <2>8 DEF IInv
(* DisconnectName preserves the invariant.                                 *)
<1>DisconnectNameOK.
  ASSUME IInv, DisconnectName
  PROVE  IInv'
<2> USE <1>DisconnectNameOK
<2> DEFINE k == Len(block.vnameundo)
<2>1. pc = "undo coins" /\ block.vnameundo # <<>>
  BY DEF DisconnectName
<2>2. /\ block \in BlockType /\ BlockOK(block, Height) /\ Height \in Nat
      /\ Before(block) = Before(chain[Len(chain)]) /\ Applied(block) = view
      /\ chain # <<>> /\ ~failed
  BY <2>1, UndoFacts
<2>3. /\ UndoNameAsserts(view.names, block.vnameundo[k])
      /\ WithoutLastName(block) \in BlockType /\ BlockOK(WithoutLastName(block), Height)
      /\ Before(WithoutLastName(block)) = Before(block)
      /\ Applied(WithoutLastName(block))
           = [coins |-> view.coins, names |-> UndoName(view.names, block.vnameundo[k])]
  BY <2>1, <2>2, <1>LastNameUndone
<2>4. /\ view' = [coins |-> view.coins, names |-> UndoName(view.names, block.vnameundo[k])]
      /\ block' = WithoutLastName(block)
      /\ tip' = tip /\ chain' = chain /\ pc' = pc /\ failed' = failed
  BY <2>3 DEF DisconnectName
<2>5. /\ ChainOK' /\ Height' = Height /\ (Height <= MaxHeight)'
      /\ DBOK(tip, Connected(Len(chain)), Height, Height)'
      /\ (tip \in DBType)' /\ (chain \in Seq(BlockType))' /\ (failed \in BOOLEAN)'
  BY <2>4, <1>ChainFrame
<2>6. /\ block' \in BlockType /\ BlockOK(block', Height')
      /\ Before(block') = Before(chain'[Len(chain')]) /\ Applied(block') = view'
  BY <2>2, <2>3, <2>4, <2>5
<2>7. view' \in DBType
  BY <2>6, BlockEnds
<2>8. TypeOK'
  BY <2>1, <2>4, <2>5, <2>6, <2>7 DEF TypeOK
<2> QED BY <2>1, <2>2, <2>4, <2>5, <2>6, <2>8 DEF IInv
(* DisconnectEnd preserves the invariant: the tip is the one the previous  *)
(* block left.                                                             *)
<1>DisconnectEndOK.
  ASSUME IInv, DisconnectEnd
  PROVE  IInv'
<2> USE <1>DisconnectEndOK
<2>0. PICK L \in Nat : L = Len(chain)
  BY IInvFacts
<2>1. /\ pc = "undo coins" /\ block.vtx = <<>> /\ block.vnameundo = <<>>
      /\ tip' = view /\ chain' = SubSeq(chain, 1, L - 1) /\ block' = EmptyBlock
      /\ pc' = "idle" /\ view' = view /\ failed' = failed
  BY <2>0 DEF DisconnectEnd
<2>2. /\ chain # <<>> /\ chain \in Seq(BlockType) /\ view \in DBType /\ ~failed
      /\ ChainOK /\ Height = BaseHeight + L /\ BaseHeight \in Nat /\ Height <= MaxHeight
  BY <2>0, <2>1, UndoFacts, IInvFacts DEF IInv
<2>3. L >= 1 /\ L \in 1 .. L /\ L - 1 \in 0 .. Len(chain)
  BY <2>0, <2>2, SMT
<2>4. tip' = Before(chain[L])
  BY <2>0, <2>1, UndoneIsBefore
<2>5. /\ chain' \in Seq(BlockType) /\ Len(chain') = L - 1
      /\ \A i \in 1 .. L - 1 : chain'[i] = chain[i]
  BY <2>1, <2>2, <2>3, FrontFacts
<2>6. Height' = Height - 1 /\ (Height <= MaxHeight)'
  <3>1. Height' = BaseHeight + Len(chain')
    BY DEF Height
  <3> QED BY <2>2, <2>3, <2>5, <3>1, ParamsAssumption, SMT
<2>7. \A i \in 0 .. L - 1 : Connected(i)' = Connected(i)
  BY <2>3, <2>5, SMT DEF Connected
<2>8. ASSUME NEW i \in 1 .. L - 1
      PROVE  ChainBlockOK(i)'
  <3>1. i \in 1 .. L /\ i - 1 \in 0 .. L - 1 /\ i \in 0 .. L - 1
    BY <2>3, SMT
  <3>2. ChainBlockOK(i)
    BY <2>0, <2>2, <3>1 DEF ChainOK
  <3>3. After(i)' = After(i)
    <4>1. After(i) = Before(chain[i + 1])
      BY <2>0, <2>3, SMT DEF After
    <4>2. CASE i = L - 1
      <5>1. After(i)' = tip'
        BY <4>2, <2>5 DEF After
      <5>2. i + 1 = L
        BY <4>2, <2>3, SMT
      <5> QED BY <4>1, <5>1, <5>2, <2>4
    <4>3. CASE i # L - 1
      <5>1. i + 1 \in 1 .. L - 1
        BY <4>3, <2>3, SMT
      <5> QED BY <4>1, <4>3, <5>1, <2>5 DEF After
    <4> QED BY <4>2, <4>3
  <3>4. /\ chain'[i] = chain[i] /\ Connected(i - 1)' = Connected(i - 1)
        /\ Connected(i)' = Connected(i)
    BY <3>1, <2>5, <2>7
  <3> QED BY <3>2, <3>3, <3>4 DEF ChainBlockOK
<2>9. ChainOK'
  BY <2>5, <2>8 DEF ChainOK
<2>10. DBOK(tip, Connected(Len(chain)), Height, Height)'
  <3>1. ChainBlockOK(L)
    BY <2>0, <2>2, <2>3 DEF ChainOK
  <3>2. DBOK(Before(chain[L]), Connected(L - 1), (BaseHeight + L) - 1, (BaseHeight + L) - 1)
    BY <3>1 DEF ChainBlockOK
  <3>3. Height' = (BaseHeight + L) - 1
    BY <2>2, <2>6
  <3>4. Connected(Len(chain))' = Connected(L - 1)
    <4>1. L - 1 \in 0 .. L - 1
      BY <2>3, SMT
    <4> QED BY <4>1, <2>5, <2>7 DEF Connected
  <3> QED BY <2>4, <3>2, <3>3, <3>4
<2>11. TypeOK'
  <3>1. block' \in BlockType
    BY <2>1, <2>2, <1>StartedBlockOK
  <3>2. failed' \in BOOLEAN
    BY <2>1 DEF IInv, TypeOK
  <3> QED BY <2>1, <2>2, <2>5, <3>1, <3>2 DEF TypeOK
<2> QED BY <2>1, <2>2, <2>6, <2>9, <2>10, <2>11 DEF IInv
(* Every step of Next, and every stuttering step, preserves the invariant. *)
<1>NextOK.
  ASSUME IInv, [Next]_vars
  PROVE  IInv'
<2> USE <1>NextOK
<2>1. CASE UNCHANGED vars
  <3>1. /\ tip' = tip /\ view' = view /\ chain' = chain /\ block' = block
        /\ pc' = pc /\ failed' = failed
    BY <2>1 DEF vars
  <3>2. /\ ChainOK' /\ Height' = Height /\ (Height <= MaxHeight)'
        /\ DBOK(tip, Connected(Len(chain)), Height, Height)'
        /\ (tip \in DBType)' /\ (chain \in Seq(BlockType))' /\ (failed \in BOOLEAN)'
    BY <3>1, <1>ChainFrame
  <3>3. TypeOK'
    BY <3>1, <3>2 DEF IInv, TypeOK
  <3>4. OwnersOK => OwnersOK'
    BY <3>1, <3>2 DEF OwnersOK
  <3>5. Connected(Len(chain))' = Connected(Len(chain))
    BY <3>1 DEF Connected
  <3> QED BY <3>1, <3>2, <3>3, <3>4, <3>5 DEF IInv
<2>2. CASE Next
  BY <2>2, <1>ConnectBeginOK, <1>ConnectTxStepOK, <1>ConnectInvalidOK, <1>ConnectEndOK,
     <1>DisconnectBeginOK, <1>DisconnectTxOK, <1>DisconnectNameOK, <1>DisconnectEndOK DEF Next
<2> QED BY <2>1, <2>2
<1> QED BY <1>InitOK, <1>NextOK

(* The inductive invariant holds throughout: for every catalogue of        *)
(* transactions, every expiration schedule that meets DepthAssumption and  *)
(* every sequence of connected and disconnected blocks.                    *)
THEOREM InvariantHolds == Spec => []IInv
<1> QED BY InvariantInductive, PTL DEF Spec

(* Every variable keeps its type; in particular history heights, undo      *)
(* records and expire index entries stay within the chain's heights.       *)
THEOREM TypeCorrect == Spec => []TypeOK
<1>1. IInv => TypeOK
  BY DEF IInv
<1> QED BY <1>1, InvariantHolds, PTL

(* No assertion in the name code fails, ExpireNames and UnexpireNames meet *)
(* no inconsistency and every DisconnectBlock is DISCONNECT_OK.            *)
THEOREM NeverFails == Spec => []NoFailure
<1>1. IInv => NoFailure
  BY DEF IInv, NoFailure
<1> QED BY <1>1, InvariantHolds, PTL

(* The invariant makes ValidateNameDB succeed between blocks: the names    *)
(* with an unspent coin, the names that have not expired and the entries   *)
(* of the expire index agree.                                              *)
LEMMA InvariantValidates == IInv => NameDBConsistent
<1>1. ASSUME IInv, pc = "idle"
      PROVE  ValidateNameDB(tip, Height)
  <2>1. /\ DBOK(tip, Connected(Len(chain)), Height, Height) /\ tip \in DBType
    BY <1>1 DEF IInv, TypeOK
  <2>2. IndexOK(tip.names) /\ HistoryOK(tip.names, Height) /\ CoinsMatchNames(tip, Height)
    BY <2>1 DEF DBOK
  <2>3. /\ tip.names.data \in [Name -> NameData \cup {NoData}]
        /\ tip.names.expireIndex \subseteq (1 .. MaxHeight) \X Name
    BY <2>1 DEF DBType, NamesType
  <2> DEFINE ns == tip.names
             index == {<<ns.data[n].height, n>> : n \in {m \in Name : ns.data[m] # NoData}}
             Live(n) == ns.data[n] # NoData /\ ~isExpired(ns.data[n].height, Height + 1)
             NameCoins(n) == {o \in OutPoint : /\ tip.coins[o] # Spent
                                               /\ isAnyUpdate(o) /\ nameOp[o].name = n}
  <2>4. ns.expireIndex = index
    <3>1. ASSUME NEW p \in ns.expireIndex PROVE p \in index
      <4>1. PICK h \in 1 .. MaxHeight, n \in Name : p = <<h, n>>
        BY <2>3, <3>1, SMT
      <4> QED BY <4>1, <3>1, <2>2 DEF IndexOK
    <3>2. ASSUME NEW n \in Name, ns.data[n] # NoData
          PROVE  <<ns.data[n].height, n>> \in ns.expireIndex
      <4>1. ns.data[n].height \in 1 .. MaxHeight
        BY <3>2, <2>3 DEF NameData
      <4> QED BY <4>1, <3>2, <2>2 DEF IndexOK
    <3> QED BY <3>1, <3>2
  <2>5. ASSUME NEW n \in Name
        PROVE  /\ AtMostOne(NameCoins(n))
               /\ Live(n) <=> NameCoins(n) # {}
    <3>1. ASSUME NEW o \in NameCoins(n)
          PROVE  Live(n) /\ ns.data[n].out = o
      <4>1. /\ ns.data[n] = [height |-> tip.coins[o], out |-> o]
            /\ ~isExpired(ns.data[n].height, Height + 1)
        BY <3>1, <2>2 DEF CoinsMatchNames
      <4>2. ns.data[n] # NoData
        <5>1. o \in OutPoint /\ tip.coins[o] # Spent
          BY <3>1
        <5>2. tip.coins[o] \in CoinHeight
          <6>1. tip.coins \in [OutPoint -> CoinHeight]
            BY <2>1 DEF DBType, CoinsType
          <6> QED BY <5>1, <6>1
        <5>3. [height |-> tip.coins[o], out |-> o] # NoData
          BY <5>1, <5>2, DataOfCoin
        <5> QED BY <5>3, <4>1
      <4> QED BY <4>1, <4>2, SMT
    <3>2. ASSUME Live(n) PROVE NameCoins(n) # {}
      <4>1. ns.data[n].out \in OutPoint
        BY <3>2, <2>3 DEF NameData
      <4>2. ns.data[n].out \in NameCoins(n)
        BY <4>1, <3>2, <2>2 DEF CoinsMatchNames
      <4> QED BY <4>2
    <3> QED BY <3>1, <3>2 DEF AtMostOne
  <2>6. ASSUME NEW n \in Name
        PROVE  /\ ns.data[n] = NoData => ns.history[n] = <<>>
               /\ ~fNameHistory => ns.history[n] = <<>>
    BY <2>2 DEF HistoryOK
  <2> QED BY <2>4, <2>5, <2>6 DEF ValidateNameDB
<1> QED BY <1>1 DEF NameDBConsistent

(* ValidateNameDB succeeds after every ConnectTip and DisconnectTip.       *)
THEOREM NameDBAlwaysConsistent == Spec => []NameDBConsistent
<1> QED BY InvariantValidates, InvariantHolds, PTL

(* The comment in CheckNameTransaction is right: the check of NAME_UPDATE  *)
(* against the name database follows from the UTXO set.                    *)
THEOREM UpdateCheckIsRedundant == Spec => []UpdateCheckRedundant
<1>1. ASSUME IInv, pc \in {"idle", "connect"}
      PROVE  CoinsMatchNames(view, Height)
  BY <1>1 DEF IInv, DBOK
<1>2. IInv => UpdateCheckRedundant
  BY <1>1 DEF UpdateCheckRedundant, CoinsMatchNames, GetName
<1> QED BY <1>2, InvariantHolds, PTL

(* DisconnectTip is the exact inverse of ConnectTip on coins, name data,   *)
(* name history and expire index.                                          *)
THEOREM DisconnectIsInverse == Spec => DisconnectRestores
<1> DEFINE A == Len(chain') < Len(chain) =>
                  LET b == chain[Len(chain)]
                  IN tip' = [coins |-> b.coinsLog[1], names |-> b.namesLog[1]]
<1>1. ASSUME IInv, Next
      PROVE  A
  <2>1. SUFFICES ASSUME Len(chain') < Len(chain)
                 PROVE  tip' = Before(chain[Len(chain)])
    BY DEF Before
  <2>2. Len(chain) \in Nat /\ chain \in Seq(BlockType)
    BY <1>1, IInvFacts DEF IInv, TypeOK
  <2>3. chain' # chain
    BY <2>1, <2>2, SMT
  <2>4. CASE ConnectEnd
    <3>1. \A b : Len(Append(chain, b)) = Len(chain) + 1
      BY <2>2, SMT
    <3> QED BY <2>1, <2>2, <2>3, <2>4, <3>1, SMT DEF ConnectEnd, Fail
  <2>5. CASE DisconnectEnd
    <3>1. /\ pc = "undo coins" /\ block.vtx = <<>> /\ block.vnameundo = <<>> /\ tip' = view
      BY <2>5 DEF DisconnectEnd
    <3> QED BY <1>1, <3>1, UndoneIsBefore
  <2> QED BY <1>1, <2>3, <2>4, <2>5
          DEF Next, ConnectBegin, ConnectTx, ConnectInvalid, DisconnectBegin, DisconnectTx,
              DisconnectName, Fail
<1>2. ASSUME IInv, [Next]_vars
      PROVE  [A]_vars
  BY <1>1, <1>2
<1> QED BY <1>2, InvariantHolds, PTL DEF Spec, DisconnectRestores

(* A block changes a name that has not expired only by spending its coin.  *)
THEOREM OnlyOwnersUpdate == Spec => OnlyOwnerUpdates
<1> DEFINE A == Len(chain') > Len(chain) =>
                  \A n \in Name :
                    LET old == GetName(tip.names, n)
                    IN (old # NoData /\ ~isExpired(old.height, Height + 1)
                          /\ GetName(tip'.names, n) # old)
                         => \E k \in DOMAIN block.vtx : old.out \in vin[block.vtx[k]]
<1>1. ASSUME IInv, Next
      PROVE  A
  <2>1. SUFFICES ASSUME Len(chain') > Len(chain)
                 PROVE  A
    OBVIOUS
  <2>2. Len(chain) \in Nat /\ chain \in Seq(BlockType)
    BY <1>1, IInvFacts DEF IInv, TypeOK
  <2>3. chain' # chain
    BY <2>1, <2>2, SMT
  <2>4. CASE ConnectEnd
    <3>1. pc = "connect" /\ tip'.names = view.names
      BY <2>3, <2>4, SMT DEF ConnectEnd, Fail
    <3>2. OwnersOK /\ block \in BlockType
      BY <1>1, <3>1 DEF IInv, TypeOK
    <3>3. DOMAIN block.vtx = 1 .. Len(block.vtx)
      BY <3>2, SMT DEF BlockType
    <3> QED BY <3>1, <3>2, <3>3 DEF OwnersOK, GetName
  <2>5. CASE DisconnectEnd
    <3>1. chain' = SubSeq(chain, 1, Len(chain) - 1) /\ pc = "undo coins"
      BY <2>5 DEF DisconnectEnd
    <3>2. chain # <<>>
      BY <1>1, <3>1, UndoFacts
    <3>3. Len(chain) - 1 \in 0 .. Len(chain)
      BY <2>2, <3>2, SMT
    <3>4. Len(chain') = Len(chain) - 1
      BY <2>2, <3>1, <3>3, FrontFacts
    <3>5. FALSE
      BY <2>1, <2>2, <3>4, SMT
    <3> QED BY <3>5
  <2> QED BY <1>1, <2>3, <2>4, <2>5
          DEF Next, ConnectBegin, ConnectTx, ConnectInvalid, DisconnectBegin, DisconnectTx,
              DisconnectName, Fail
<1>2. ASSUME IInv, [Next]_vars
      PROVE  [A]_vars
  BY <1>1, <1>2
<1> QED BY <1>2, InvariantHolds, PTL DEF Spec, OnlyOwnerUpdates
-----------------------------------------------------------------------------
(* No transaction is in the chain twice.                                   *)

(* A transaction is at one place of the active chain at most.              *)
ConfirmedOnce ==
  \A i, j \in 1 .. Len(chain) : \A k \in 1 .. Len(chain[i].vtx), l \in 1 .. Len(chain[j].vtx) :
    chain[i].vtx[k] = chain[j].vtx[l] => i = j /\ k = l

(* The same of the chain with the block that is being connected.           *)
OnceInv ==
  /\ ConfirmedOnce
  /\ pc = "connect" =>
       /\ \A k, l \in 1 .. Len(block.vtx) : block.vtx[k] = block.vtx[l] => k = l
       /\ \A i \in 1 .. Len(chain) :
            \A k \in 1 .. Len(block.vtx), l \in 1 .. Len(chain[i].vtx) : block.vtx[k] # chain[i].vtx[l]

(* ConnectBlock never confirms a transaction a second time, through any    *)
(* sequence of reorganisations: what it spends is gone.  The queue of      *)
(* disconnected transactions relies on it.                                 *)
THEOREM TransactionsConfirmedOnce == Spec => []OnceInv
(* ConnectTx only adds a transaction whose inputs are unspent, and those   *)
(* of a confirmed one are not.                                             *)
<1>NewTxIsNew.
  ASSUME IInv, pc = "connect", NEW t \in Tx, CheckNameTransaction(view, t, Height + 1, FALSE)
  PROVE  /\ \A k \in 1 .. Len(block.vtx) : block.vtx[k] # t
         /\ \A i \in 1 .. Len(chain) : \A l \in 1 .. Len(chain[i].vtx) : chain[i].vtx[l] # t
<2> USE <1>NewTxIsNew
<2>1. LedgerOK(view.coins, Connected(Len(chain)) \cup TxsOf(block))
  BY DEF IInv, DBOK
<2>2. t \notin Connected(Len(chain)) \cup TxsOf(block)
  <3>1. PICK o \in vin[t] : TRUE
    BY CatalogueAssumption
  <3>2. view.coins[o] # Spent
    BY DEF CheckNameTransaction
  <3> QED BY <2>1, <3>2 DEF LedgerOK
<2> QED BY <2>2, SMT DEF Connected, TxsOf
(* A step of the chain keeps every transaction at one place.               *)
<1>OnceStep.
  ASSUME IInv, IInv', OnceInv, [Next]_vars
  PROVE  OnceInv'
<2> USE <1>OnceStep
<2>0. Len(chain) \in Nat /\ chain \in Seq(BlockType) /\ ~failed /\ ~failed'
  BY IInvFacts DEF IInv, TypeOK
<2>1. ASSUME chain' = chain, pc' # "connect" PROVE OnceInv'
  BY <2>1, SMT DEF OnceInv, ConfirmedOnce
<2>2. CASE UNCHANGED vars
  BY <2>2, SMT DEF vars, OnceInv, ConfirmedOnce
<2>3. CASE ConnectBegin
  <3>1. chain' = chain /\ block'.vtx = <<>>
    BY <2>3 DEF ConnectBegin, StartedBlock
  <3>2. 1 .. Len(block'.vtx) = {}
    BY <3>1, SMT
  <3>3. ConfirmedOnce'
    BY <3>1, SMT DEF OnceInv, ConfirmedOnce
  <3> QED BY <3>2, <3>3 DEF OnceInv
<2>4. ASSUME NEW t \in Tx, ConnectTx(t) PROVE OnceInv'
  <3>0. block' = WithTx(block, view, t, Height + 1)
    BY <2>0, <2>4 DEF ConnectTx, Fail
  <3>1. /\ pc = "connect" /\ CheckNameTransaction(view, t, Height + 1, FALSE)
        /\ block'.vtx = Append(block.vtx, t) /\ chain' = chain /\ pc' = pc
    <4>1. WithTx(block, view, t, Height + 1).vtx = Append(block.vtx, t)
      BY DEF WithTx
    <4> QED BY <2>0, <2>4, <3>0, <4>1 DEF ConnectTx, Fail
  <3>2. block.vtx \in Seq(Tx)
    BY DEF IInv, TypeOK, BlockType
  <3> DEFINE N == Len(block.vtx)
  <3>3. /\ N \in Nat /\ Len(block'.vtx) = N + 1 /\ block'.vtx[N + 1] = t
        /\ \A k \in 1 .. N : block'.vtx[k] = block.vtx[k]
    BY <3>1, <3>2, AppendFacts, SMT
  <3>4. \A k \in 1 .. N + 1 : k \in 1 .. N \/ k = N + 1
    BY <3>3, SMT
  <3>5. /\ \A k \in 1 .. N : block.vtx[k] # t
        /\ \A i \in 1 .. Len(chain) : \A l \in 1 .. Len(chain[i].vtx) : chain[i].vtx[l] # t
    BY <3>1, <1>NewTxIsNew
  <3>6. /\ \A k, l \in 1 .. N : block.vtx[k] = block.vtx[l] => k = l
        /\ \A i \in 1 .. Len(chain) :
             \A k \in 1 .. N, l \in 1 .. Len(chain[i].vtx) : block.vtx[k] # chain[i].vtx[l]
    BY <3>1 DEF OnceInv
  <3> HIDE DEF N
  <3>7. \A k, l \in 1 .. N + 1 : block'.vtx[k] = block'.vtx[l] => k = l
    BY <3>3, <3>4, <3>5, <3>6
  <3>8. \A i \in 1 .. Len(chain) :
          \A k \in 1 .. N + 1, l \in 1 .. Len(chain[i].vtx) : block'.vtx[k] # chain[i].vtx[l]
    BY <3>3, <3>4, <3>5, <3>6, SMT
  <3>9. ConfirmedOnce'
    <4>1. ConfirmedOnce /\ chain' = chain
      BY <3>1 DEF OnceInv
    <4> QED BY <4>1, SMT DEF ConfirmedOnce
  <3> QED BY <3>1, <3>3, <3>7, <3>8, <3>9, SMTT(30) DEF OnceInv
<2>5. CASE ConnectEnd
  <3> DEFINE L == Len(chain)
             b == [block EXCEPT !.vexpired = ExpireUndo(view, Height + 2)]
  <3>1. pc = "connect" /\ pc' = "idle" /\ chain' = Append(chain, b)
    BY <2>0, <2>5 DEF ConnectEnd, Fail
  <3>2. block \in BlockType /\ chain' \in Seq(BlockType)
    BY DEF IInv, TypeOK
  <3>3. b.vtx = block.vtx
    BY <3>2 DEF BlockType
  <3> HIDE DEF b
  <3>4. /\ Len(chain') = L + 1 /\ chain'[L + 1] = b /\ \A i \in 1 .. L : chain'[i] = chain[i]
    BY <2>0, <3>1, SMT
  <3>5. \A i \in 1 .. L + 1 : i \in 1 .. L \/ i = L + 1
    BY <2>0, SMT
  <3>6. /\ \A k, l \in 1 .. Len(block.vtx) : block.vtx[k] = block.vtx[l] => k = l
        /\ \A i \in 1 .. L :
             \A k \in 1 .. Len(block.vtx), l \in 1 .. Len(chain[i].vtx) : block.vtx[k] # chain[i].vtx[l]
    BY <3>1 DEF OnceInv
  <3> HIDE DEF L
  <3>7. ASSUME NEW i \in 1 .. L + 1, NEW j \in 1 .. L + 1, NEW k \in 1 .. Len(chain'[i].vtx),
               NEW l \in 1 .. Len(chain'[j].vtx), chain'[i].vtx[k] = chain'[j].vtx[l]
        PROVE  i = j /\ k = l
    <4>1. CASE i \in 1 .. L /\ j \in 1 .. L
      <5>1. /\ i \in 1 .. Len(chain) /\ j \in 1 .. Len(chain) /\ chain[i].vtx[k] = chain[j].vtx[l]
            /\ k \in 1 .. Len(chain[i].vtx) /\ l \in 1 .. Len(chain[j].vtx)
        BY <3>4, <3>7, <4>1 DEF L
      <5> QED BY <5>1, SMT DEF OnceInv, ConfirmedOnce
    <4>2. CASE i = L + 1 /\ j = L + 1
      <5>1. /\ chain'[i].vtx = block.vtx /\ chain'[j].vtx = block.vtx
            /\ block.vtx[k] = block.vtx[l] /\ k \in 1 .. Len(block.vtx) /\ l \in 1 .. Len(block.vtx)
        BY <3>3, <3>4, <3>7, <4>2
      <5> QED BY <3>6, <4>2, <5>1
    <4>3. CASE i \in 1 .. L /\ j = L + 1
      <5>1. /\ chain'[i].vtx = chain[i].vtx /\ chain'[j].vtx = block.vtx
            /\ chain[i].vtx[k] = block.vtx[l] /\ k \in 1 .. Len(chain[i].vtx) /\ l \in 1 .. Len(block.vtx)
        BY <3>3, <3>4, <3>7, <4>3
      <5> QED BY <3>6, <4>3, <5>1
    <4>4. CASE i = L + 1 /\ j \in 1 .. L
      <5>1. /\ chain'[j].vtx = chain[j].vtx /\ chain'[i].vtx = block.vtx
            /\ chain[j].vtx[l] = block.vtx[k] /\ l \in 1 .. Len(chain[j].vtx) /\ k \in 1 .. Len(block.vtx)
        BY <3>3, <3>4, <3>7, <4>4
      <5> QED BY <3>6, <4>4, <5>1
    <4> QED BY <3>5, <4>1, <4>2, <4>3, <4>4
  <3>8. ConfirmedOnce'
    BY <3>4, <3>7 DEF ConfirmedOnce
  <3> QED BY <3>1, <3>8 DEF OnceInv
<2>6. CASE DisconnectEnd
  <3>1. chain # <<>>
    BY <2>6, UndoFacts DEF DisconnectEnd
  <3>2. /\ pc' = "idle" /\ chain' = SubSeq(chain, 1, Len(chain) - 1)
        /\ Len(chain) - 1 \in 0 .. Len(chain)
    <4>1. Len(chain) - 1 \in 0 .. Len(chain)
      BY <2>0, <3>1, SMT
    <4> QED BY <2>6, <4>1 DEF DisconnectEnd
  <3>3. Len(chain') = Len(chain) - 1 /\ \A i \in 1 .. Len(chain) - 1 : chain'[i] = chain[i]
    BY <2>0, <3>2, FrontFacts
  <3>4. \A i \in 1 .. Len(chain') : i \in 1 .. Len(chain) /\ chain'[i] = chain[i]
    BY <2>0, <3>3, SMT
  <3>5. ConfirmedOnce'
    <4>1. ConfirmedOnce
      BY DEF OnceInv
    <4> QED BY <3>4, <4>1, SMTT(30) DEF ConfirmedOnce
  <3> QED BY <3>2, <3>5 DEF OnceInv
<2>7. CASE ConnectInvalid \/ DisconnectBegin \/ DisconnectTx \/ DisconnectName
  <3>1. chain' = chain /\ pc' # "connect"
    BY <2>0, <2>7 DEF ConnectInvalid, DisconnectBegin, DisconnectTx, DisconnectName, Fail
  <3> QED BY <2>1, <3>1
<2> QED BY <2>2, <2>3, <2>4, <2>5, <2>6, <2>7 DEF Next
<1>1. Init => OnceInv
  <2>1. 1 .. Len(<<>>) = {}
    BY SMT
  <2> QED BY <2>1 DEF Init, OnceInv, ConfirmedOnce
<1>2. IInv /\ IInv' /\ OnceInv /\ [Next]_vars => OnceInv'
  BY <1>OnceStep
<1> QED BY <1>1, <1>2, InvariantHolds, PTL DEF Spec

-----------------------------------------------------------------------------
(* With -namehistory, history and data list the updates of a name.         *)

(* Transaction p[2] of block p[1] <= i of the chain c updates n.           *)
IsPlace(c, i, n, p) ==
  /\ p \in Nat \X Nat /\ p[1] \in 1 .. i /\ p[2] \in 1 .. Len(c[p[1]].vtx)
  /\ \E o \in UpdatedOuts(c[p[1]].vtx[p[2]]) : nameOp[o].name = n

UpdateAt(c, p) == [height |-> BaseHeight + p[1], out |-> UpdatedOut(c[p[1]].vtx[p[2]])]

Earlier(p, q) == p[1] < q[1] \/ (p[1] = q[1] /\ p[2] < q[2])

(* all lists the updates of n in the first i blocks of c; pl says where    *)
(* they are.                                                               *)
Lists(pl, all, c, i, n) ==
  /\ Len(pl) = Len(all)
  /\ \A k \in 1 .. Len(pl) : IsPlace(c, i, n, pl[k]) /\ all[k] = UpdateAt(c, pl[k])
  /\ \A j, k \in 1 .. Len(pl) : j < k => Earlier(pl[j], pl[k])
  /\ \A p : IsPlace(c, i, n, p) => \E k \in 1 .. Len(pl) : pl[k] = p

InOrder(all, c, i, n) == \E pl \in Seq(Nat \X Nat) : Lists(pl, all, c, i, n)

(* The history of n and its data.                                          *)
NameList(ns, n) == IF ns.data[n] = NoData THEN <<>> ELSE Append(ns.history[n], ns.data[n])

(* At every tip the chain has had, and in the view of the block that is    *)
(* being connected, all updates so far are listed.                         *)
HistInv ==
  /\ \A i \in 1 .. Len(chain) : Len(chain[i].vtx) <= MaxBlockTxs
  /\ pc = "connect" => Len(block.vtx) <= MaxBlockTxs
  /\ fNameHistory =>
       \A n \in Name :
         /\ \A i \in 0 .. Len(chain) : InOrder(NameList(After(i).names, n), chain, i, n)
         /\ pc = "connect" =>
              InOrder(NameList(view.names, n), Append(chain, block), Len(chain) + 1, n)

(* name_history tells the whole truth: with -namehistory, the history of a *)
(* name followed by its current data is the list of all its updates in the *)
(* active chain, in chain order, however many blocks were connected,       *)
(* refused and disconnected before; nothing is lost, doubled or left over  *)
(* from another branch.                                                    *)
THEOREM HistoryAlwaysMatches == Spec => []HistoryMatchesChain
(* A list stays right when the updates stay where they are.                *)
<1>SamePlaces.
  ASSUME NEW c, NEW i, NEW n, NEW d, NEW m, NEW all, InOrder(all, c, i, n),
         \A p : IsPlace(c, i, n, p) <=> IsPlace(d, m, n, p),
         \A p : IsPlace(c, i, n, p) => UpdateAt(d, p) = UpdateAt(c, p)
  PROVE  InOrder(all, d, m, n)
<2> USE <1>SamePlaces
<2>1. PICK pl \in Seq(Nat \X Nat) : Lists(pl, all, c, i, n)
  BY DEF InOrder
<2>2. Lists(pl, all, d, m, n)
  BY <2>1 DEF Lists
<2> QED BY <2>1, <2>2 DEF InOrder
(* An update at a later place is added at the end.                         *)
<1>LaterPlace.
  ASSUME NEW c, NEW i, NEW n, NEW d, NEW m, NEW S, NEW all \in Seq(S), InOrder(all, c, i, n),
         NEW q \in Nat \X Nat, UpdateAt(d, q) \in S,
         \A p : IsPlace(d, m, n, p) <=> IsPlace(c, i, n, p) \/ p = q,
         \A p : IsPlace(c, i, n, p) => Earlier(p, q) /\ UpdateAt(d, p) = UpdateAt(c, p)
  PROVE  InOrder(Append(all, UpdateAt(d, q)), d, m, n)
<2> USE <1>LaterPlace
<2> DEFINE new == Append(all, UpdateAt(d, q))
<2>1. PICK pl \in Seq(Nat \X Nat) : Lists(pl, all, c, i, n)
  BY DEF InOrder
<2> DEFINE N == Len(pl)
           pn == Append(pl, q)
<2>2. /\ Len(all) = N
      /\ \A k \in 1 .. N : IsPlace(c, i, n, pl[k]) /\ all[k] = UpdateAt(c, pl[k])
      /\ \A j, k \in 1 .. N : j < k => Earlier(pl[j], pl[k])
      /\ \A p : IsPlace(c, i, n, p) => \E k \in 1 .. N : pl[k] = p
  BY <2>1 DEF Lists
<2>3. /\ pn \in Seq(Nat \X Nat) /\ N \in Nat /\ Len(pn) = N + 1 /\ pn[N + 1] = q
      /\ \A k \in 1 .. N : pn[k] = pl[k]
  BY AppendFacts, SMT
<2>4. /\ Len(new) = N + 1 /\ new[N + 1] = UpdateAt(d, q)
      /\ \A k \in 1 .. N : new[k] = all[k]
  <3>1. /\ Len(new) = Len(all) + 1 /\ new[Len(all) + 1] = UpdateAt(d, q)
        /\ \A k \in 1 .. Len(all) : new[k] = all[k]
    <4>1. IsAppended(new, all, UpdateAt(d, q))
      BY AppendedFacts
    <4> HIDE DEF new
    <4> QED BY <4>1 DEF IsAppended
  <3> HIDE DEF new, N
  <3> QED BY <2>2, <3>1
<2> HIDE DEF new, pn, N
<2>5. \A k \in 1 .. N + 1 : k \in 1 .. N \/ k = N + 1
  BY <2>3, SMT
<2>6. N + 1 \in 1 .. N + 1 /\ \A k \in 1 .. N : k \in 1 .. N + 1 /\ ~(N + 1 < k)
  BY <2>3, SMT
<2>7. ASSUME NEW k \in 1 .. N + 1
      PROVE  IsPlace(d, m, n, pn[k]) /\ new[k] = UpdateAt(d, pn[k])
  <3>1. CASE k \in 1 .. N
    <4>1. pn[k] = pl[k] /\ new[k] = all[k]
      BY <2>3, <2>4, <3>1
    <4>2. IsPlace(c, i, n, pl[k]) /\ all[k] = UpdateAt(c, pl[k])
      BY <2>2, <3>1
    <4> QED BY <4>1, <4>2
  <3>2. CASE k = N + 1
    BY <2>3, <2>4, <3>2
  <3> QED BY <2>5, <3>1, <3>2
<2>8. ASSUME NEW j \in 1 .. N + 1, NEW k \in 1 .. N + 1, j < k PROVE Earlier(pn[j], pn[k])
  <3>1. j \in 1 .. N
    BY <2>3, <2>8, SMT
  <3>2. CASE k \in 1 .. N
    BY <2>2, <2>3, <2>8, <3>1, <3>2
  <3>3. CASE k = N + 1
    BY <2>2, <2>3, <3>1, <3>3
  <3> QED BY <2>5, <3>2, <3>3
<2>9. ASSUME NEW p, IsPlace(d, m, n, p) PROVE \E k \in 1 .. N + 1 : pn[k] = p
  BY <2>2, <2>3, <2>6, <2>9
<2>10. Lists(pn, new, d, m, n)
  BY <2>3, <2>4, <2>7, <2>8, <2>9 DEF Lists
<2> QED BY <2>3, <2>10 DEF InOrder, new
(* SetName adds to the list of its name, and to no other.                  *)
<1>SetNameList.
  ASSUME fNameHistory, NEW ns \in NamesType, NEW h, HistoryOK(ns, h), NEW n \in Name, NEW m \in Name,
         NEW d \in NameData
  PROVE  /\ NameList(ns, n) \in Seq(NameData)
         /\ n = m => NameList(SetName(ns, m, d), n) = Append(NameList(ns, n), d)
         /\ n # m => NameList(SetName(ns, m, d), n) = NameList(ns, n)
<2> USE <1>SetNameList
<2> DEFINE new == SetName(ns, m, d)
<2>1. /\ ns.history[n] \in Seq(NameData) /\ (ns.data[n] # NoData => ns.data[n] \in NameData)
      /\ d # NoData
  BY CatalogueAssumption DEF NamesType
<2>2. NameList(ns, n) \in Seq(NameData)
  BY <2>1, SMT DEF NameList
<2>3. new.data[n] = IF n = m THEN d ELSE ns.data[n]
  BY DEF SetName, NamesType
<2>4. CASE n # m
  <3>1. new.history[n] = ns.history[n]
    BY <2>4 DEF SetName, NamesType
  <3> HIDE DEF new
  <3>2. NameList(new, n) = NameList(ns, n)
    BY <2>3, <2>4, <3>1 DEF NameList
  <3> QED BY <2>2, <2>4, <3>2 DEF new
<2>5. CASE n = m
  <3>1. new.history[n] = IF ns.data[n] = NoData THEN <<>> ELSE Append(ns.history[n], ns.data[n])
    BY <2>5 DEF SetName, NamesType, HistoryOK
  <3> HIDE DEF new
  <3>2. NameList(new, n) = Append(NameList(ns, n), d)
    BY <2>1, <2>3, <2>5, <3>1 DEF NameList
  <3> QED BY <2>2, <2>5, <3>2 DEF new
<2> QED BY <2>4, <2>5
(* The list stays right from one chain to another with the same blocks.    *)
<1>SameBlocks.
  ASSUME NEW c, NEW d, NEW i \in Nat, NEW n, NEW all, InOrder(all, c, i, n),
         \A j \in 1 .. i : d[j].vtx = c[j].vtx
  PROVE  InOrder(all, d, i, n)
<2> USE <1>SameBlocks
<2>1. \A p : IsPlace(c, i, n, p) <=> IsPlace(d, i, n, p)
  BY DEF IsPlace
<2>2. \A p : IsPlace(c, i, n, p) => UpdateAt(d, p) = UpdateAt(c, p)
  BY DEF IsPlace, UpdateAt
<2> QED BY <2>1, <2>2, <1>SamePlaces
(* An empty block has no update.                                           *)
<1>EmptyBlockAdded.
  ASSUME NEW c, NEW d, NEW i \in Nat, NEW n, NEW all, InOrder(all, c, i, n),
         \A j \in 1 .. i : d[j].vtx = c[j].vtx, d[i + 1].vtx = <<>>
  PROVE  InOrder(all, d, i + 1, n)
<2> USE <1>EmptyBlockAdded
<2>1. 1 .. Len(d[i + 1].vtx) = {} /\ \A j \in 1 .. i + 1 : j \in 1 .. i \/ j = i + 1
  BY SMT
<2>2. \A j \in 1 .. i : j \in 1 .. i + 1
  BY SMT
<2>3. \A p : IsPlace(c, i, n, p) <=> IsPlace(d, i + 1, n, p)
  BY <2>1, <2>2 DEF IsPlace
<2>4. \A p : IsPlace(c, i, n, p) => UpdateAt(d, p) = UpdateAt(c, p)
  BY DEF IsPlace, UpdateAt
<2> QED BY <2>3, <2>4, <1>SamePlaces
(* What ConnectTx adds to the last block is in the view's list.            *)
<1>TxAdded.
  ASSUME fNameHistory, NEW c, NEW d, NEW i \in Nat, NEW n \in Name, NEW ns \in NamesType,
         HistoryOK(ns, BaseHeight + i), BaseHeight + i \in 1 .. MaxHeight, i >= 1,
         InOrder(NameList(ns, n), c, i, n),
         NEW t \in Tx, AtMostOne(NameOuts(t)),
         \A j \in 1 .. i : j # i => d[j].vtx = c[j].vtx,
         c[i].vtx \in Seq(Tx), d[i].vtx = Append(c[i].vtx, t)
  PROVE  InOrder(NameList(ApplyNameTransaction(ns, t, BaseHeight + i), n), d, i, n)
<2> USE <1>TxAdded
<2>1. PICK N \in Nat : N = Len(c[i].vtx)
  BY SMT
<2>2. /\ Len(d[i].vtx) = N + 1 /\ d[i].vtx[N + 1] = t
      /\ \A k \in 1 .. N : d[i].vtx[k] = c[i].vtx[k]
  BY <2>1, AppendFacts, SMT
<2> DEFINE q == <<i, N + 1>>
           Adds == \E o \in UpdatedOuts(t) : nameOp[o].name = n
<2>3. q \in Nat \X Nat /\ q[1] = i /\ q[2] = N + 1
  BY SMT
<2>4. ASSUME NEW p PROVE IsPlace(d, i, n, p) <=> IsPlace(c, i, n, p) \/ (p = q /\ Adds)
  <3>1. CASE p \in Nat \X Nat /\ p[1] \in 1 .. i
    <4>1. PICK a \in 1 .. i, b \in Nat : p = <<a, b>> /\ p[1] = a /\ p[2] = b
      BY <3>1, SMT
    <4>2. p = q <=> a = i /\ b = N + 1
      BY <4>1
    <4>3. CASE a # i
      BY <3>1, <4>1, <4>2, <4>3 DEF IsPlace
    <4>4. CASE a = i
      <5>1. b \in 1 .. N + 1 <=> b \in 1 .. N \/ b = N + 1
        BY SMT
      <5> HIDE DEF q
      <5> QED BY <2>1, <2>2, <3>1, <4>1, <4>2, <4>4, <5>1 DEF IsPlace
    <4> QED BY <4>3, <4>4
  <3>2. CASE ~(p \in Nat \X Nat /\ p[1] \in 1 .. i)
    <4>1. q[1] \in 1 .. i
      BY SMT
    <4> QED BY <2>3, <3>2, <4>1 DEF IsPlace
  <3> QED BY <3>1, <3>2
<2>5. ASSUME NEW p, IsPlace(c, i, n, p) PROVE Earlier(p, q) /\ UpdateAt(d, p) = UpdateAt(c, p)
  <3>1. p[1] \in 1 .. i /\ p[2] \in 1 .. Len(c[p[1]].vtx)
    BY <2>5 DEF IsPlace
  <3>2. CASE p[1] = i
    <4>1. p[2] \in 1 .. N /\ p[2] < N + 1
      BY <2>1, <3>1, <3>2, SMT
    <4> QED BY <2>2, <2>3, <3>2, <4>1 DEF Earlier, UpdateAt
  <3>3. CASE p[1] # i
    <4>1. p[1] < i
      BY <3>1, <3>3, SMT
    <4> QED BY <2>3, <3>1, <3>3, <4>1 DEF Earlier, UpdateAt
  <3> QED BY <3>2, <3>3
<2> DEFINE out == UpdatedOut(t)
           data == [height |-> BaseHeight + i, out |-> out]
           new == ApplyNameTransaction(ns, t, BaseHeight + i)
<2>6. UpdateAt(d, q) = data
  BY <2>2, <2>3 DEF UpdateAt
<2>7. ASSUME UpdatedOuts(t) # {}
      PROVE  /\ out \in UpdatedOuts(t) /\ \A o \in UpdatedOuts(t) : o = out
             /\ data \in NameData /\ nameOp[out].name \in Name
             /\ new = SetName(ns, nameOp[out].name, data)
  <3>1. out \in UpdatedOuts(t)
    BY <2>7 DEF UpdatedOut
  <3>2. UpdatedOuts(t) \subseteq NameOuts(t)
    BY DEF UpdatedOuts, NameOuts, isAnyUpdate, isNameOp
  <3>3. data \in NameData /\ nameOp[out].name \in Name
    BY <3>1, CatalogueAssumption DEF UpdatedOuts, NameData, NameScript
  <3>4. new = SetName(ns, nameOp[out].name, data)
    BY <2>7 DEF ApplyNameTransaction
  <3> HIDE DEF out
  <3> QED BY <3>1, <3>2, <3>3, <3>4 DEF AtMostOne
<2> HIDE DEF q, out, data, new
<2>8. CASE Adds
  <3>1. UpdatedOuts(t) # {} /\ nameOp[out].name = n
    BY <2>7, <2>8
  <3>2. NameList(ns, n) \in Seq(NameData) /\ NameList(new, n) = Append(NameList(ns, n), data)
    <4>1. data \in NameData /\ new = SetName(ns, n, data)
      BY <2>7, <3>1
    <4>2. /\ NameList(ns, n) \in Seq(NameData)
          /\ NameList(SetName(ns, n, data), n) = Append(NameList(ns, n), data)
      BY <4>1, <1>SetNameList
    <4> QED BY <4>1, <4>2
  <3>3. \A p : IsPlace(d, i, n, p) <=> IsPlace(c, i, n, p) \/ p = q
    BY <2>4, <2>8
  <3>4. InOrder(Append(NameList(ns, n), UpdateAt(d, q)), d, i, n)
    <4>1. NameList(ns, n) \in Seq(NameData) /\ UpdateAt(d, q) \in NameData /\ q \in Nat \X Nat
      BY <2>3, <2>6, <2>7, <3>1, <3>2
    <4>2. \A p : IsPlace(c, i, n, p) => Earlier(p, q) /\ UpdateAt(d, p) = UpdateAt(c, p)
      BY <2>5
    <4> QED BY <3>3, <4>1, <4>2, <1>LaterPlace
  <3> QED BY <2>6, <3>2, <3>4 DEF new
<2>9. CASE ~Adds
  <3>1. NameList(new, n) = NameList(ns, n)
    <4>1. CASE UpdatedOuts(t) = {}
      BY <4>1 DEF ApplyNameTransaction, new
    <4>2. CASE UpdatedOuts(t) # {}
      <5>1. nameOp[out].name # n /\ new = SetName(ns, nameOp[out].name, data)
        BY <2>7, <2>9, <4>2
      <5>2. data \in NameData /\ nameOp[out].name \in Name
        BY <2>7, <4>2
      <5> HIDE DEF Adds
      <5> QED BY <5>1, <5>2, <1>SetNameList
    <4> QED BY <4>1, <4>2
  <3>2. \A p : IsPlace(c, i, n, p) <=> IsPlace(d, i, n, p)
    BY <2>4, <2>9
  <3>3. InOrder(NameList(ns, n), d, i, n)
    BY <2>5, <3>2, <1>SamePlaces
  <3> QED BY <3>1, <3>3 DEF new
<2> QED BY <2>8, <2>9
(* A step of the chain keeps the lists right.                              *)
<1>HistStep.
  ASSUME IInv, IInv', HistInv, [Next]_vars
  PROVE  HistInv'
<2> USE <1>HistStep
<2>0. PICK L \in Nat : L = Len(chain)
  BY IInvFacts
<2>1. /\ chain \in Seq(BlockType) /\ ~failed /\ ~failed' /\ MaxBlockTxs \in Nat
      /\ block \in BlockType /\ block.vtx \in Seq(Tx)
  BY BaseAssumption DEF IInv, TypeOK, BlockType
<2> DEFINE Small == \A i \in 1 .. Len(chain) : Len(chain[i].vtx) <= MaxBlockTxs
           All(n) == \A i \in 0 .. Len(chain) : InOrder(NameList(After(i).names, n), chain, i, n)
           Now(n) == InOrder(NameList(view.names, n), Append(chain, block), Len(chain) + 1, n)
<2>2. /\ Small /\ (pc = "connect" => Len(block.vtx) <= MaxBlockTxs)
      /\ fNameHistory => \A n \in Name : All(n) /\ (pc = "connect" => Now(n))
  BY DEF HistInv
<2>3. ASSUME Small', pc' = "connect" => Len(block'.vtx) <= MaxBlockTxs,
             \A n \in Name : fNameHistory => All(n)' /\ (pc' = "connect" => Now(n)')
      PROVE  HistInv'
  BY <2>3 DEF HistInv
<2>4. ASSUME chain' = chain, tip' = tip PROVE Small' /\ \A n \in Name : fNameHistory => All(n)'
  BY <2>2, <2>4 DEF After
<2>5. ASSUME chain' = chain, tip' = tip, pc' # "connect" PROVE HistInv'
  <3> HIDE DEF Small, All, Now
  <3> QED BY <2>3, <2>4, <2>5
<2>6. CASE UNCHANGED vars
  <3>1. chain' = chain /\ tip' = tip /\ block' = block /\ view' = view /\ pc' = pc
    BY <2>6 DEF vars
  <3>2. \A n \in Name : fNameHistory => (pc' = "connect" => Now(n)')
    BY <2>2, <3>1
  <3> HIDE DEF Small, All, Now
  <3> QED BY <2>2, <2>3, <2>4, <3>1, <3>2
<2>7. CASE ConnectBegin
  <3>1. chain' = chain /\ tip' = tip /\ view' = tip /\ block' = StartedBlock(tip)
    BY <2>7 DEF ConnectBegin
  <3>2. block'.vtx = <<>> /\ block' \in BlockType
    BY <3>1 DEF StartedBlock, IInv, TypeOK
  <3>3. Len(block'.vtx) <= MaxBlockTxs
    BY <2>1, <3>2, SMT
  <3>4. ASSUME NEW n \in Name, fNameHistory PROVE Now(n)'
    <4>1. InOrder(NameList(tip.names, n), chain, L, n)
      <5>1. L \in 0 .. Len(chain) /\ After(L) = tip
        BY <2>0, SMT DEF After
      <5> QED BY <2>2, <3>4, <5>1
    <4> DEFINE d == Append(chain, block')
    <4>2. d[L + 1] = block' /\ \A j \in 1 .. L : d[j] = chain[j]
      BY <2>0, <2>1, <3>2, AppendFacts, SMT
    <4> HIDE DEF d
    <4>3. InOrder(NameList(tip.names, n), d, L + 1, n)
      BY <3>2, <4>1, <4>2, <1>EmptyBlockAdded
    <4> QED BY <2>0, <3>1, <4>3 DEF d
  <3> HIDE DEF Small, All, Now
  <3> QED BY <2>3, <2>4, <3>1, <3>3, <3>4
<2>8. ASSUME NEW t \in Tx, ConnectTx(t) PROVE HistInv'
  <3>1. /\ pc = "connect" /\ CheckNameTransaction(view, t, Height + 1, FALSE)
        /\ view' = [coins |-> UpdateCoins(view.coins, t, Height + 1),
                    names |-> ApplyNameTransaction(view.names, t, Height + 1)]
        /\ block' = WithTx(block, view, t, Height + 1) /\ chain' = chain /\ tip' = tip
        /\ Len(block.vtx) < MaxBlockTxs
    BY <2>1, <2>8 DEF ConnectTx, Fail
  <3>2. block'.vtx = Append(block.vtx, t) /\ block' \in BlockType
    <4>1. WithTx(block, view, t, Height + 1).vtx = Append(block.vtx, t)
      BY DEF WithTx
    <4> QED BY <3>1, <4>1 DEF IInv, TypeOK
  <3>3. Len(block'.vtx) <= MaxBlockTxs
    BY <2>1, <3>1, <3>2, SMT
  <3>4. /\ HistoryOK(view.names, Height + 1) /\ view.names \in NamesType
        /\ Height + 1 = BaseHeight + (L + 1) /\ Height + 1 \in 1 .. MaxHeight
    <4>1. DBOK(view, Connected(Len(chain)) \cup TxsOf(block), Height, Height + 1) /\ view \in DBType
      BY <3>1 DEF IInv, TypeOK
    <4>2. Height < MaxHeight /\ Height \in Nat /\ Height = BaseHeight + L /\ BaseHeight \in Nat
      BY <2>0, <3>1, IInvFacts DEF IInv
    <4> QED BY <4>1, <4>2, ParamsAssumption, SMT DEF DBOK, DBType
  <3>5. ASSUME NEW n \in Name, fNameHistory PROVE Now(n)'
    <4> DEFINE c == Append(chain, block)
               d == Append(chain, block')
    <4>1. InOrder(NameList(view.names, n), c, L + 1, n)
      BY <2>0, <2>2, <3>1, <3>5
    <4>2. c[L + 1] = block /\ d[L + 1] = block' /\ \A j \in 1 .. L : c[j] = chain[j] /\ d[j] = chain[j]
      BY <2>0, <2>1, <3>2, AppendFacts, SMT
    <4> HIDE DEF c, d
    <4>3. /\ \A j \in 1 .. L + 1 : j # L + 1 => d[j].vtx = c[j].vtx
          /\ c[L + 1].vtx \in Seq(Tx) /\ d[L + 1].vtx = Append(c[L + 1].vtx, t)
          /\ L + 1 \in Nat /\ L + 1 >= 1
      BY <2>1, <3>2, <4>2, SMT
    <4>4. AtMostOne(NameOuts(t))
      BY <3>1 DEF CheckNameTransaction
    <4>5. InOrder(NameList(ApplyNameTransaction(view.names, t, BaseHeight + (L + 1)), n), d, L + 1, n)
      BY <3>4, <3>5, <4>1, <4>3, <4>4, <1>TxAdded
    <4>6. view'.names = ApplyNameTransaction(view.names, t, BaseHeight + (L + 1))
      BY <3>1, <3>4
    <4>7. InOrder(NameList(view'.names, n), d, L + 1, n)
      BY <4>5, <4>6
    <4> QED BY <2>0, <3>1, <4>7 DEF d
  <3> HIDE DEF Small, All, Now
  <3> QED BY <2>3, <2>4, <3>1, <3>3, <3>5
<2>9. CASE ConnectEnd
  <3> DEFINE b == [block EXCEPT !.vexpired = ExpireUndo(view, Height + 2)]
             c == Append(chain, block)
  <3>1. /\ pc = "connect" /\ pc' = "idle" /\ chain' = Append(chain, b)
        /\ tip' = [coins |-> ExpireCoins(view, Height + 2), names |-> view.names]
    BY <2>1, <2>9 DEF ConnectEnd, Fail
  <3>2. b.vtx = block.vtx /\ Before(b) = Before(block)
    BY <2>1 DEF BlockType, Before
  <3>3. Before(block) = tip /\ tip'.names = view.names /\ chain' \in Seq(BlockType)
    BY <3>1 DEF IInv, TypeOK
  <3> HIDE DEF b
  <3>4. /\ Len(chain') = L + 1 /\ chain'[L + 1] = b /\ \A j \in 1 .. L : chain'[j] = chain[j]
    BY <2>0, <2>1, <3>1, <3>3, SMT
  <3>5. \A j \in 1 .. L + 1 : j \in 1 .. L \/ j = L + 1
    BY SMT
  <3>6. Small'
    BY <2>0, <2>2, <3>1, <3>2, <3>4, <3>5
  <3>7. ASSUME NEW n \in Name, fNameHistory PROVE All(n)'
    <4>1. ASSUME NEW i \in 0 .. L PROVE InOrder(NameList(After(i)'.names, n), chain', i, n)
      <5>1. InOrder(NameList(After(i).names, n), chain, i, n)
        BY <2>0, <2>2, <3>7
      <5>2. After(i)' = After(i)
        <6>1. i # L + 1
          BY SMT
        <6>2. After(i)' = Before(chain'[i + 1])
          BY <3>4, <6>1 DEF After, Before
        <6>3. CASE i = L
          BY <2>0, <3>2, <3>3, <3>4, <6>2, <6>3 DEF After
        <6>4. CASE i # L
          <7>1. i + 1 \in 1 .. L
            BY <6>4, SMT
          <7> QED BY <2>0, <3>4, <6>2, <6>4, <7>1 DEF After
        <6> QED BY <6>3, <6>4
      <5>3. i \in Nat /\ \A j \in 1 .. i : chain'[j].vtx = chain[j].vtx
        BY <3>4, SMT
      <5>4. InOrder(NameList(After(i).names, n), chain', i, n)
        BY <5>1, <5>3, <1>SameBlocks
      <5> QED BY <5>2, <5>4
    <4>2. InOrder(NameList(After(L + 1)'.names, n), chain', L + 1, n)
      <5>1. After(L + 1)' = tip'
        BY <3>4 DEF After
      <5>2. InOrder(NameList(view.names, n), c, L + 1, n)
        BY <2>0, <2>2, <3>1, <3>7
      <5>3. c[L + 1] = block /\ \A j \in 1 .. L : c[j] = chain[j]
        BY <2>0, <2>1, AppendFacts, SMT
      <5> HIDE DEF c
      <5>4. \A j \in 1 .. L + 1 : chain'[j].vtx = c[j].vtx
        BY <3>2, <3>4, <3>5, <5>3
      <5>5. InOrder(NameList(view.names, n), chain', L + 1, n)
        BY <5>2, <5>4, <1>SameBlocks, SMT
      <5> QED BY <3>3, <5>1, <5>5
    <4>3. \A i \in 0 .. L + 1 : i \in 0 .. L \/ i = L + 1
      BY SMT
    <4> QED BY <3>4, <4>1, <4>2, <4>3
  <3> HIDE DEF Small, All, Now
  <3> QED BY <2>3, <3>1, <3>6, <3>7
<2>10. CASE DisconnectEnd
  <3>1. /\ block.vtx = <<>> /\ block.vnameundo = <<>> /\ tip' = view
        /\ chain' = SubSeq(chain, 1, L - 1) /\ chain # <<>> /\ pc' # "connect" /\ view = Before(chain[L])
    BY <2>0, <2>10, UndoFacts, UndoneIsBefore DEF DisconnectEnd
  <3>2. L >= 1 /\ L - 1 \in 0 .. Len(chain) /\ L - 1 \in Nat
    BY <2>0, <2>1, <3>1, SMT
  <3>3. Len(chain') = L - 1 /\ \A j \in 1 .. L - 1 : chain'[j] = chain[j]
    BY <2>1, <3>1, <3>2, FrontFacts
  <3>4. Small'
    <4>1. \A j \in 1 .. L - 1 : j \in 1 .. L
      BY <3>2, SMT
    <4> QED BY <2>0, <2>2, <3>3, <4>1
  <3>5. ASSUME NEW n \in Name, fNameHistory PROVE All(n)'
    <4>1. ASSUME NEW i \in 0 .. L - 1 PROVE InOrder(NameList(After(i)'.names, n), chain', i, n)
      <5>1. i \in 0 .. L /\ i # L /\ i \in Nat /\ i + 1 \in 1 .. L
        BY <3>2, SMT
      <5>2. InOrder(NameList(After(i).names, n), chain, i, n)
        BY <2>0, <2>2, <3>5, <5>1
      <5>3. After(i)' = After(i)
        <6>1. After(i) = Before(chain[i + 1])
          BY <2>0, <5>1 DEF After
        <6>2. CASE i = L - 1
          <7>1. i + 1 = L
            BY <3>2, <6>2, SMT
          <7> QED BY <3>1, <3>3, <6>1, <6>2, <7>1 DEF After
        <6>3. CASE i # L - 1
          <7>1. i + 1 \in 1 .. L - 1
            BY <5>1, <6>3, SMT
          <7>2. After(i)' = Before(chain'[i + 1])
            BY <3>3, <6>3 DEF After, Before
          <7> QED BY <3>3, <6>1, <7>1, <7>2
        <6> QED BY <6>2, <6>3
      <5>4. \A j \in 1 .. i : chain'[j].vtx = chain[j].vtx
        BY <3>3, <5>1, SMT
      <5>5. InOrder(NameList(After(i).names, n), chain', i, n)
        BY <5>1, <5>2, <5>4, <1>SameBlocks
      <5> QED BY <5>3, <5>5
    <4> QED BY <3>3, <4>1
  <3> HIDE DEF Small, All, Now
  <3> QED BY <2>3, <3>1, <3>4, <3>5
<2>11. CASE ConnectInvalid \/ DisconnectBegin \/ DisconnectTx \/ DisconnectName
  <3>1. chain' = chain /\ tip' = tip /\ pc' # "connect"
    BY <2>1, <2>11 DEF ConnectInvalid, DisconnectBegin, DisconnectTx, DisconnectName, Fail
  <3> QED BY <2>5, <3>1
<2> QED BY <2>6, <2>7, <2>8, <2>9, <2>10, <2>11 DEF Next
(* The lists are right in every state: for each tip the chain has had, and *)
(* while a block is connected.                                             *)
<1>HistInvHolds. Spec => []HistInv
<2>1. Init => HistInv
  <3> SUFFICES ASSUME Init PROVE HistInv
    OBVIOUS
  <3>1. chain = <<>> /\ tip.names = EmptyNames /\ pc = "idle"
    BY DEF Init
  <3>2. Len(chain) = 0 /\ 1 .. Len(chain) = {} /\ \A i \in 0 .. Len(chain) : i = 0
    BY <3>1, SMT
  <3>3. ASSUME NEW n \in Name PROVE InOrder(NameList(After(0).names, n), chain, 0, n)
    <4>1. NameList(After(0).names, n) = <<>>
      <5>1. After(0) = tip
        BY <3>2 DEF After
      <5> QED BY <3>1, <5>1, SMT DEF NameList, EmptyNames
    <4>2. \A p : ~IsPlace(chain, 0, n, p)
      BY SMT DEF IsPlace
    <4>3. <<>> \in Seq(Nat \X Nat) /\ 1 .. Len(<<>>) = {}
      BY SMT
    <4>4. Lists(<<>>, <<>>, chain, 0, n)
      BY <4>2, <4>3 DEF Lists
    <4> QED BY <4>1, <4>3, <4>4 DEF InOrder
  <3>4. \A n \in Name : \A i \in 0 .. Len(chain) : InOrder(NameList(After(i).names, n), chain, i, n)
    BY <3>2, <3>3
  <3> QED BY <3>1, <3>2, <3>4 DEF HistInv
<2>2. IInv /\ IInv' /\ HistInv /\ [Next]_vars => HistInv'
  BY <1>HistStep
<2> QED BY <2>1, <2>2, InvariantHolds, PTL DEF Spec
<1>1. IInv /\ HistInv => HistoryMatchesChain
  <2> SUFFICES ASSUME IInv, HistInv, fNameHistory, NEW n \in Name
               PROVE  LET data == GetName(tip.names, n)
                          all == IF data = NoData THEN <<>> ELSE Append(tip.names.history[n], data)
                          Sooner(a, b) == a[1] < b[1] \/ (a[1] = b[1] /\ a[2] < b[2])
                      IN \E at \in [1 .. Len(all) -> ChainUpdates(n)] :
                           /\ \A p \in ChainUpdates(n) : \E k \in 1 .. Len(all) : at[k] = p
                           /\ \A j, k \in 1 .. Len(all) : j < k => Sooner(at[j], at[k])
                           /\ \A k \in 1 .. Len(all) :
                                all[k] = [height |-> BaseHeight + at[k][1],
                                          out |-> UpdatedOut(chain[at[k][1]].vtx[at[k][2]])]
    BY DEF HistoryMatchesChain
  <2>1. PICK L \in Nat : L = Len(chain)
    BY IInvFacts
  <2>2. InOrder(NameList(tip.names, n), chain, L, n)
    <3>1. L \in 0 .. Len(chain) /\ After(L) = tip
      BY <2>1, SMT DEF After
    <3> QED BY <3>1 DEF HistInv
  <2>3. ASSUME NEW p PROVE p \in ChainUpdates(n) <=> IsPlace(chain, L, n, p)
    <3>1. \A i \in 1 .. L : Len(chain[i].vtx) <= MaxBlockTxs /\ Len(chain[i].vtx) \in Nat
      <4>1. ASSUME NEW i \in 1 .. L PROVE chain[i].vtx \in Seq(Tx)
        BY <2>1, IInvFacts DEF BlockType
      <4> QED BY <2>1, <4>1, SMT DEF HistInv
    <3>2. MaxBlockTxs \in Nat
      BY BaseAssumption
    <3>3. ASSUME p \in ChainUpdates(n) PROVE IsPlace(chain, L, n, p)
      BY <2>1, <3>1, <3>2, <3>3, SMT DEF ChainUpdates, IsPlace
    <3>4. ASSUME IsPlace(chain, L, n, p) PROVE p \in ChainUpdates(n)
      BY <2>1, <3>1, <3>2, <3>4, SMT DEF ChainUpdates, IsPlace
    <3> QED BY <3>3, <3>4
  <2> DEFINE U == ChainUpdates(n)
             all == NameList(tip.names, n)
             I == 1 .. Len(all)
  <2>4. PICK pl \in Seq(Nat \X Nat) : Lists(pl, all, chain, L, n)
    BY <2>2 DEF InOrder
  <2> HIDE DEF all, U
  <2> DEFINE at == [k \in I |-> pl[k]]
  <2>5. /\ 1 .. Len(pl) = I
        /\ \A k \in I : pl[k] \in U /\ all[k] = UpdateAt(chain, pl[k])
        /\ \A j, k \in I : j < k => Earlier(pl[j], pl[k])
        /\ \A p \in U : \E k \in I : pl[k] = p
    BY <2>3, <2>4 DEF Lists, U
  <2> HIDE DEF I
  <2>6. /\ at \in [I -> U]
        /\ \A p \in U : \E k \in I : at[k] = p
        /\ \A j, k \in I : j < k => Earlier(at[j], at[k])
        /\ \A k \in I : all[k] = UpdateAt(chain, at[k])
    BY <2>5
  <2> HIDE DEF at
  <2> QED BY <2>6 DEF I, U, all, NameList, GetName, UpdateAt, Earlier
<1> QED BY <1>1, InvariantHolds, <1>HistInvHolds, PTL
=============================================================================
