----------------------------- MODULE NameChain ------------------------------
(***************************************************************************)
(* The active chain and its name database: ConnectTip and DisconnectTip    *)
(* with the name parts of ConnectBlock and DisconnectBlock.  A block is    *)
(* applied to a view on top of the tip, one loop iteration of the code per *)
(* step, and flushed into the tip when it is complete; a block that turns  *)
(* out to be invalid is dropped with its view.  A reorganisation is some   *)
(* DisconnectTips followed by ConnectTips.                                 *)
(***************************************************************************)
EXTENDS NameDB, FiniteSets

CONSTANTS BaseHeight,      \* height of the first tip
          BaseCoins,       \* the coins it has, none of them a name's
          MaxBlockTxs      \* bound: transactions of a block

ASSUME BaseAssumption ==
  /\ BaseHeight \in Nat \ {0} /\ BaseHeight <= MaxHeight
  /\ BaseCoins \subseteq OutPoint
  /\ \A t \in Tx : vout[t] \cap BaseCoins = {}
  /\ \A o \in BaseCoins : ~isAnyUpdate(o)
  /\ MaxBlockTxs \in Nat

VARIABLES
  tip,       \* CoinsTip(): [coins, names]
  view,      \* the cache a block is applied to
  chain,     \* the connected blocks above BaseHeight, with their undo data
  block,     \* the block being connected or disconnected
  pc,        \* where ConnectTip or DisconnectTip is
  failed     \* an assertion or a system error stopped the node

vars == <<tip, view, chain, block, pc, failed>>

Height == BaseHeight + Len(chain)

EmptyNames ==
  [data |-> [n \in Name |-> NoData], history |-> [n \in Name |-> <<>>], expireIndex |-> {}]

(* A block and its CBlockUndo.  coinsLog and namesLog are history          *)
(* variables: the coins before each transaction (and before expiration)    *)
(* and the name database before each name operation (and after the last).  *)
EmptyBlock ==
  [vtx |-> <<>>, vtxundo |-> <<>>, vnameundo |-> <<>>, vexpired |-> {},
   coinsLog |-> <<>>, namesLog |-> <<>>]

StartedBlock(db) ==
  [vtx |-> <<>>, vtxundo |-> <<>>, vnameundo |-> <<>>, vexpired |-> {},
   coinsLog |-> <<db.coins>>, namesLog |-> <<db.names>>]

WithTx(b, db, t, nHeight) ==
  LET renamed == UpdatedOuts(t) # {}
  IN [vtx |-> Append(b.vtx, t),
      vtxundo |-> Append(b.vtxundo, TxUndo(db.coins, t)),
      vnameundo |-> IF renamed THEN Append(b.vnameundo, NameTxUndo(db.names, t))
                               ELSE b.vnameundo,
      vexpired |-> b.vexpired,
      coinsLog |-> Append(b.coinsLog, UpdateCoins(db.coins, t, nHeight)),
      namesLog |-> IF renamed THEN Append(b.namesLog, ApplyNameTransaction(db.names, t, nHeight))
                              ELSE b.namesLog]

WithoutLastTx(b) ==
  LET k == Len(b.vtx)
  IN [vtx |-> SubSeq(b.vtx, 1, k - 1), vtxundo |-> SubSeq(b.vtxundo, 1, k - 1),
      vnameundo |-> b.vnameundo, vexpired |-> b.vexpired,
      coinsLog |-> SubSeq(b.coinsLog, 1, k), namesLog |-> b.namesLog]

WithoutLastName(b) ==
  LET k == Len(b.vnameundo)
  IN [vtx |-> b.vtx, vtxundo |-> b.vtxundo,
      vnameundo |-> SubSeq(b.vnameundo, 1, k - 1), vexpired |-> b.vexpired,
      coinsLog |-> b.coinsLog, namesLog |-> SubSeq(b.namesLog, 1, k)]

Init ==
  /\ tip = [coins |-> [o \in OutPoint |-> IF o \in BaseCoins THEN BaseHeight ELSE Spent],
            names |-> EmptyNames]
  /\ view = tip
  /\ chain = <<>>
  /\ block = EmptyBlock
  /\ pc = "idle"
  /\ failed = FALSE

Fail == /\ failed' = TRUE
        /\ UNCHANGED <<tip, view, chain, block, pc>>

-----------------------------------------------------------------------------
(* ConnectTip.                                                             *)

ConnectBegin ==
  /\ pc = "idle" /\ ~failed
  /\ Height < MaxHeight
  /\ view' = tip
  /\ block' = StartedBlock(tip)
  /\ pc' = "connect"
  /\ UNCHANGED <<tip, chain, failed>>

(* One iteration of ConnectBlock's loop: UpdateCoins and                   *)
(* ApplyNameTransaction, once CheckTxInputs accepted the transaction.      *)
ConnectTx(t) ==
  /\ pc = "connect" /\ ~failed
  /\ Len(block.vtx) < MaxBlockTxs
  /\ CheckNameTransaction(view, t, Height + 1, FALSE)
  /\ IF CheckNameAsserts(view, t, FALSE) /\ ApplyNameAsserts(view.names, t)
     THEN /\ view' = [coins |-> UpdateCoins(view.coins, t, Height + 1),
                      names |-> ApplyNameTransaction(view.names, t, Height + 1)]
          /\ block' = WithTx(block, view, t, Height + 1)
          /\ UNCHANGED <<tip, chain, pc, failed>>
     ELSE Fail

(* ConnectBlock refused the block and its view is reset: CheckTxInputs     *)
(* refused the next transaction, or a check that does not concern names    *)
(* did (scripts, locks, sigops, reward).  fJustCheck also ends here.       *)
ConnectInvalid ==
  /\ pc = "connect" /\ ~failed
  /\ view' = tip
  /\ block' = EmptyBlock
  /\ pc' = "idle"
  /\ UNCHANGED <<tip, chain, failed>>

(* The end of ConnectBlock: ExpireNames for the next height, the undo data *)
(* written, and the view flushed.                                          *)
ConnectEnd ==
  /\ pc = "connect" /\ ~failed
  /\ LET nHeight == Height + 2
     IN IF ExpireAsserts(nHeight) /\ ExpireChecks(view, nHeight)
        THEN LET new == [coins |-> ExpireCoins(view, nHeight), names |-> view.names]
             IN /\ tip' = new
                /\ view' = new
                /\ chain' = Append(chain, [block EXCEPT !.vexpired = ExpireUndo(view, nHeight)])
                /\ block' = EmptyBlock
                /\ pc' = "idle"
                /\ UNCHANGED failed
        ELSE Fail

-----------------------------------------------------------------------------
(* DisconnectTip.  Anything but DISCONNECT_OK is a fatal error.            *)

(* DisconnectBlock first undoes the expirations.                           *)
DisconnectBegin ==
  /\ pc = "idle" /\ ~failed
  /\ chain # <<>>
  /\ LET b == chain[Len(chain)]
     IN IF UnexpireChecks(tip, b.vexpired, Height + 1)
        THEN /\ view' = [coins |-> UnexpireCoins(tip, b.vexpired), names |-> tip.names]
             /\ block' = b
             /\ pc' = "undo coins"
             /\ UNCHANGED <<tip, chain, failed>>
        ELSE Fail

(* ... then the transactions in reverse order ...                          *)
DisconnectTx ==
  /\ pc = "undo coins" /\ ~failed
  /\ block.vtx # <<>>
  /\ LET k == Len(block.vtx)
         t == block.vtx[k]
     IN IF UndoClean(view.coins, t, Height)
        THEN /\ view' = [coins |-> UndoCoins(view.coins, t, block.vtxundo[k]),
                         names |-> view.names]
             /\ block' = WithoutLastTx(block)
             /\ UNCHANGED <<tip, chain, pc, failed>>
        ELSE Fail

(* ... then the name operations in reverse order ...                       *)
DisconnectName ==
  /\ pc = "undo coins" /\ ~failed
  /\ block.vtx = <<>> /\ block.vnameundo # <<>>
  /\ LET k == Len(block.vnameundo)
         u == block.vnameundo[k]
     IN IF UndoNameAsserts(view.names, u)
        THEN /\ view' = [coins |-> view.coins, names |-> UndoName(view.names, u)]
             /\ block' = WithoutLastName(block)
             /\ UNCHANGED <<tip, chain, pc, failed>>
        ELSE Fail

(* ... and the view is flushed into the tip.                               *)
DisconnectEnd ==
  /\ pc = "undo coins" /\ ~failed
  /\ block.vtx = <<>> /\ block.vnameundo = <<>>
  /\ tip' = view
  /\ chain' = SubSeq(chain, 1, Len(chain) - 1)
  /\ block' = EmptyBlock
  /\ pc' = "idle"
  /\ UNCHANGED <<view, failed>>

Next ==
  \/ ConnectBegin
  \/ \E t \in Tx : ConnectTx(t)
  \/ ConnectInvalid
  \/ ConnectEnd
  \/ DisconnectBegin
  \/ DisconnectTx
  \/ DisconnectName
  \/ DisconnectEnd

Spec == Init /\ [][Next]_vars

-----------------------------------------------------------------------------
NamesType ==
  [data : [Name -> NameData \cup {NoData}], history : [Name -> Seq(NameData)],
   expireIndex : SUBSET ((1 .. MaxHeight) \X Name)]

CoinsType == [OutPoint -> CoinHeight]

DBType == [coins : CoinsType, names : NamesType]

BlockType ==
  [vtx : Seq(Tx), vtxundo : Seq(CoinsType),
   vnameundo : Seq([name : Name, oldData : NameData \cup {NoData}]),
   vexpired : SUBSET [name : Name, height : CoinHeight],
   coinsLog : Seq(CoinsType), namesLog : Seq(NamesType)]

(* Every variable keeps its type: the tip and the view hold coins and a    *)
(* name database, the chain a sequence of blocks with undo data.           *)
TypeOK ==
  /\ tip \in DBType
  /\ view \in DBType
  /\ chain \in Seq(BlockType)
  /\ block \in BlockType
  /\ pc \in {"idle", "connect", "undo coins"}
  /\ failed \in BOOLEAN

(* No assertion of the name code fails and no "system error" is met: a     *)
(* confirmed name input is the database's (CheckNameTransaction), an       *)
(* expiring name's coin is there (ExpireNames), an unexpired one's is not  *)
(* (UnexpireNames), undo data matches (DisconnectBlock, SetName with undo, *)
(* DeleteName), and history heights do not decrease.                       *)
NoFailure == ~failed

(* Between blocks the name database passes ValidateNameDB: what            *)
(* CheckNameDB asserts in ConnectTip and DisconnectTip, as often as        *)
(* -checknamedb asks for it, holds at every tip.                           *)
NameDBConsistent == pc = "idle" => ValidateNameDB(tip, Height)

(* The check of NAME_UPDATE against the name database is "redundant as     *)
(* UTXO handling takes care of it anyway": an unspent coin of a name is    *)
(* the one its data points to, the name can still be updated in the block  *)
(* being built, and it is the only coin of the name.                       *)
UpdateCheckRedundant ==
  (pc \in {"idle", "connect"}) =>
    \A o \in OutPoint : (view.coins[o] # Spent /\ isAnyUpdate(o)) =>
      LET data == GetName(view.names, nameOp[o].name)
      IN /\ data = [height |-> view.coins[o], out |-> o]
         /\ ~isExpired(data.height, Height + 1)

(* DisconnectTip is the exact inverse of the ConnectTip that added the     *)
(* block: coins, name data, history and expire index are what they were.   *)
DisconnectRestores ==
  [][Len(chain') < Len(chain) =>
       LET b == chain[Len(chain)]
       IN tip' = [coins |-> b.coinsLog[1], names |-> b.namesLog[1]]]_vars

(* A block changes the data of a name that has not expired only by         *)
(* spending its coin: nobody but the owner of that coin updates it, and    *)
(* NAME_FIRSTUPDATE cannot take it over.                                   *)
OnlyOwnerUpdates ==
  [][Len(chain') > Len(chain) =>
       \A n \in Name :
         LET old == GetName(tip.names, n)
         IN (old # NoData /\ ~isExpired(old.height, Height + 1)
               /\ GetName(tip'.names, n) # old)
              => \E k \in DOMAIN block.vtx : old.out \in vin[block.vtx[k]]]_vars

(* The updates of n in the active chain: where, and to what.               *)
ChainUpdates(n) ==
  {p \in (1 .. Len(chain)) \X (1 .. MaxBlockTxs) :
     /\ p[2] <= Len(chain[p[1]].vtx)
     /\ \E o \in UpdatedOuts(chain[p[1]].vtx[p[2]]) : nameOp[o].name = n}

(* With -namehistory, the history of a name followed by its current data   *)
(* is the list of all its updates in the active chain, in chain order,     *)
(* through any sequence of reorganisations.                                *)
HistoryMatchesChain ==
  (pc = "idle" /\ fNameHistory) =>
    \A n \in Name :
      LET data == GetName(tip.names, n)
          all == IF data = NoData THEN <<>> ELSE Append(tip.names.history[n], data)
          Before(a, b) == a[1] < b[1] \/ (a[1] = b[1] /\ a[2] < b[2])
      IN \E at \in [1 .. Len(all) -> ChainUpdates(n)] :
           /\ \A p \in ChainUpdates(n) : \E k \in 1 .. Len(all) : at[k] = p
           /\ \A j, k \in 1 .. Len(all) : j < k => Before(at[j], at[k])
           /\ \A k \in 1 .. Len(all) :
                all[k] = [height |-> BaseHeight + at[k][1],
                          out |-> UpdatedOut(chain[at[k][1]].vtx[at[k][2]])]
-----------------------------------------------------------------------------
(* The inductive invariant behind these properties.                        *)

(* What holds of the database at height h, and of the view of a block on   *)
(* top of it, when the transactions C have been connected.                 *)
LedgerOK(coins, C) ==
  /\ \A t \in C : \A o \in vin[t] : coins[o] = Spent
  /\ \A t \in C : \A o \in vin[t] : o \in BaseCoins \/ \E u \in C : o \in vout[u]
  /\ \A o \in OutPoint : coins[o] # Spent => o \in BaseCoins \/ \E u \in C : o \in vout[u]

IndexOK(ns) ==
  \A h \in 1 .. MaxHeight, n \in Name :
    <<h, n>> \in ns.expireIndex <=> ns.data[n] # NoData /\ ns.data[n].height = h

HistoryOK(ns, h) ==
  \A n \in Name :
    /\ ns.data[n] = NoData \/ ~fNameHistory => ns.history[n] = <<>>
    /\ ns.data[n] # NoData => ns.data[n].height <= h
    /\ ns.history[n] # <<>> => ns.history[n][Len(ns.history[n])].height <= ns.data[n].height

(* An unspent coin of a name is the current one and can be spent at height *)
(* h + 1; and a name that can be updated then has its coin.                *)
CoinsMatchNames(db, h) ==
  /\ \A o \in OutPoint : (db.coins[o] # Spent /\ isAnyUpdate(o)) =>
       LET data == db.names.data[nameOp[o].name]
       IN data = [height |-> db.coins[o], out |-> o] /\ ~isExpired(data.height, h + 1)
  /\ \A n \in Name :
       LET data == db.names.data[n]
       IN (data # NoData /\ ~isExpired(data.height, h + 1)) => db.coins[data.out] # Spent
  /\ \A n \in Name :
       LET data == db.names.data[n]
       IN data # NoData => isAnyUpdate(data.out) /\ nameOp[data.out].name = n

DBOK(db, C, h, newest) ==
  /\ LedgerOK(db.coins, C)
  /\ IndexOK(db.names)
  /\ HistoryOK(db.names, newest)
  /\ CoinsMatchNames(db, h)

(* A block's logs and undo data agree: each entry undoes its step.         *)
BlockOK(b, h) ==
  /\ Len(b.vtxundo) = Len(b.vtx)
  /\ Len(b.coinsLog) = Len(b.vtx) + 1
  /\ Len(b.namesLog) = Len(b.vnameundo) + 1
  /\ \A k \in 1 .. Len(b.vtx) :
       /\ b.vtxundo[k] = TxUndo(b.coinsLog[k], b.vtx[k])
       /\ b.coinsLog[k + 1] = UpdateCoins(b.coinsLog[k], b.vtx[k], h)
       /\ \A o \in vout[b.vtx[k]] : b.coinsLog[k][o] = Spent
  /\ \A k \in 1 .. Len(b.vnameundo) :
       /\ UndoNameAsserts(b.namesLog[k + 1], b.vnameundo[k])
       /\ UndoName(b.namesLog[k + 1], b.vnameundo[k]) = b.namesLog[k]

Before(b) == [coins |-> b.coinsLog[1], names |-> b.namesLog[1]]
Applied(b) == [coins |-> b.coinsLog[Len(b.coinsLog)], names |-> b.namesLog[Len(b.namesLog)]]
TxsOf(b) == {b.vtx[k] : k \in 1 .. Len(b.vtx)}
Connected(i) == UNION {TxsOf(chain[j]) : j \in 1 .. i}

(* The database after block i.                                             *)
After(i) == IF i = Len(chain) THEN tip ELSE Before(chain[i + 1])

ChainBlockOK(i) ==
  LET b == chain[i]
      h == BaseHeight + i
  IN /\ BlockOK(b, h)
     /\ DBOK(Before(b), Connected(i - 1), h - 1, h - 1)
     /\ DBOK(Applied(b), Connected(i), h - 1, h)
     /\ b.vexpired = ExpireUndo(Applied(b), h + 1)
     /\ After(i) = [coins |-> ExpireCoins(Applied(b), h + 1), names |-> Applied(b).names]

ChainOK == \A i \in 1 .. Len(chain) : ChainBlockOK(i)

(* The block being connected changed a live name only by spending its coin. *)
OwnersOK ==
  \A n \in Name :
    LET old == tip.names.data[n]
    IN (old # NoData /\ ~isExpired(old.height, Height + 1) /\ view.names.data[n] # old)
         => \E k \in 1 .. Len(block.vtx) : old.out \in vin[block.vtx[k]]

IInv ==
  /\ TypeOK
  /\ ~failed
  /\ Height <= MaxHeight
  /\ ChainOK
  /\ DBOK(tip, Connected(Len(chain)), Height, Height)
  /\ pc = "idle" => view = tip
  /\ pc = "connect" =>
       /\ Height < MaxHeight
       /\ BlockOK(block, Height + 1)
       /\ Before(block) = tip /\ Applied(block) = view
       /\ OwnersOK
       /\ DBOK(view, Connected(Len(chain)) \cup TxsOf(block), Height, Height + 1)
  /\ pc = "undo coins" =>
       /\ chain # <<>>
       /\ BlockOK(block, Height)
       /\ Before(block) = Before(chain[Len(chain)]) /\ Applied(block) = view
=============================================================================
