----------------------------- MODULE CoinsCache -----------------------------
(***************************************************************************)
(* CCoinsViewCache: the coins database under the cache of the tip under    *)
(* the cache of a block (CoinsViewOverlay when the block is connected, a   *)
(* plain CCoinsViewCache when it is disconnected).  An entry is DIRTY when *)
(* it may differ from the layer below and FRESH when that layer has no     *)
(* unspent coin; a FRESH coin that is spent is simply forgotten.           *)
(* FlatCoins says what the layers amount to.                               *)
(***************************************************************************)
EXTENDS Integers, FiniteSets

CONSTANTS OutPoint, Coin,
          Spent,           \* no coin: never created, or spent
          NoEntry          \* the outpoint is not in cacheCoins

ASSUME CacheAssumption == Spent \notin Coin

VARIABLES
  db,          \* CCoinsViewDB: OutPoint -> coin
  tipCache,    \* CoinsTip(): [cacheCoins, m_dirty_count]
  viewCache,   \* the block's cache, the same
  threw        \* a std::logic_error was thrown

vars == <<db, tipCache, viewCache, threw>>

Entry == [coin : Coin \cup {Spent}, dirty : BOOLEAN, fresh : BOOLEAN]

ASSUME NoEntryAssumption == NoEntry \notin Entry

EmptyCache == [cacheCoins |-> [o \in OutPoint |-> NoEntry], m_dirty_count |-> 0]

IsDirty(e) == e # NoEntry /\ e.dirty
IsFresh(e) == e # NoEntry /\ e.fresh
EntryCoin(e) == IF e = NoEntry THEN Spent ELSE e.coin
Dirty(b) == IF b THEN 1 ELSE 0

(* What GetCoin finds in a cache on top of base.                           *)
Lookup(c, base) ==
  [o \in OutPoint |-> IF c.cacheCoins[o] = NoEntry THEN base[o] ELSE c.cacheCoins[o].coin]

TipCoins == Lookup(tipCache, db)
ViewCoins == Lookup(viewCache, TipCoins)

-----------------------------------------------------------------------------
(* Operations of one cache.                                                *)

WithEntry(c, o, e, count) ==
  [cacheCoins |-> [c.cacheCoins EXCEPT ![o] = e], m_dirty_count |-> count]

(* Slip: spent coins are cached as well.                                   *)
FetchCoinAlways(c, o, base) ==
  IF c.cacheCoins[o] # NoEntry THEN c
  ELSE WithEntry(c, o, [coin |-> base[o], dirty |-> FALSE, fresh |-> FALSE], c.m_dirty_count)

(* A coin that the base has is cached, a missing one is not.               *)
FetchCoin(c, o, base) ==
  IF c.cacheCoins[o] # NoEntry \/ base[o] = Spent THEN c
  ELSE WithEntry(c, o, [coin |-> base[o], dirty |-> FALSE, fresh |-> FALSE], c.m_dirty_count)

(* Slip: a re-added coin is FRESH although its spending was not flushed.   *)
AddCoinAlwaysFresh(c, o, coin, possible_overwrite) ==
  LET old == c.cacheCoins[o]
  IN WithEntry(c, o, [coin |-> coin, dirty |-> TRUE, fresh |-> IsFresh(old) \/ ~possible_overwrite],
               c.m_dirty_count - Dirty(IsDirty(old)) + 1)

AddCoin(c, o, coin, possible_overwrite) ==
  LET old == c.cacheCoins[o]
      fresh == ~possible_overwrite /\ ~IsDirty(old)
  IN WithEntry(c, o, [coin |-> coin, dirty |-> TRUE, fresh |-> IsFresh(old) \/ fresh],
               c.m_dirty_count - Dirty(IsDirty(old)) + 1)

AddCoinThrows(c, o, possible_overwrite) ==
  ~possible_overwrite /\ EntryCoin(c.cacheCoins[o]) # Spent

(* SpendCoin of an outpoint that FetchCoin looked up.                      *)
SpendCoin(c, o) ==
  LET old == c.cacheCoins[o]
      count == c.m_dirty_count - Dirty(IsDirty(old))
  IN IF old = NoEntry THEN c
     ELSE IF old.fresh THEN WithEntry(c, o, NoEntry, count)
     ELSE WithEntry(c, o, [coin |-> Spent, dirty |-> TRUE, fresh |-> FALSE], count + 1)

(* Slip: modified entries are dropped as well.                             *)
UncacheAny(c, o) == WithEntry(c, o, NoEntry, c.m_dirty_count - Dirty(IsDirty(c.cacheCoins[o])))

Uncache(c, o) ==
  IF IsDirty(c.cacheCoins[o]) THEN c ELSE WithEntry(c, o, NoEntry, c.m_dirty_count)

-----------------------------------------------------------------------------
(* BatchWrite into a cache: the child's dirty entry meets the parent's.    *)

Merged(parent, child) ==
  CASE ~IsDirty(child) -> parent
    [] IsDirty(child) /\ parent = NoEntry ->
         IF child.fresh /\ child.coin = Spent THEN NoEntry
         ELSE [coin |-> child.coin, dirty |-> TRUE, fresh |-> child.fresh]
    [] IsDirty(child) /\ parent # NoEntry ->
         IF parent.fresh /\ child.coin = Spent THEN NoEntry
         ELSE [coin |-> child.coin, dirty |-> TRUE, fresh |-> parent.fresh]

BatchWriteThrows(parent, child) ==
  \E o \in OutPoint : /\ IsDirty(child.cacheCoins[o]) /\ IsFresh(child.cacheCoins[o])
                      /\ EntryCoin(parent.cacheCoins[o]) # Spent

BatchWrite(parent, child) ==
  LET new == [o \in OutPoint |-> Merged(parent.cacheCoins[o], child.cacheCoins[o])]
      gained == {o \in OutPoint : IsDirty(new[o]) /\ ~IsDirty(parent.cacheCoins[o])}
      lost == {o \in OutPoint : ~IsDirty(new[o]) /\ IsDirty(parent.cacheCoins[o])}
  IN [cacheCoins |-> new,
      m_dirty_count |-> parent.m_dirty_count + Cardinality(gained) - Cardinality(lost)]

(* BatchWrite into the database: every dirty entry is written or erased.   *)
Written(base, c) ==
  [o \in OutPoint |-> IF IsDirty(c.cacheCoins[o]) THEN c.cacheCoins[o].coin ELSE base[o]]

(* The cursor takes each dirty entry off the count.                        *)
CountAfterCursor(c) ==
  c.m_dirty_count - Cardinality({o \in OutPoint : IsDirty(c.cacheCoins[o])})

Flushed(c) == [cacheCoins |-> EmptyCache.cacheCoins, m_dirty_count |-> CountAfterCursor(c)]

(* Slip: Sync keeps spent entries, now unflagged.                          *)
SyncedKeepingSpent(c) ==
  [cacheCoins |-> [o \in OutPoint |->
     IF c.cacheCoins[o] = NoEntry THEN NoEntry
     ELSE [coin |-> c.cacheCoins[o].coin, dirty |-> FALSE, fresh |-> FALSE]],
   m_dirty_count |-> CountAfterCursor(c)]

(* Sync keeps unspent entries, now unflagged.                              *)
Synced(c) ==
  [cacheCoins |-> [o \in OutPoint |->
     IF EntryCoin(c.cacheCoins[o]) = Spent THEN NoEntry
     ELSE [coin |-> c.cacheCoins[o].coin, dirty |-> FALSE, fresh |-> FALSE]],
   m_dirty_count |-> CountAfterCursor(c)]

-----------------------------------------------------------------------------
Init == /\ db \in [OutPoint -> Coin \cup {Spent}]
        /\ tipCache = EmptyCache
        /\ viewCache = EmptyCache
        /\ threw = FALSE

(* GetCoin through both caches; CoinsViewOverlay only peeks at the tip's.  *)
Get(o) ==
  /\ ~threw
  /\ tipCache' \in {tipCache, IF viewCache.cacheCoins[o] = NoEntry THEN FetchCoin(tipCache, o, db)
                                                                  ELSE tipCache}
  /\ viewCache' = FetchCoin(viewCache, o, TipCoins)
  /\ UNCHANGED <<db, threw>>

(* GetCoin of the tip itself (the mempool, RPC).                           *)
TipGet(o) ==
  /\ ~threw
  /\ tipCache' = FetchCoin(tipCache, o, db)
  /\ UNCHANGED <<db, viewCache, threw>>

(* AddCoin as its callers use it: AddCoins (BIP30 has ruled out that an    *)
(* unspent output is overwritten), ApplyTxInUndo and UnexpireNames (after  *)
(* HaveCoin) say that nothing is overwritten only if nothing is.           *)
Add(o, coin, possible_overwrite) ==
  /\ ~threw
  /\ possible_overwrite \/ ViewCoins[o] = Spent
  /\ IF AddCoinThrows(viewCache, o, possible_overwrite)
     THEN threw' = TRUE /\ UNCHANGED <<db, tipCache, viewCache>>
     ELSE /\ viewCache' = AddCoin(viewCache, o, coin, possible_overwrite)
          /\ UNCHANGED <<db, tipCache, threw>>

Spend(o) ==
  /\ ~threw
  /\ tipCache' \in {tipCache, IF viewCache.cacheCoins[o] = NoEntry THEN FetchCoin(tipCache, o, db)
                                                                  ELSE tipCache}
  /\ viewCache' = SpendCoin(FetchCoin(viewCache, o, TipCoins), o)
  /\ UNCHANGED <<db, threw>>

(* The block is done: its cache is flushed into the tip's and dropped.     *)
FlushView ==
  /\ ~threw
  /\ IF BatchWriteThrows(tipCache, viewCache)
     THEN threw' = TRUE /\ UNCHANGED <<db, tipCache, viewCache>>
     ELSE /\ tipCache' = BatchWrite(tipCache, viewCache)
          /\ viewCache' = EmptyCache
          /\ UNCHANGED <<db, threw>>

(* The block is refused: Reset.                                            *)
ResetView ==
  /\ ~threw
  /\ viewCache' = EmptyCache
  /\ UNCHANGED <<db, tipCache, threw>>

(* FlushStateToDisk: Flush empties the cache, Sync keeps it.  Both happen  *)
(* between blocks.                                                         *)
FlushTip ==
  /\ ~threw /\ viewCache = EmptyCache
  /\ db' = Written(db, tipCache)
  /\ tipCache' = Flushed(tipCache)
  /\ UNCHANGED <<viewCache, threw>>

SyncTip ==
  /\ ~threw /\ viewCache = EmptyCache
  /\ db' = Written(db, tipCache)
  /\ tipCache' = Synced(tipCache)
  /\ UNCHANGED <<viewCache, threw>>

UncacheTip(o) ==
  /\ ~threw
  /\ tipCache' = Uncache(tipCache, o)
  /\ UNCHANGED <<db, viewCache, threw>>

Next ==
  \/ \E o \in OutPoint : Get(o) \/ TipGet(o) \/ Spend(o) \/ UncacheTip(o)
  \/ \E o \in OutPoint, coin \in Coin, ow \in BOOLEAN : Add(o, coin, ow)
  \/ FlushView
  \/ ResetView
  \/ FlushTip
  \/ SyncTip

Spec == Init /\ [][Next]_vars
-----------------------------------------------------------------------------
(* CCoinsViewCache::SanityCheck of both caches: a spent entry is DIRTY and *)
(* not FRESH, a FRESH one is DIRTY, and m_dirty_count counts the DIRTY     *)
(* entries through any sequence of calls.                                  *)
SanityCheck ==
  \A c \in {tipCache, viewCache} :
    /\ \A o \in OutPoint : LET e == c.cacheCoins[o] IN
         e # NoEntry => IF e.coin = Spent THEN e.dirty /\ ~e.fresh ELSE e.fresh => e.dirty
    /\ c.m_dirty_count = Cardinality({o \in OutPoint : IsDirty(c.cacheCoins[o])})

(* CCoinsCacheEntry's contract: an entry that is not DIRTY is what the     *)
(* layer below has, and under a FRESH one that layer has no unspent coin.  *)
FlagsOK(c, base) ==
  \A o \in OutPoint : LET e == c.cacheCoins[o] IN
    e # NoEntry => /\ ~e.dirty => e.coin = base[o]
                   /\ e.fresh => base[o] = Spent

(* It holds for the block's cache over the tip and the tip's over the      *)
(* database, whatever is fetched, flushed, synced or uncached in between,  *)
(* and so no std::logic_error is thrown: AddCoin never overwrites an       *)
(* unspent coin it was told is not there, and BatchWrite never finds a     *)
(* FRESH coin unspent in the parent cache.                                 *)
FlagsContract ==
  /\ FlagsOK(tipCache, db)
  /\ FlagsOK(viewCache, TipCoins)
  /\ ~threw

Flat == INSTANCE FlatCoins WITH tip <- TipCoins, view <- ViewCoins

(* The two caches over the database behave like three plain maps: no flag  *)
(* and no order of fetching, flushing, syncing and uncaching loses or      *)
(* revives a coin.                                                         *)
ImplementsFlatCoins == Flat!Spec
=============================================================================
