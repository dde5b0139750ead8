---------------------------- MODULE Caches_proofs ---------------------------
(* Three caches outside of the name code, for any size: the templates that *)
(* the merged miner keeps; the stack of coin caches, where the contract of *)
(* the flags is inductive and under it each operation on a cache is an     *)
(* operation on a plain map, or no change at all; and the inputs that are  *)
(* fetched for a block on the thread pool.                                 *)
EXTENDS AuxpowMiner, CoinsCache, PrevoutFetch, FiniteSetTheorems, WellFoundedInduction, TLAPS

(* Most leaves are first-order, so Zenon is the default prover; a leaf that  *)
(* needs arithmetic, records or function application says SMT.              *)
USE Zenon

-----------------------------------------------------------------------------
(* The miner's templates.                                                  *)

Template == [script : Script, prev : Tip, txs : Nat, time : Nat]

(* The clock and the counters are natural numbers, and templates are what  *)
(* CreateNew makes them.                                                   *)
Typed ==
  /\ tip \in Tip /\ updated \in Nat /\ now \in Nat
  /\ heap \in Seq(Template)
  /\ blocks \subseteq 1 .. Len(heap)

(* Every template that is owned can be looked up by its hash and was made  *)
(* for pindexPrev.                                                         *)
BlocksOK ==
  /\ mapBlocks = blocks
  /\ \A b \in blocks : heap[b].prev = pindexPrev

(* What curBlocks has for a script is owned and pays the script.           *)
CurrentOK ==
  /\ curBlocks \in [Script -> blocks \cup {null}]
  /\ \A s \in Script : curBlocks[s] # null => heap[curBlocks[s]].script = s

(* The last answer can be looked up unless another tip was met.            *)
AnswerOK ==
  (answer # NoAnswer /\ answer.prev = pindexPrev /\ blocks # {}) => lookupSavedBlock(answer.block)

(* The inductive invariant.                                                *)
MinerInv == Typed /\ BlocksOK /\ CurrentOK /\ AnswerOK

(* The invariant holds from the start and is preserved.                    *)
THEOREM MinerInvHolds == MinerSpec => []MinerInv

(* Nothing of the cache changes in the steps of the rest of the node.      *)
<1>EnvironmentKeepsInv.
  ASSUME MinerInv, UNCHANGED <<state, answer>>,
         tip' \in Tip, updated' \in Nat, now' \in Nat
  PROVE  MinerInv'
BY <1>EnvironmentKeepsInv DEF MinerInv, Typed, BlocksOK, CurrentOK, AnswerOK, lookupSavedBlock, state
(* A new template takes the next free address: the others stay as they     *)
(* are, and it can be looked up.                                           *)
<1>CreateNewKeepsInv.
  ASSUME MinerInv, NEW s \in Script, CreateNew(s)
  PROVE  MinerInv'
<2> USE <1>CreateNewKeepsInv
<2> DEFINE b == Len(heap) + 1
           c == Cleared(pindexPrev # tip)
           new == [script |-> s, prev |-> tip, txs |-> updated, time |-> now]
<2> USE MinerAssumption
<2>1. /\ heap' = Append(heap, new) /\ blocks' = c.blocks \cup {b}
      /\ mapBlocks' = c.mapBlocks \cup {b}
      /\ curBlocks' = IF c.curBlocks[s] = null THEN [c.curBlocks EXCEPT ![s] = b] ELSE c.curBlocks
      /\ pindexPrev' = tip /\ answer' = Answer(s, b) /\ UNCHANGED env
  BY DEF CreateNew, Saved
<2>2. /\ new \in Template /\ heap' \in Seq(Template) /\ Len(heap') = b
      /\ heap'[b] = new /\ b \in Nat
      /\ \A i \in 1 .. Len(heap) : heap'[i] = heap[i]
  BY <2>1, SMT DEF MinerInv, Typed, Template
<2>3. /\ c.blocks \subseteq blocks /\ c.mapBlocks = c.blocks
      /\ \A i \in c.blocks : heap[i].prev = tip
      /\ c.curBlocks \in [Script -> c.blocks \cup {null}]
      /\ \A r \in Script : c.curBlocks[r] # null => heap[c.curBlocks[r]].script = r
  BY DEF Cleared, MinerInv, BlocksOK, CurrentOK
<2>4. c.blocks \subseteq 1 .. Len(heap)
  BY <2>3 DEF MinerInv, Typed
<2>5. Typed'
  BY <2>1, <2>2, <2>4, SMT DEF MinerInv, Typed, env
<2>6. BlocksOK'
  BY <2>1, <2>2, <2>3, <2>4, SMT DEF BlocksOK
<2>7. CurrentOK'
  <3>1. curBlocks' \in [Script -> blocks' \cup {null}]
    BY <2>1, <2>3
  <3>2. ASSUME NEW r \in Script, curBlocks'[r] # null
        PROVE  heap'[curBlocks'[r]].script = r
    <4>1. CASE r = s /\ c.curBlocks[s] = null
      <5>1. curBlocks'[r] = b
        BY <4>1, <2>1, <2>3
      <5>2. heap'[b].script = s
        <6>1. new.script = s
          OBVIOUS
        <6> HIDE DEF b, new
        <6> QED BY <2>2, <6>1
      <5> QED BY <4>1, <5>1, <5>2
    <4>2. CASE ~(r = s /\ c.curBlocks[s] = null)
      <5>1. curBlocks'[r] = c.curBlocks[r]
        BY <4>2, <2>1, <2>3
      <5>2. curBlocks'[r] \in c.blocks
        BY <5>1, <3>2, <2>3
      <5>3. heap'[curBlocks'[r]] = heap[c.curBlocks[r]]
        BY <5>1, <5>2, <2>2, <2>4
      <5>4. heap[c.curBlocks[r]].script = r
        BY <5>1, <3>2, <2>3
      <5> QED BY <5>3, <5>4
    <4> QED BY <4>1, <4>2
  <3> QED BY <3>1, <3>2 DEF CurrentOK
<2>8. AnswerOK'
  BY <2>1, <2>2 DEF AnswerOK, lookupSavedBlock, Answer
<2> QED BY <2>5, <2>6, <2>7, <2>8 DEF MinerInv
(* When createNewBlock fails, what was cleared stays cleared.              *)
<1>CreateFailsKeepsInv.
  ASSUME MinerInv, NEW s \in Script, CreateFails(s)
  PROVE  MinerInv'
<2> USE <1>CreateFailsKeepsInv
<2>1. CASE pindexPrev # tip
  BY <2>1 DEF CreateFails, Cleared, MinerInv, Typed, BlocksOK, CurrentOK, AnswerOK, env
<2>2. CASE pindexPrev = tip
  BY <2>2 DEF CreateFails, Cleared, MinerInv, Typed, BlocksOK, CurrentOK, AnswerOK, lookupSavedBlock, env
<2> QED BY <2>1, <2>2
(* A cached answer is one that curBlocks has.                              *)
<1>CreateCachedKeepsInv.
  ASSUME MinerInv, NEW s \in Script, CreateCached(s)
  PROVE  MinerInv'
<2> USE <1>CreateCachedKeepsInv
<2>1. curBlocks[s] \in mapBlocks
  BY DEF CreateCached, Regenerate, MinerInv, CurrentOK, BlocksOK
<2> QED BY <2>1 DEF CreateCached, Answer, MinerInv, Typed, BlocksOK, CurrentOK, AnswerOK,
                    lookupSavedBlock, env, state
(* Every step preserves the invariant.                                     *)
<1>MinerInvInductive. MinerInv /\ [MinerNext]_minerVars => MinerInv'
<2> SUFFICES ASSUME MinerInv, [MinerNext]_minerVars PROVE MinerInv'
  OBVIOUS
<2>1. ASSUME NEW b \in Tip, NewTip(b) PROVE MinerInv'
  BY <2>1, <1>EnvironmentKeepsInv DEF NewTip, MinerInv, Typed
<2>2. CASE MempoolChanges
  BY <2>2, <1>EnvironmentKeepsInv, SMT DEF MempoolChanges, MinerInv, Typed
<2>3. CASE Tick
  BY <2>3, <1>EnvironmentKeepsInv, SMT DEF Tick, MinerInv, Typed
<2>4. ASSUME NEW s \in Script, CreateNew(s) \/ CreateFails(s) \/ CreateCached(s) PROVE MinerInv'
  BY <2>4, <1>CreateNewKeepsInv, <1>CreateFailsKeepsInv, <1>CreateCachedKeepsInv
<2>5. ASSUME NEW b \in mapBlocks, SubmitLookup(b) PROVE MinerInv'
  BY <2>5, <1>EnvironmentKeepsInv DEF SubmitLookup, MinerInv, Typed, env
<2>6. ASSUME NEW b \in submitting, SubmitProcess(b) PROVE MinerInv'
  BY <2>6, <1>EnvironmentKeepsInv DEF SubmitProcess, MinerInv, Typed
<2>7. CASE UNCHANGED minerVars
  BY <2>7, <1>EnvironmentKeepsInv DEF minerVars, env, MinerInv, Typed
<2> QED BY <2>1, <2>2, <2>3, <2>4, <2>5, <2>6, <2>7 DEF MinerNext
<1>1. MinerInit => MinerInv
  BY MinerAssumption, SMT DEF MinerInit, MinerInv, Typed, BlocksOK, CurrentOK, AnswerOK, NoAnswer
<1> QED BY <1>1, <1>MinerInvInductive, PTL DEF MinerSpec

(* curBlocks and mapBlocks never hold a pointer to a template that was     *)
(* freed, or one for another tip or another miner.                         *)
THEOREM PointersAlwaysOwned == MinerSpec => []PointersOwned
<1>1. MinerInv => PointersOwned
  BY DEF MinerInv, BlocksOK, CurrentOK, PointersOwned
<1> QED BY <1>1, MinerInvHolds, PTL

(* submitauxblock finds what createauxblock answered.                      *)
THEOREM AnswersCanBeSubmitted == MinerSpec => []AnswersSubmittable
<1>1. MinerInv => AnswersSubmittable
  BY DEF MinerInv, BlocksOK, AnswerOK, AnswersSubmittable, lookupSavedBlock
<1> QED BY <1>1, MinerInvHolds, PTL

(* createauxblock answers with a template of the caller on top of the tip, *)
(* cached or new.                                                          *)
THEOREM AnswersExtendTheTip == MinerSpec => AnswerExtendsTip
<1> DEFINE Good == answer' # answer =>
                     /\ answer'.block.script = answer'.script
                     /\ answer'.block.prev = tip /\ answer'.prev = tip
<1>1. MinerInv /\ [MinerNext]_minerVars => [Good]_minerVars
  <2> SUFFICES ASSUME MinerInv, MinerNext, answer' # answer
               PROVE  /\ answer'.block.script = answer'.script
                      /\ answer'.block.prev = tip /\ answer'.prev = tip
    BY DEF minerVars
  <2>1. PICK s \in Script : CreateNew(s) \/ CreateFails(s) \/ CreateCached(s)
    BY DEF MinerNext, NewTip, MempoolChanges, Tick, SubmitLookup, SubmitProcess
  <2>2. CASE CreateNew(s)
    <3> DEFINE new == [script |-> s, prev |-> tip, txs |-> updated, time |-> now]
    <3>1. heap' = Append(heap, new) /\ answer' = Answer(s, Len(heap) + 1) /\ pindexPrev' = tip
      BY <2>2 DEF CreateNew
    <3>2. heap'[Len(heap) + 1] = new
      BY <3>1, SMT DEF MinerInv, Typed
    <3> QED BY <3>1, <3>2, SMT DEF Answer
  <2>3. CASE CreateCached(s)
    <3>1. /\ curBlocks[s] # null /\ pindexPrev = tip
          /\ answer' = Answer(s, curBlocks[s]) /\ heap' = heap /\ pindexPrev' = pindexPrev
      BY <2>3 DEF CreateCached, Regenerate, state
    <3>2. curBlocks[s] \in blocks /\ heap[curBlocks[s]].script = s
      BY <3>1 DEF MinerInv, CurrentOK
    <3> QED BY <3>1, <3>2 DEF Answer, MinerInv, BlocksOK
  <2> QED BY <2>1, <2>2, <2>3 DEF CreateFails
<1> QED BY <1>1, MinerInvHolds, PTL DEF MinerSpec, AnswerExtendsTip

-----------------------------------------------------------------------------
(* The stack of coin caches.                                               *)

CoinMap == [OutPoint -> Coin \cup {Spent}]

IsCache(c) == c.cacheCoins \in [OutPoint -> Entry \cup {NoEntry}]

(* A cache over base that keeps the contract.                              *)
CacheOK(c, base) == IsCache(c) /\ FlagsOK(c, base)

(* The inductive invariant.                                                *)
StackInv ==
  /\ db \in CoinMap
  /\ CacheOK(tipCache, db)
  /\ CacheOK(viewCache, TipCoins)
  /\ threw = FALSE

-----------------------------------------------------------------------------
(* One cache c over base.                                                  *)

(* What a cache shows is a map of coins.                                   *)
LEMMA LookupType ==
  ASSUME NEW base \in CoinMap, NEW c, IsCache(c)
  PROVE  Lookup(c, base) \in CoinMap
BY DEF CoinMap, IsCache, Lookup, Entry

(* An empty cache shows its base.                                          *)
LEMMA EmptyCacheOK ==
  ASSUME NEW base \in CoinMap
  PROVE  CacheOK(EmptyCache, base) /\ Lookup(EmptyCache, base) = base
BY DEF CoinMap, CacheOK, IsCache, EmptyCache, FlagsOK, Lookup

(* An entry is no missing entry.                                           *)
LEMMA EntryThere ==
  ASSUME NEW coin \in Coin \cup {Spent}, NEW dirty \in BOOLEAN, NEW fresh \in BOOLEAN
  PROVE  /\ [coin |-> coin, dirty |-> dirty, fresh |-> fresh] \in Entry
         /\ [coin |-> coin, dirty |-> dirty, fresh |-> fresh] # NoEntry
<1>1. [coin |-> coin, dirty |-> dirty, fresh |-> fresh] \in Entry
  BY DEF Entry
<1> QED BY <1>1, NoEntryAssumption

(* Changing one entry changes one coin.                                    *)
LEMMA WithEntryOK ==
  ASSUME NEW base \in CoinMap, NEW c, CacheOK(c, base), NEW o \in OutPoint,
         NEW e \in Entry \cup {NoEntry}, NEW count,
         e # NoEntry => (~e.dirty => e.coin = base[o]) /\ (e.fresh => base[o] = Spent)
  PROVE  /\ CacheOK(WithEntry(c, o, e, count), base)
         /\ Lookup(WithEntry(c, o, e, count), base)
              = [Lookup(c, base) EXCEPT ![o] = IF e = NoEntry THEN base[o] ELSE e.coin]
BY DEF WithEntry, CacheOK, IsCache, FlagsOK, Lookup

(* Fetching shows nothing new.                                             *)
LEMMA FetchCoinOK ==
  ASSUME NEW base \in CoinMap, NEW c, CacheOK(c, base), NEW o \in OutPoint
  PROVE  LET d == FetchCoin(c, o, base)
         IN CacheOK(d, base) /\ Lookup(d, base) = Lookup(c, base)
<1> DEFINE e == [coin |-> base[o], dirty |-> FALSE, fresh |-> FALSE]
<1>1. CASE c.cacheCoins[o] # NoEntry \/ base[o] = Spent
  BY <1>1 DEF FetchCoin
<1>2. CASE ~(c.cacheCoins[o] # NoEntry \/ base[o] = Spent)
  <2>1. e \in Entry /\ e # NoEntry /\ e.coin = base[o] /\ e.fresh = FALSE
    BY EntryThere DEF CoinMap
  <2>2. FetchCoin(c, o, base) = WithEntry(c, o, e, c.m_dirty_count)
    BY <1>2 DEF FetchCoin
  <2>3. Lookup(c, base)[o] = base[o]
    BY <1>2 DEF Lookup
  <2>4. Lookup(c, base) \in CoinMap
    BY LookupType DEF CacheOK
  <2>5. [Lookup(c, base) EXCEPT ![o] = base[o]] = Lookup(c, base)
    BY <2>3, <2>4 DEF CoinMap
  <2> HIDE DEF e
  <2> QED BY <2>1, <2>2, <2>5, WithEntryOK, SMT
<1> QED BY <1>1, <1>2

-----------------------------------------------------------------------------
(* The stack.                                                              *)

(* What a step does to the three maps: nothing, or a step of FlatCoins.    *)
FlatStep == Flat!Next \/ UNCHANGED <<db, TipCoins, ViewCoins>>

(* Every step keeps the contract and is a step of the plain maps or none.  *)
LEMMA StackStep == StackInv /\ [Next]_vars => StackInv' /\ FlatStep
(* Uncache drops only what the base has as well.                           *)
<1>UncacheOK.
  ASSUME NEW base \in CoinMap, NEW c, CacheOK(c, base), NEW o \in OutPoint
  PROVE  LET d == Uncache(c, o)
         IN CacheOK(d, base) /\ Lookup(d, base) = Lookup(c, base)
<2> USE <1>UncacheOK
<2>1. CASE IsDirty(c.cacheCoins[o])
  BY <2>1 DEF Uncache
<2>2. CASE ~IsDirty(c.cacheCoins[o])
  <3>1. Uncache(c, o) = WithEntry(c, o, NoEntry, c.m_dirty_count)
    BY <2>2 DEF Uncache
  <3>2. Lookup(c, base)[o] = base[o]
    BY <2>2 DEF CacheOK, FlagsOK, IsDirty, Lookup
  <3>3. Lookup(c, base) \in CoinMap
    BY LookupType DEF CacheOK
  <3>4. [Lookup(c, base) EXCEPT ![o] = base[o]] = Lookup(c, base)
    BY <3>2, <3>3 DEF CoinMap
  <3> QED BY <3>1, <3>4, WithEntryOK, SMT
<2> QED BY <2>1, <2>2
(* AddCoin sets the coin, and FRESH only where the base has none.          *)
<1>AddCoinOK.
  ASSUME NEW base \in CoinMap, NEW c, CacheOK(c, base), NEW o \in OutPoint,
         NEW coin \in Coin, NEW ow \in BOOLEAN, ow \/ Lookup(c, base)[o] = Spent
  PROVE  LET d == AddCoin(c, o, coin, ow)
         IN /\ CacheOK(d, base)
            /\ Lookup(d, base) = [Lookup(c, base) EXCEPT ![o] = coin]
            /\ ~AddCoinThrows(c, o, ow)
<2> USE <1>AddCoinOK
<2> DEFINE old == c.cacheCoins[o]
           fresh == IsFresh(old) \/ (~ow /\ ~IsDirty(old))
           e == [coin |-> coin, dirty |-> TRUE, fresh |-> fresh]
           n == c.m_dirty_count - Dirty(IsDirty(old)) + 1
<2>1. AddCoin(c, o, coin, ow) = WithEntry(c, o, e, n)
  BY DEF AddCoin
<2>2. old \in Entry \cup {NoEntry}
  BY DEF CacheOK, IsCache
<2>3. fresh \in BOOLEAN
  BY DEF IsFresh, IsDirty
<2>4. e \in Entry /\ e # NoEntry /\ e.coin = coin /\ e.dirty = TRUE /\ e.fresh = fresh
  BY <2>3, EntryThere
<2>5. ASSUME fresh PROVE base[o] = Spent
  BY <2>5 DEF CacheOK, FlagsOK, IsFresh, IsDirty, Lookup
<2>6. ~AddCoinThrows(c, o, ow)
  BY DEF AddCoinThrows, EntryCoin, Lookup
<2> HIDE DEF fresh, n, e
<2> QED BY <2>1, <2>4, <2>5, <2>6, WithEntryOK, SMT
(* SpendCoin leaves no coin.                                               *)
<1>SpendCoinOK.
  ASSUME NEW base \in CoinMap, NEW c, CacheOK(c, base), NEW o \in OutPoint,
         c.cacheCoins[o] = NoEntry => base[o] = Spent
  PROVE  LET d == SpendCoin(c, o)
         IN /\ CacheOK(d, base)
            /\ Lookup(d, base) = [Lookup(c, base) EXCEPT ![o] = Spent]
<2> USE <1>SpendCoinOK
<2> DEFINE old == c.cacheCoins[o]
           n == c.m_dirty_count - Dirty(IsDirty(old))
           e == [coin |-> Spent, dirty |-> TRUE, fresh |-> FALSE]
<2>1. CASE old = NoEntry
  <3>1. Lookup(c, base)[o] = Spent /\ Lookup(c, base) \in CoinMap
    BY <2>1, LookupType DEF Lookup, CacheOK
  <3> QED BY <2>1, <3>1 DEF SpendCoin, CoinMap
<2>2. CASE old # NoEntry /\ old.fresh
  <3>1. base[o] = Spent
    BY <2>2 DEF CacheOK, FlagsOK
  <3>2. SpendCoin(c, o) = WithEntry(c, o, NoEntry, n)
    BY <2>2 DEF SpendCoin
  <3> QED BY <3>1, <3>2, WithEntryOK, SMT
<2>3. CASE old # NoEntry /\ ~old.fresh
  <3>1. SpendCoin(c, o) = WithEntry(c, o, e, n + 1)
    BY <2>3 DEF SpendCoin
  <3>2. e \in Entry /\ e # NoEntry /\ e.coin = Spent /\ e.dirty = TRUE /\ e.fresh = FALSE
    BY EntryThere
  <3> HIDE DEF n, e
  <3> QED BY <3>1, <3>2, WithEntryOK, SMT
<2> QED BY <2>1, <2>2, <2>3
(* A flush of the cache child over the cache parent shows the child's      *)
(* coins in the parent, and its assertions hold.                           *)
<1>BatchWriteOK.
  ASSUME NEW base \in CoinMap, NEW parent, CacheOK(parent, base),
         NEW child, CacheOK(child, Lookup(parent, base))
  PROVE  LET d == BatchWrite(parent, child)
         IN /\ CacheOK(d, base)
            /\ Lookup(d, base) = Lookup(child, Lookup(parent, base))
            /\ ~BatchWriteThrows(parent, child)
<2> USE <1>BatchWriteOK
<2> DEFINE below == Lookup(parent, base)
           p(o) == parent.cacheCoins[o]
           c(o) == child.cacheCoins[o]
           new == [o \in OutPoint |-> Merged(p(o), c(o))]
<2>1. BatchWrite(parent, child).cacheCoins = new
  BY DEF BatchWrite
<2>2. ASSUME NEW o \in OutPoint
      PROVE  /\ p(o) \in Entry \cup {NoEntry} /\ c(o) \in Entry \cup {NoEntry}
             /\ p(o) # NoEntry => (~p(o).dirty => p(o).coin = base[o]) /\ (p(o).fresh => base[o] = Spent)
             /\ c(o) # NoEntry => (~c(o).dirty => c(o).coin = below[o]) /\ (c(o).fresh => below[o] = Spent)
             /\ below[o] = IF p(o) = NoEntry THEN base[o] ELSE p(o).coin
  BY DEF CacheOK, IsCache, FlagsOK, Lookup
<2>3. ASSUME NEW o \in OutPoint
      PROVE  LET e == new[o]
             IN /\ e \in Entry \cup {NoEntry}
                /\ e # NoEntry => (~e.dirty => e.coin = base[o]) /\ (e.fresh => base[o] = Spent)
                /\ (IF e = NoEntry THEN base[o] ELSE e.coin) = IF c(o) = NoEntry THEN below[o] ELSE c(o).coin
  <3>1. CASE ~IsDirty(c(o))
    <4>1. new[o] = p(o)
      BY <3>1 DEF Merged
    <4>2. (IF c(o) = NoEntry THEN below[o] ELSE c(o).coin) = below[o]
      BY <3>1, <2>2 DEF IsDirty
    <4> QED BY <2>2, <4>1, <4>2
  <3>2. CASE IsDirty(c(o)) /\ p(o) = NoEntry
    <4>1. new[o] = IF c(o).fresh /\ c(o).coin = Spent THEN NoEntry
                   ELSE [coin |-> c(o).coin, dirty |-> TRUE, fresh |-> c(o).fresh]
      BY <3>2 DEF Merged, IsDirty
    <4>2. c(o) \in Entry
      BY <3>2, <2>2 DEF IsDirty
    <4>3. [coin |-> c(o).coin, dirty |-> TRUE, fresh |-> c(o).fresh] \in Entry
      BY <4>2 DEF Entry
    <4> QED BY <2>2, <3>2, <4>1, <4>3, NoEntryAssumption, SMT DEF IsDirty
  <3>3. CASE IsDirty(c(o)) /\ p(o) # NoEntry
    <4>1. new[o] = IF p(o).fresh /\ c(o).coin = Spent THEN NoEntry
                   ELSE [coin |-> c(o).coin, dirty |-> TRUE, fresh |-> p(o).fresh]
      BY <3>3 DEF Merged, IsDirty
    <4>2. c(o) \in Entry /\ p(o) \in Entry
      BY <3>3, <2>2 DEF IsDirty
    <4>3. [coin |-> c(o).coin, dirty |-> TRUE, fresh |-> p(o).fresh] \in Entry
      BY <4>2 DEF Entry
    <4> QED BY <2>2, <3>3, <4>1, <4>3, NoEntryAssumption, SMT DEF IsDirty
  <3> QED BY <3>1, <3>2, <3>3
<2>4. ~BatchWriteThrows(parent, child)
  BY <2>2 DEF BatchWriteThrows, IsDirty, IsFresh, EntryCoin
<2> HIDE DEF new, below
<2>5. new \in [OutPoint -> Entry \cup {NoEntry}]
  BY <2>3 DEF new
<2>6. CacheOK(BatchWrite(parent, child), base)
  BY <2>1, <2>3, <2>5 DEF CacheOK, IsCache, FlagsOK
<2>7. Lookup(BatchWrite(parent, child), base) = Lookup(child, below)
  BY <2>1, <2>3 DEF Lookup
<2> QED BY <2>4, <2>6, <2>7 DEF below
(* Writing the dirty entries makes the database what the cache shows.      *)
<1>WrittenOK.
  ASSUME NEW base \in CoinMap, NEW c, CacheOK(c, base)
  PROVE  Written(base, c) = Lookup(c, base)
BY <1>WrittenOK DEF Written, Lookup, CacheOK, FlagsOK, IsDirty
(* Sync keeps only entries that the database now has.                      *)
<1>SyncedOK.
  ASSUME NEW base \in CoinMap, NEW c, CacheOK(c, base)
  PROVE  /\ CacheOK(Synced(c), Lookup(c, base))
         /\ Lookup(Synced(c), Lookup(c, base)) = Lookup(c, base)
<2> USE <1>SyncedOK
<2> DEFINE new == [o \in OutPoint |->
             IF EntryCoin(c.cacheCoins[o]) = Spent THEN NoEntry
             ELSE [coin |-> c.cacheCoins[o].coin, dirty |-> FALSE, fresh |-> FALSE]]
           shown == Lookup(c, base)
<2>1. Synced(c).cacheCoins = new
  BY DEF Synced
<2>2. ASSUME NEW o \in OutPoint, new[o] # NoEntry
      PROVE  new[o] \in Entry /\ new[o].coin = shown[o] /\ new[o].fresh = FALSE
  BY <2>2 DEF EntryCoin, Lookup, CacheOK, IsCache, Entry
<2>3. shown \in CoinMap
  BY LookupType DEF CacheOK
<2> HIDE DEF new, shown
<2>4. new \in [OutPoint -> Entry \cup {NoEntry}]
  BY <2>2 DEF new
<2>5. Lookup(Synced(c), shown) = shown
  BY <2>1, <2>2, <2>3 DEF Lookup, CoinMap
<2>6. CacheOK(Synced(c), shown)
  BY <2>1, <2>2, <2>4 DEF CacheOK, IsCache, FlagsOK
<2> QED BY <2>5, <2>6 DEF shown
(* The contract and the coins of the tip survive a fetch into the tip's    *)
(* cache by which the block's cache is not concerned.                      *)
<1>TipFetchOK.
  ASSUME StackInv, NEW o \in OutPoint, db' = db,
         tipCache' \in {tipCache, FetchCoin(tipCache, o, db)}
  PROVE  CacheOK(tipCache', db) /\ Lookup(tipCache', db) = TipCoins /\ TipCoins' = TipCoins
BY <1>TipFetchOK, FetchCoinOK DEF StackInv, TipCoins
(* HaveCoin and GetCoin change nothing.                                    *)
<1>GetStep.
  ASSUME StackInv, NEW o \in OutPoint, Get(o)
  PROVE  StackInv' /\ FlatStep
<2> USE <1>GetStep
<2>1. CacheOK(tipCache', db) /\ TipCoins' = TipCoins /\ db' = db
  BY <1>TipFetchOK DEF Get
<2>2. TipCoins \in CoinMap
  BY LookupType DEF TipCoins, StackInv, CacheOK
<2>3. CacheOK(viewCache', TipCoins) /\ Lookup(viewCache', TipCoins) = ViewCoins
  BY <2>2, FetchCoinOK DEF Get, StackInv, ViewCoins
<2>4. ViewCoins' = ViewCoins
  BY <2>1, <2>3 DEF ViewCoins
<2> QED BY <2>1, <2>3, <2>4 DEF Get, StackInv, FlatStep
(* A read of the tip by the mempool or an RPC call changes nothing.        *)
<1>TipGetStep.
  ASSUME StackInv, NEW o \in OutPoint, TipGet(o)
  PROVE  StackInv' /\ FlatStep
<2> USE <1>TipGetStep
<2>1. CacheOK(tipCache', db) /\ TipCoins' = TipCoins /\ db' = db
  BY <1>TipFetchOK DEF TipGet
<2> QED BY <2>1 DEF TipGet, StackInv, FlatStep, ViewCoins
(* Uncache changes nothing.                                                *)
<1>UncacheTipStep.
  ASSUME StackInv, NEW o \in OutPoint, UncacheTip(o)
  PROVE  StackInv' /\ FlatStep
<2> USE <1>UncacheTipStep
<2>1. CacheOK(tipCache', db) /\ TipCoins' = TipCoins /\ db' = db
  BY <1>UncacheOK DEF UncacheTip, StackInv, TipCoins
<2> QED BY <2>1 DEF UncacheTip, StackInv, FlatStep, ViewCoins
(* AddCoin is a write to the view of the block.                            *)
<1>AddStep.
  ASSUME StackInv, NEW o \in OutPoint, NEW coin \in Coin, NEW ow \in BOOLEAN, Add(o, coin, ow)
  PROVE  StackInv' /\ FlatStep
<2> USE <1>AddStep
<2>1. TipCoins \in CoinMap
  BY LookupType DEF TipCoins, StackInv, CacheOK
<2>2. /\ CacheOK(AddCoin(viewCache, o, coin, ow), TipCoins)
      /\ Lookup(AddCoin(viewCache, o, coin, ow), TipCoins) = [ViewCoins EXCEPT ![o] = coin]
      /\ ~AddCoinThrows(viewCache, o, ow)
  BY <2>1, <1>AddCoinOK, SMT DEF Add, StackInv, ViewCoins
<2>3. viewCache' = AddCoin(viewCache, o, coin, ow) /\ UNCHANGED <<db, tipCache, threw>>
  BY <2>2 DEF Add
<2>4. TipCoins' = TipCoins
  BY <2>3 DEF TipCoins
<2>5. ViewCoins' = [ViewCoins EXCEPT ![o] = coin]
  BY <2>2, <2>3, <2>4 DEF ViewCoins
<2>6. Flat!Set(o, coin)
  BY <2>3, <2>4, <2>5 DEF Flat!Set
<2> QED BY <2>2, <2>3, <2>4, <2>6 DEF StackInv, FlatStep, Flat!Next
(* SpendCoin is a removal from the view of the block.                      *)
<1>SpendStep.
  ASSUME StackInv, NEW o \in OutPoint, Spend(o)
  PROVE  StackInv' /\ FlatStep
<2> USE <1>SpendStep
<2> DEFINE d == FetchCoin(viewCache, o, TipCoins)
<2>1. CacheOK(tipCache', db) /\ TipCoins' = TipCoins /\ db' = db
  BY <1>TipFetchOK DEF Spend
<2>2. TipCoins \in CoinMap
  BY LookupType DEF TipCoins, StackInv, CacheOK
<2>3. CacheOK(d, TipCoins) /\ Lookup(d, TipCoins) = ViewCoins
  BY <2>2, FetchCoinOK DEF StackInv, ViewCoins
<2>4. d.cacheCoins[o] = NoEntry => TipCoins[o] = Spent
  <3>1. CASE viewCache.cacheCoins[o] # NoEntry \/ TipCoins[o] = Spent
    BY <3>1 DEF FetchCoin
  <3>2. CASE ~(viewCache.cacheCoins[o] # NoEntry \/ TipCoins[o] = Spent)
    <4>1. viewCache.cacheCoins \in [OutPoint -> Entry \cup {NoEntry}]
      BY DEF StackInv, CacheOK, IsCache
    <4>2. d.cacheCoins[o] = [coin |-> TipCoins[o], dirty |-> FALSE, fresh |-> FALSE]
      BY <3>2, <4>1 DEF FetchCoin, WithEntry
    <4>3. TipCoins[o] \in Coin \cup {Spent}
      BY <2>2 DEF CoinMap
    <4> QED BY <4>2, <4>3, EntryThere
  <3> QED BY <3>1, <3>2
<2>5. /\ CacheOK(SpendCoin(d, o), TipCoins)
      /\ Lookup(SpendCoin(d, o), TipCoins) = [ViewCoins EXCEPT ![o] = Spent]
  <3> HIDE DEF d
  <3> QED BY <2>2, <2>3, <2>4, <1>SpendCoinOK
<2>6. viewCache' = SpendCoin(d, o) /\ UNCHANGED <<db, threw>>
  BY DEF Spend
<2>7. ViewCoins' = [ViewCoins EXCEPT ![o] = Spent]
  BY <2>1, <2>5, <2>6 DEF ViewCoins
<2>8. Flat!Set(o, Spent)
  BY <2>1, <2>7 DEF Flat!Set
<2> QED BY <2>1, <2>5, <2>6, <2>8 DEF StackInv, FlatStep, Flat!Next
(* The Flush of the view commits it to the tip.                            *)
<1>FlushViewStep.
  ASSUME StackInv, FlushView
  PROVE  StackInv' /\ FlatStep
<2> USE <1>FlushViewStep
<2>1. /\ CacheOK(BatchWrite(tipCache, viewCache), db)
      /\ Lookup(BatchWrite(tipCache, viewCache), db) = ViewCoins
      /\ ~BatchWriteThrows(tipCache, viewCache)
  BY <1>BatchWriteOK DEF StackInv, TipCoins, ViewCoins
<2>2. /\ tipCache' = BatchWrite(tipCache, viewCache) /\ viewCache' = EmptyCache
      /\ UNCHANGED <<db, threw>>
  BY <2>1 DEF FlushView
<2>3. TipCoins' = ViewCoins
  BY <2>1, <2>2 DEF TipCoins
<2>4. ViewCoins \in CoinMap
  BY <2>1, LookupType DEF StackInv, CacheOK
<2>5. CacheOK(EmptyCache, ViewCoins) /\ Lookup(EmptyCache, ViewCoins) = ViewCoins
  BY <2>4, EmptyCacheOK
<2>6. ViewCoins' = ViewCoins
  <3>1. ViewCoins' = Lookup(viewCache', TipCoins')
    BY DEF ViewCoins
  <3> QED BY <2>2, <2>3, <2>5, <3>1
<2>7. Flat!Commit
  BY <2>2, <2>3, <2>6 DEF Flat!Commit
<2> QED BY <2>1, <2>2, <2>3, <2>5, <2>7 DEF StackInv, FlatStep, Flat!Next
(* Reset abandons the view.                                                *)
<1>ResetViewStep.
  ASSUME StackInv, ResetView
  PROVE  StackInv' /\ FlatStep
<2> USE <1>ResetViewStep
<2>1. TipCoins \in CoinMap
  BY LookupType DEF TipCoins, StackInv, CacheOK
<2>2. CacheOK(EmptyCache, TipCoins) /\ Lookup(EmptyCache, TipCoins) = TipCoins
  BY <2>1, EmptyCacheOK
<2>3. TipCoins' = TipCoins
  BY DEF ResetView, TipCoins
<2>4. ViewCoins' = TipCoins
  <3>1. ViewCoins' = Lookup(viewCache', TipCoins')
    BY DEF ViewCoins
  <3> QED BY <2>2, <2>3, <3>1 DEF ResetView
<2>5. Flat!Abandon
  BY <2>3, <2>4 DEF Flat!Abandon, ResetView
<2> QED BY <2>2, <2>3, <2>5 DEF ResetView, StackInv, FlatStep, Flat!Next
(* Flush and Sync of the tip: the database gets the tip's coins.           *)
<1>PersistStep.
  ASSUME StackInv, viewCache = EmptyCache, UNCHANGED <<viewCache, threw>>,
         db' = Written(db, tipCache),
         CacheOK(tipCache', TipCoins), Lookup(tipCache', TipCoins) = TipCoins
  PROVE  StackInv' /\ FlatStep
<2> USE <1>PersistStep
<2>1. TipCoins \in CoinMap
  BY LookupType DEF TipCoins, StackInv, CacheOK
<2>2. db' = TipCoins
  BY <1>WrittenOK DEF StackInv, TipCoins
<2>3. TipCoins' = TipCoins
  BY <2>2 DEF TipCoins
<2>4. ViewCoins' = ViewCoins
  BY <2>3 DEF ViewCoins
<2>5. Flat!Persist
  BY <2>2, <2>3, <2>4 DEF Flat!Persist
<2> QED BY <2>1, <2>2, <2>3, <2>5 DEF StackInv, FlatStep, Flat!Next
(* Flush of the tip empties its cache and persists it.                     *)
<1>FlushTipStep.
  ASSUME StackInv, FlushTip
  PROVE  StackInv' /\ FlatStep
<2> USE <1>FlushTipStep
<2>1. TipCoins \in CoinMap
  BY LookupType DEF TipCoins, StackInv, CacheOK
<2>2. CacheOK(Flushed(tipCache), TipCoins) /\ Lookup(Flushed(tipCache), TipCoins) = TipCoins
  BY <2>1, EmptyCacheOK DEF Flushed, CacheOK, IsCache, FlagsOK, Lookup
<2> QED BY <2>2, <1>PersistStep DEF FlushTip
(* Sync of the tip keeps its cache and persists it.                        *)
<1>SyncTipStep.
  ASSUME StackInv, SyncTip
  PROVE  StackInv' /\ FlatStep
<2> USE <1>SyncTipStep
<2>1. CacheOK(Synced(tipCache), TipCoins) /\ Lookup(Synced(tipCache), TipCoins) = TipCoins
  BY <1>SyncedOK DEF StackInv, TipCoins
<2> QED BY <2>1, <1>PersistStep DEF SyncTip
<1> SUFFICES ASSUME StackInv, [Next]_vars PROVE StackInv' /\ FlatStep
  OBVIOUS
<1>1. CASE UNCHANGED vars
  BY <1>1 DEF vars, StackInv, FlatStep, TipCoins, ViewCoins
<1>2. ASSUME NEW o \in OutPoint, Get(o) \/ TipGet(o) \/ Spend(o) \/ UncacheTip(o)
      PROVE  StackInv' /\ FlatStep
  BY <1>2, <1>GetStep, <1>TipGetStep, <1>SpendStep, <1>UncacheTipStep
<1> QED BY <1>1, <1>2, <1>AddStep, <1>FlushViewStep, <1>ResetViewStep, <1>FlushTipStep, <1>SyncTipStep DEF Next

(* The contract holds from the start and is preserved.                     *)
THEOREM StackInvHolds == Spec => []StackInv
<1>1. Init => StackInv
  <2> SUFFICES ASSUME Init PROVE StackInv
    OBVIOUS
  <2>1. db \in CoinMap /\ CacheOK(tipCache, db) /\ TipCoins = db
    BY EmptyCacheOK DEF Init, CoinMap, TipCoins
  <2> QED BY <2>1, EmptyCacheOK DEF Init, StackInv
<1> QED BY <1>1, StackStep, PTL DEF Spec

(* DIRTY and FRESH always mean what CCoinsCacheEntry says, and no          *)
(* std::logic_error is thrown, for any outpoints and coins.                *)
THEOREM FlagsContractHolds == Spec => []FlagsContract
<1>1. StackInv => FlagsContract
  BY DEF StackInv, CacheOK, FlagsContract
<1> QED BY <1>1, StackInvHolds, PTL

(* The two caches over the database implement three plain maps.            *)
THEOREM StackImplementsFlatCoins == Spec => ImplementsFlatCoins
<1>1. Init => Flat!Init
  <2> SUFFICES ASSUME Init PROVE Flat!Init
    OBVIOUS
  <2>1. db \in CoinMap /\ TipCoins = db
    BY EmptyCacheOK DEF Init, CoinMap, TipCoins
  <2>2. ViewCoins = db
    BY <2>1, EmptyCacheOK DEF Init, ViewCoins
  <2> QED BY <2>1, <2>2 DEF Flat!Init, Flat!Coins, CoinMap
<1>2. StackInv /\ [Next]_vars => [Flat!Next]_<<db, TipCoins, ViewCoins>>
  BY StackStep DEF FlatStep
<1> QED BY <1>1, <1>2, StackInvHolds, PTL DEF Spec, ImplementsFlatCoins, Flat!Spec

-----------------------------------------------------------------------------
(* SanityCheck.                                                            *)

EntrySane(e) ==
  e # NoEntry => IF e.coin = Spent THEN e.dirty /\ ~e.fresh ELSE e.fresh => e.dirty

DirtySet(c) == {o \in OutPoint : IsDirty(c.cacheCoins[o])}

(* Only finitely many entries are DIRTY, so that they can be counted.      *)
Sane(c) ==
  /\ \A o \in OutPoint : EntrySane(c.cacheCoins[o])
  /\ IsFiniteSet(DirtySet(c))
  /\ c.m_dirty_count = Cardinality(DirtySet(c))

SaneInv == Sane(tipCache) /\ Sane(viewCache)

(* A cache without entries counts none.                                    *)
LEMMA EmptySane == Sane(EmptyCache)
<1>1. DirtySet(EmptyCache) = {} /\ EmptyCache.m_dirty_count = 0
  BY DEF DirtySet, EmptyCache, IsDirty
<1> QED BY <1>1, FS_EmptySet DEF Sane, EntrySane, EmptyCache

(* CCoinsViewCache::SanityCheck passes for both caches after any sequence  *)
(* of calls on any outpoints: no spent entry is FRESH or clean, and        *)
(* m_dirty_count is the number of DIRTY entries.                           *)
THEOREM SanityCheckPasses == Spec => []SanityCheck
(* The count stays right when the entry's old flag is taken off it and its *)
(* new flag is put on, as every operation on one entry does.               *)
<1>WithEntrySane.
  ASSUME NEW c, IsCache(c), Sane(c), NEW o \in OutPoint, NEW e, EntrySane(e), NEW count,
         count = c.m_dirty_count - Dirty(IsDirty(c.cacheCoins[o])) + Dirty(IsDirty(e))
  PROVE  Sane(WithEntry(c, o, e, count))
<2> USE <1>WithEntrySane
<2> DEFINE d == WithEntry(c, o, e, count)
           D == DirtySet(c)
<2>1. /\ d.m_dirty_count = count
      /\ \A p \in OutPoint : d.cacheCoins[p] = IF p = o THEN e ELSE c.cacheCoins[p]
  BY DEF WithEntry, IsCache
<2>2. IsFiniteSet(D) /\ c.m_dirty_count = Cardinality(D) /\ Cardinality(D) \in Nat
  BY FS_CardinalityType DEF Sane
<2>3. /\ o \in D <=> IsDirty(c.cacheCoins[o])
      /\ DirtySet(d) = IF IsDirty(e) THEN D \cup {o} ELSE D \ {o}
  BY <2>1 DEF DirtySet
<2>4. \A p \in OutPoint : EntrySane(d.cacheCoins[p])
  BY <2>1 DEF Sane
<2> HIDE DEF d, D
<2>5. CASE IsDirty(e)
  <3>1. IsFiniteSet(DirtySet(d))
        /\ Cardinality(DirtySet(d)) = IF o \in D THEN Cardinality(D) ELSE Cardinality(D) + 1
    BY <2>2, <2>3, <2>5, FS_AddElement, SMT
  <3> QED BY <2>1, <2>2, <2>3, <2>4, <2>5, <3>1, SMT DEF Sane, Dirty, d
<2>6. CASE ~IsDirty(e)
  <3>1. IsFiniteSet(DirtySet(d))
        /\ Cardinality(DirtySet(d)) = IF o \in D THEN Cardinality(D) - 1 ELSE Cardinality(D)
    BY <2>2, <2>3, <2>6, FS_RemoveElement, SMT
  <3> QED BY <2>1, <2>2, <2>3, <2>4, <2>6, <3>1, SMT DEF Sane, Dirty, d
<2> QED BY <2>5, <2>6
(* The count is a number.                                                  *)
<1>CountType.
  ASSUME NEW c, Sane(c)
  PROVE  c.m_dirty_count \in Nat
BY <1>CountType, FS_CardinalityType DEF Sane
(* Fetching adds an unspent entry without a flag.                          *)
<1>FetchCoinSane.
  ASSUME NEW c, IsCache(c), Sane(c), NEW o \in OutPoint, NEW base \in CoinMap
  PROVE  Sane(FetchCoin(c, o, base))
<2> USE <1>FetchCoinSane
<2> DEFINE e == [coin |-> base[o], dirty |-> FALSE, fresh |-> FALSE]
<2>1. CASE c.cacheCoins[o] # NoEntry \/ base[o] = Spent
  BY <2>1 DEF FetchCoin
<2>2. CASE ~(c.cacheCoins[o] # NoEntry \/ base[o] = Spent)
  <3>1. FetchCoin(c, o, base) = WithEntry(c, o, e, c.m_dirty_count)
    BY <2>2 DEF FetchCoin
  <3>2. EntrySane(e) /\ ~IsDirty(e) /\ ~IsDirty(c.cacheCoins[o])
    BY <2>2 DEF EntrySane, IsDirty
  <3>3. c.m_dirty_count = c.m_dirty_count - Dirty(IsDirty(c.cacheCoins[o])) + Dirty(IsDirty(e))
    BY <3>2, <1>CountType, SMT DEF Dirty
  <3> HIDE DEF e
  <3> QED BY <3>1, <3>2, <3>3, <1>WithEntrySane
<2> QED BY <2>1, <2>2
(* Uncache takes away an entry that is not counted.                        *)
<1>UncacheSane.
  ASSUME NEW c, IsCache(c), Sane(c), NEW o \in OutPoint
  PROVE  Sane(Uncache(c, o))
<2> USE <1>UncacheSane
<2>1. CASE IsDirty(c.cacheCoins[o])
  BY <2>1 DEF Uncache
<2>2. CASE ~IsDirty(c.cacheCoins[o])
  <3>1. Uncache(c, o) = WithEntry(c, o, NoEntry, c.m_dirty_count)
    BY <2>2 DEF Uncache
  <3>2. EntrySane(NoEntry) /\ ~IsDirty(NoEntry)
    BY DEF EntrySane, IsDirty
  <3>3. c.m_dirty_count = c.m_dirty_count - Dirty(IsDirty(c.cacheCoins[o])) + Dirty(IsDirty(NoEntry))
    BY <2>2, <3>2, <1>CountType, SMT DEF Dirty
  <3> QED BY <3>1, <3>2, <3>3, <1>WithEntrySane
<2> QED BY <2>1, <2>2
(* AddCoin counts its entry once.                                          *)
<1>AddCoinSane.
  ASSUME NEW c, IsCache(c), Sane(c), NEW o \in OutPoint, NEW coin \in Coin, NEW ow \in BOOLEAN
  PROVE  Sane(AddCoin(c, o, coin, ow))
<2> USE <1>AddCoinSane
<2> DEFINE old == c.cacheCoins[o]
           fresh == IsFresh(old) \/ (~ow /\ ~IsDirty(old))
           e == [coin |-> coin, dirty |-> TRUE, fresh |-> fresh]
           n == c.m_dirty_count - Dirty(IsDirty(old)) + 1
<2>1. AddCoin(c, o, coin, ow) = WithEntry(c, o, e, n)
  BY DEF AddCoin
<2>2. fresh \in BOOLEAN
  BY DEF IsFresh, IsDirty, IsCache
<2>3. e # NoEntry /\ e.coin = coin /\ e.dirty = TRUE
  BY <2>2, EntryThere
<2>4. EntrySane(e) /\ IsDirty(e)
  BY <2>3, CacheAssumption DEF EntrySane, IsDirty
<2>5. n = c.m_dirty_count - Dirty(IsDirty(old)) + Dirty(IsDirty(e))
  BY <2>4, <1>CountType DEF Dirty
<2> HIDE DEF e, n
<2> QED BY <2>1, <2>4, <2>5, <1>WithEntrySane
(* SpendCoin counts the entry it keeps and no longer the one it drops.     *)
<1>SpendCoinSane.
  ASSUME NEW c, IsCache(c), Sane(c), NEW o \in OutPoint
  PROVE  Sane(SpendCoin(c, o))
<2> USE <1>SpendCoinSane
<2> DEFINE old == c.cacheCoins[o]
           n == c.m_dirty_count - Dirty(IsDirty(old))
           e == [coin |-> Spent, dirty |-> TRUE, fresh |-> FALSE]
<2>1. CASE old = NoEntry
  BY <2>1 DEF SpendCoin
<2>2. CASE old # NoEntry /\ old.fresh
  <3>1. SpendCoin(c, o) = WithEntry(c, o, NoEntry, n)
    BY <2>2 DEF SpendCoin
  <3>2. EntrySane(NoEntry) /\ ~IsDirty(NoEntry)
    BY DEF EntrySane, IsDirty
  <3>3. n = c.m_dirty_count - Dirty(IsDirty(old)) + Dirty(IsDirty(NoEntry))
    BY <3>2, <1>CountType, SMT DEF Dirty
  <3> HIDE DEF n
  <3> QED BY <3>1, <3>2, <3>3, <1>WithEntrySane
<2>3. CASE old # NoEntry /\ ~old.fresh
  <3>1. SpendCoin(c, o) = WithEntry(c, o, e, n + 1)
    BY <2>3 DEF SpendCoin
  <3>2. e # NoEntry /\ e.coin = Spent /\ e.dirty = TRUE /\ e.fresh = FALSE
    BY EntryThere
  <3>3. EntrySane(e) /\ IsDirty(e)
    BY <3>2 DEF EntrySane, IsDirty
  <3>4. n + 1 = c.m_dirty_count - Dirty(IsDirty(old)) + Dirty(IsDirty(e))
    BY <3>3, <1>CountType DEF Dirty
  <3> HIDE DEF n, e
  <3> QED BY <3>1, <3>3, <3>4, <1>WithEntrySane
<2> QED BY <2>1, <2>2, <2>3
(* BatchWrite's merged entries are sane, and the DIRTY ones it gains and   *)
(* loses are all that changes the count.                                   *)
<1>BatchWriteSane.
  ASSUME NEW parent, IsCache(parent), Sane(parent), NEW child, IsCache(child), Sane(child)
  PROVE  Sane(BatchWrite(parent, child))
<2> USE <1>BatchWriteSane
<2> DEFINE p(o) == parent.cacheCoins[o]
           c(o) == child.cacheCoins[o]
           new == [o \in OutPoint |-> Merged(p(o), c(o))]
           gained == {o \in OutPoint : IsDirty(new[o]) /\ ~IsDirty(p(o))}
           lost == {o \in OutPoint : ~IsDirty(new[o]) /\ IsDirty(p(o))}
           d == BatchWrite(parent, child)
           D == DirtySet(parent)
<2>1. /\ d.cacheCoins = new
      /\ d.m_dirty_count = parent.m_dirty_count + Cardinality(gained) - Cardinality(lost)
  BY DEF BatchWrite
<2>2. ASSUME NEW o \in OutPoint
      PROVE  EntrySane(new[o]) /\ (~IsDirty(c(o)) => new[o] = p(o))
  <3>1. /\ p(o) \in Entry \cup {NoEntry} /\ c(o) \in Entry \cup {NoEntry}
        /\ EntrySane(p(o)) /\ EntrySane(c(o))
    BY DEF IsCache, Sane
  <3>2. CASE ~IsDirty(c(o))
    BY <3>1, <3>2 DEF Merged
  <3>3. CASE IsDirty(c(o)) /\ p(o) = NoEntry
    <4>1. new[o] = IF c(o).fresh /\ c(o).coin = Spent THEN NoEntry
                   ELSE [coin |-> c(o).coin, dirty |-> TRUE, fresh |-> c(o).fresh]
      BY <3>3 DEF Merged, IsDirty
    <4> QED BY <3>3, <4>1, SMT DEF EntrySane
  <3>4. CASE IsDirty(c(o)) /\ p(o) # NoEntry
    <4>1. new[o] = IF p(o).fresh /\ c(o).coin = Spent THEN NoEntry
                   ELSE [coin |-> c(o).coin, dirty |-> TRUE, fresh |-> p(o).fresh]
      BY <3>4 DEF Merged, IsDirty
    <4> QED BY <3>4, <4>1, SMT DEF EntrySane
  <3> QED BY <3>2, <3>3, <3>4
<2>3. IsFiniteSet(D) /\ parent.m_dirty_count = Cardinality(D) /\ IsFiniteSet(DirtySet(child))
  BY DEF Sane
<2>4. gained \subseteq DirtySet(child) /\ gained \cap D = {} /\ lost \subseteq D
  BY <2>2 DEF DirtySet
<2>5. DirtySet(d) = (D \ lost) \cup gained
  BY <2>1 DEF DirtySet
<2>6. \A o \in OutPoint : EntrySane(d.cacheCoins[o])
  BY <2>1, <2>2
<2> HIDE DEF D, d, gained, lost, new
<2>7. IsFiniteSet(gained) /\ IsFiniteSet(lost) /\ IsFiniteSet(D \ lost)
  BY <2>3, <2>4, FS_Subset, FS_Difference
<2>8. D \cap lost = lost /\ (D \ lost) \cap gained = {}
  BY <2>4
<2>9. Cardinality(D \ lost) = Cardinality(D) - Cardinality(lost)
  <3>1. Cardinality(D \ lost) = Cardinality(D) - Cardinality(D \cap lost)
    BY <2>3, FS_Difference
  <3> QED BY <2>8, <3>1
<2>10. /\ IsFiniteSet(DirtySet(d))
       /\ Cardinality(DirtySet(d)) = Cardinality(D \ lost) + Cardinality(gained) - Cardinality({})
  BY <2>5, <2>7, <2>8, FS_Union, SMT
<2>11. /\ Cardinality(D) \in Nat /\ Cardinality(lost) \in Nat /\ Cardinality(gained) \in Nat
       /\ Cardinality({}) = 0
  BY <2>3, <2>7, FS_CardinalityType, FS_EmptySet
<2>12. d.m_dirty_count = Cardinality(DirtySet(d))
  BY <2>1, <2>3, <2>9, <2>10, <2>11, SMT
<2> QED BY <2>6, <2>10, <2>12 DEF Sane, d
(* The cursor has taken every DIRTY entry off the count.                   *)
<1>CleanSane.
  ASSUME NEW c, Sane(c)
  PROVE  Sane(Flushed(c)) /\ Sane(Synced(c))
<2> USE <1>CleanSane
<2>1. CountAfterCursor(c) = 0
  BY FS_CardinalityType, SMT DEF CountAfterCursor, Sane, DirtySet
<2>2. ASSUME NEW d \in {Flushed(c), Synced(c)} PROVE Sane(d)
  <3>1. d.m_dirty_count = 0
    BY <2>1, <2>2, SMT DEF Flushed, Synced
  <3>2. ASSUME NEW o \in OutPoint PROVE ~IsDirty(d.cacheCoins[o]) /\ EntrySane(d.cacheCoins[o])
    BY <2>2, <3>2, SMT DEF Flushed, Synced, EmptyCache, IsDirty, EntrySane, EntryCoin
  <3>3. DirtySet(d) = {}
    BY <3>2 DEF DirtySet
  <3> QED BY <3>1, <3>2, <3>3, FS_EmptySet DEF Sane
<2> QED BY <2>2
(* Every operation keeps both caches sane.                                 *)
<1>SaneStep. StackInv /\ SaneInv /\ [Next]_vars => SaneInv'
<2> SUFFICES ASSUME StackInv, SaneInv, [Next]_vars PROVE SaneInv'
  OBVIOUS
<2>1. /\ Sane(tipCache) /\ Sane(viewCache) /\ IsCache(tipCache) /\ IsCache(viewCache)
      /\ db \in CoinMap /\ TipCoins \in CoinMap
  BY LookupType DEF SaneInv, StackInv, CacheOK, TipCoins
<2>2. ASSUME NEW o \in OutPoint
      PROVE  Sane(FetchCoin(tipCache, o, db)) /\ Sane(FetchCoin(viewCache, o, TipCoins))
  BY <2>1, <1>FetchCoinSane
<2>3. ASSUME NEW o \in OutPoint, Get(o) \/ TipGet(o) PROVE SaneInv'
  BY <2>1, <2>2, <2>3 DEF Get, TipGet, SaneInv
<2>4. ASSUME NEW o \in OutPoint, Spend(o) PROVE SaneInv'
  <3>1. IsCache(FetchCoin(viewCache, o, TipCoins))
    BY <2>1, FetchCoinOK DEF StackInv, CacheOK
  <3>2. Sane(SpendCoin(FetchCoin(viewCache, o, TipCoins), o))
    BY <2>2, <3>1, <1>SpendCoinSane
  <3> QED BY <2>1, <2>2, <2>4, <3>2 DEF Spend, SaneInv
<2>5. ASSUME NEW o \in OutPoint, UncacheTip(o) PROVE SaneInv'
  BY <2>1, <2>5, <1>UncacheSane DEF UncacheTip, SaneInv
<2>6. ASSUME NEW o \in OutPoint, NEW coin \in Coin, NEW ow \in BOOLEAN, Add(o, coin, ow) PROVE SaneInv'
  <3>1. Sane(AddCoin(viewCache, o, coin, ow))
    BY <2>1, <1>AddCoinSane
  <3> QED BY <2>1, <2>6, <3>1 DEF Add, SaneInv
<2>7. CASE FlushView
  BY <2>1, <2>7, <1>BatchWriteSane, EmptySane DEF FlushView, SaneInv
<2>8. CASE ResetView
  BY <2>1, <2>8, EmptySane DEF ResetView, SaneInv
<2>9. CASE FlushTip \/ SyncTip
  BY <2>1, <2>9, <1>CleanSane DEF FlushTip, SyncTip, SaneInv
<2>10. CASE UNCHANGED vars
  BY <2>1, <2>10 DEF vars, SaneInv
<2> QED BY <2>3, <2>4, <2>5, <2>6, <2>7, <2>8, <2>9, <2>10 DEF Next
<1>1. Init => SaneInv
  BY EmptySane DEF Init, SaneInv
<1>2. SaneInv => SanityCheck
  BY DEF SaneInv, Sane, EntrySane, DirtySet, SanityCheck
<1> QED BY <1>1, <1>2, <1>SaneStep, StackInvHolds, PTL DEF Spec

-----------------------------------------------------------------------------
(* Fetching on the thread pool, for any number of workers and any blocks:  *)
(* the tasks of a block are counted, so m_inputs changes hands only when   *)
(* none is left, and what the main thread reads is the base view's answer. *)

Input == [outpoint : Prevout, coin : Prevout \cup {nullopt}, ready : BOOLEAN]

FetchType ==
  /\ m_work_queue \in Nat /\ m_futures \in Nat /\ finished \in Nat
  /\ m_inputs \in Seq(Input)
  /\ m_input_head \in Nat \ {0} /\ m_input_tail \in 1 .. Len(m_inputs) + 1
  /\ thread \in [Thread -> {"idle", "claim", "fetch", "ready", "drain", "join", "exited"}]
  /\ claimed \in [Thread -> Nat]
  /\ main \in {"idle", "submit", "connect", "wait", "stop", "clear"}
  /\ m_workers \in BOOLEAN

(* The threads in a task.                                                  *)
Busy == {t \in Thread : thread[t] \in {"claim", "fetch", "ready"}}

(* Every future's task is queued, running or finished, and there are       *)
(* futures only while a block is connected.  Start finds no worker left.   *)
TasksCounted ==
  /\ m_futures = finished + m_work_queue + Cardinality(Busy)
  /\ m_futures = 0 => /\ m_input_head = 1 /\ m_input_tail = 1
                      /\ main # "submit" => m_inputs = <<>>
  /\ main \in {"idle", "submit"} => m_futures = 0
  /\ main = "wait" => m_input_tail > 1
  /\ (thread[Controller] = "idle" /\ ~m_workers) => \A w \in Worker : thread[w] = "exited"

(* Inputs below the head were claimed, each by one thread.                 *)
InputsClaimed ==
  /\ \A t \in Thread : thread[t] \in {"fetch", "ready"} <=> claimed[t] # 0
  /\ \A t \in Thread : claimed[t] # 0 =>
       /\ claimed[t] <= Len(m_inputs) /\ claimed[t] < m_input_head
       /\ ~m_inputs[claimed[t]].ready
       /\ thread[t] = "ready" => m_inputs[claimed[t]].coin = PeekCoin(m_inputs[claimed[t]].outpoint)
  /\ \A t, u \in Thread : (claimed[t] # 0 /\ claimed[t] = claimed[u]) => t = u
  /\ \A i \in 1 .. Len(m_inputs) : m_inputs[i].ready =>
       i < m_input_head /\ m_inputs[i].coin = PeekCoin(m_inputs[i].outpoint)

FetchInv == FetchType /\ TasksCounted /\ InputsClaimed /\ FetchedFromBase

-----------------------------------------------------------------------------
(* The inputs of a block, and those the loop of StartFetching queues.      *)

(* A set of naturals has a least element.                                  *)
LEMMA LeastNat ==
  ASSUME NEW H \in SUBSET Nat, H # {}
  PROVE  \E n \in H : \A m \in H : n <= m
<1>1. \E n \in H : \A m \in H : ~(<<m, n>> \in OpToRel(<, Nat))
  BY NatLessThanWellFounded, WFMin
<1>2. ASSUME NEW m \in Nat, NEW n \in Nat, m < n PROVE <<m, n>> \in OpToRel(<, Nat)
  BY <1>2 DEF OpToRel
<1>3. \E n \in H : \A m \in H : ~(m < n)
  BY <1>1, <1>2
<1> QED BY <1>3, SMT

(* Induction up to a bound, for a set of numbers.                          *)
LEMMA UpTo ==
  ASSUME NEW N \in Nat, NEW G, 0 \in G, \A n \in 0 .. N : n < N /\ n \in G => n + 1 \in G
  PROVE  0 .. N \subseteq G
<1> DEFINE H == {n \in 0 .. N : n \notin G}
<1> SUFFICES ASSUME H # {} PROVE FALSE
  OBVIOUS
<1>1. PICK n \in H : \A m \in H : n <= m
  <2>1. H \in SUBSET Nat
    BY SMT
  <2> HIDE DEF H
  <2> QED BY <2>1, LeastNat
<1>2. n # 0 /\ n - 1 \in 0 .. N /\ n - 1 < N /\ n - 1 + 1 = n
  BY <1>1, SMT
<1>3. n - 1 \in G
  BY <1>1, <1>2, SMT
<1> QED BY <1>1, <1>2, <1>3

In == [tx : Nat, prevout : Prevout]

(* What ConnectBlock goes through are inputs.                              *)
LEMMA InputsType ==
  ASSUME NEW b \in Blocks
  PROVE  Inputs(b) \in Seq(In)
<1> DEFINE N == Len(b)
           ins == [k \in DOMAIN b |-> [i \in DOMAIN b[k].vin |-> [tx |-> k, prevout |-> b[k].vin[i]]]]
           Step(f, k) == IF k = 0 THEN <<>> ELSE f[k - 1] \o ins[k]
           G == {n \in Nat : \E f \in [0 .. n -> Seq(In)] : \A i \in 0 .. n : f[i] = Step(f, i)}
<1>0. N \in Nat /\ DOMAIN b = 1 .. N /\ \A k \in DOMAIN b : b[k].vin \in Seq(Prevout)
  BY BlockAssumption
<1>1. ASSUME NEW k \in 1 .. N PROVE ins[k] \in Seq(In)
  <2> DEFINE vin == b[k].vin
  <2>1. vin \in Seq(Prevout) /\ k \in Nat
    BY <1>0, <1>1, SMT
  <2>2. ins[k] = [i \in DOMAIN vin |-> [tx |-> k, prevout |-> vin[i]]]
    BY <1>0
  <2> HIDE DEF vin, ins
  <2>3. DOMAIN vin = 1 .. Len(vin) /\ Len(vin) \in Nat /\ \A i \in DOMAIN vin : vin[i] \in Prevout
    BY <2>1, SMT
  <2>4. ASSUME NEW i \in DOMAIN vin PROVE [tx |-> k, prevout |-> vin[i]] \in In
    BY <2>1, <2>3 DEF In
  <2>5. ins[k] \in [1 .. Len(vin) -> In]
    BY <2>2, <2>3, <2>4
  <2> QED BY <2>3, <2>5, SMT
<1>2. 0 \in G
  <2>1. [i \in 0 .. 0 |-> <<>>] \in [0 .. 0 -> Seq(In)] /\ \A i \in 0 .. 0 : i = 0
    BY SMT
  <2> QED BY <2>1
<1> HIDE DEF ins
<1>3. ASSUME NEW n \in 0 .. N, n < N, n \in G PROVE n + 1 \in G
  <2>1. PICK f \in [0 .. n -> Seq(In)] : \A i \in 0 .. n : f[i] = Step(f, i)
    BY <1>3
  <2> DEFINE g == [i \in 0 .. n + 1 |-> IF i <= n THEN f[i] ELSE Step(f, n + 1)]
  <2>2. Step(f, n + 1) \in Seq(In)
    <3>1. f[n] \in Seq(In) /\ n + 1 \in 1 .. N /\ (n + 1) - 1 = n /\ n + 1 # 0
      BY <1>0, <1>3, <2>1, SMT
    <3>2. ins[n + 1] \in Seq(In)
      BY <1>1, <3>1
    <3> QED BY <3>1, <3>2, SMT
  <2> HIDE DEF N
  <2>3. g \in [0 .. n + 1 -> Seq(In)]
    <3> HIDE DEF Step
    <3> QED BY <1>0, <1>3, <2>1, <2>2, SMT
  <2>4. ASSUME NEW i \in 0 .. n + 1 PROVE g[i] = Step(g, i)
    <3>1. i # 0 => g[i - 1] = f[i - 1]
      <4> HIDE DEF Step
      <4> QED BY <1>0, <1>3, SMT
    <3>2. Step(g, i) = Step(f, i)
      <4> HIDE DEF g
      <4> QED BY <3>1
    <3>3. CASE i <= n
      <4>1. i \in 0 .. n /\ g[i] = f[i]
        <5> HIDE DEF Step
        <5> QED BY <1>0, <1>3, <3>3, SMT
      <4> QED BY <2>1, <3>2, <4>1
    <3>4. CASE ~(i <= n)
      <4>1. i = n + 1
        BY <1>0, <1>3, <3>4, SMT
      <4>2. g[i] = Step(f, n + 1)
        <5> HIDE DEF Step
        <5> QED BY <1>0, <1>3, <3>4
      <4> QED BY <3>2, <4>1, <4>2, SMT
    <3> QED BY <3>3, <3>4
  <2>5. \E h \in [0 .. n + 1 -> Seq(In)] : \A i \in 0 .. n + 1 : h[i] = Step(h, i)
    <3> HIDE DEF g
    <3> QED BY <2>3, <2>4
  <2>6. n + 1 \in Nat
    BY <1>0, <1>3, SMT
  <2> HIDE DEF Step
  <2> QED BY <2>5, <2>6
<1>4. N \in G
  <2> HIDE DEF N, G
  <2>1. 0 .. N \subseteq G
    BY <1>0, <1>2, <1>3, UpTo
  <2> QED BY <1>0, <2>1, SMT
<1>5. PICK f \in [0 .. N -> Seq(In)] : \A i \in 0 .. N : f[i] = Step(f, i)
  BY <1>4
<1>6. f = [i \in 0 .. N |-> Step(f, i)]
  <2> HIDE DEF Step, N
  <2> QED BY <1>5
<1> DEFINE inputs == CHOOSE h : h = [i \in 0 .. N |-> Step(h, i)]
<1>7. inputs = [i \in 0 .. N |-> Step(inputs, i)]
  BY <1>6
<1>8. Inputs(b) = inputs[N]
  BY DEF Inputs, ins
<1> HIDE DEF N, inputs
<1>9. ASSUME NEW n \in 0 .. N PROVE inputs[n] = Step(inputs, n)
  <2> HIDE DEF Step
  <2> QED BY <1>7, <1>9
<1> DEFINE GF == {n \in Nat : n > N \/ inputs[n] \in Seq(In)}
<1>10. 0 .. N \subseteq GF
  <2>1. 0 \in GF
    <3>1. inputs[0] = <<>> /\ <<>> \in Seq(In)
      BY <1>0, <1>9, SMT
    <3> QED BY <3>1
  <2>2. ASSUME NEW n \in 0 .. N, n < N, n \in GF PROVE n + 1 \in GF
    <3>1. n + 1 \in 1 .. N /\ n + 1 \in 0 .. N /\ (n + 1) - 1 = n /\ n + 1 # 0 /\ inputs[n] \in Seq(In)
      BY <1>0, <2>2, SMT
    <3>2. inputs[n + 1] = inputs[n] \o ins[n + 1]
      <4>1. inputs[n + 1] = Step(inputs, n + 1)
        <5> HIDE DEF Step
        <5> QED BY <1>9, <3>1
      <4>2. inputs[(n + 1) - 1] = inputs[n]
        BY <3>1
      <4> QED BY <3>1, <4>1, <4>2
    <3>3. ins[n + 1] \in Seq(In)
      BY <1>1, <3>1
    <3>4. inputs[n + 1] \in Seq(In)
      BY <3>1, <3>2, <3>3, SMT
    <3> QED BY <3>1, <3>4, SMT
  <2> HIDE DEF GF
  <2> QED BY <1>0, <2>1, <2>2, UpTo
<1> QED BY <1>0, <1>8, <1>10, SMT

(* The loop that queues the inputs goes from one to the next.              *)
LEMMA QueuedFacts ==
  ASSUME NEW b \in Blocks
  PROVE  /\ Queued(b) \in [0 .. Len(Inputs(b)) -> Seq(In)]
         /\ Queued(b)[0] = <<>>
         /\ \A n \in 1 .. Len(Inputs(b)) :
              Queued(b)[n] = IF FromBlock(b, Inputs(b)[n]) THEN Queued(b)[n - 1]
                             ELSE Append(Queued(b)[n - 1], Inputs(b)[n])
         /\ ToFetch(b) \in Seq(In)
<1> DEFINE s == Inputs(b)
           N == Len(s)
           Step(f, n) == IF n = 0 THEN <<>>
                         ELSE IF FromBlock(b, s[n]) THEN f[n - 1] ELSE Append(f[n - 1], s[n])
           G == {n \in Nat : \E f \in [0 .. n -> Seq(In)] : \A i \in 0 .. n : f[i] = Step(f, i)}
<1>0. N \in Nat /\ \A i \in 1 .. N : s[i] \in In
  BY InputsType, SMT
<1>1. 0 \in G
  <2>1. [i \in 0 .. 0 |-> <<>>] \in [0 .. 0 -> Seq(In)] /\ \A i \in 0 .. 0 : i = 0
    BY SMT
  <2> QED BY <2>1
<1>2. ASSUME NEW n \in 0 .. N, n < N, n \in G PROVE n + 1 \in G
  <2>1. PICK f \in [0 .. n -> Seq(In)] : \A i \in 0 .. n : f[i] = Step(f, i)
    BY <1>2
  <2> DEFINE g == [i \in 0 .. n + 1 |-> IF i <= n THEN f[i] ELSE Step(f, n + 1)]
  <2>2. Step(f, n + 1) \in Seq(In)
    <3>1. f[n] \in Seq(In) /\ s[n + 1] \in In /\ n + 1 - 1 = n /\ n + 1 # 0
      BY <1>0, <1>2, <2>1, SMT
    <3> HIDE DEF s
    <3> QED BY <3>1, SMT
  <2> HIDE DEF s, N
  <2>3. g \in [0 .. n + 1 -> Seq(In)]
    <3> HIDE DEF Step
    <3> QED BY <1>0, <1>2, <2>1, <2>2, SMT
  <2>4. ASSUME NEW i \in 0 .. n + 1 PROVE g[i] = Step(g, i)
    <3>1. i # 0 => g[i - 1] = f[i - 1]
      <4> HIDE DEF Step
      <4> QED BY <1>0, <1>2, SMT
    <3>2. Step(g, i) = Step(f, i)
      <4> HIDE DEF g
      <4> QED BY <3>1
    <3>3. CASE i <= n
      <4>1. i \in 0 .. n /\ g[i] = f[i]
        <5> HIDE DEF Step
        <5> QED BY <1>0, <1>2, <3>3, SMT
      <4> QED BY <2>1, <3>2, <4>1
    <3>4. CASE ~(i <= n)
      <4>1. i = n + 1
        BY <1>0, <1>2, <3>4, SMT
      <4>2. g[i] = Step(f, n + 1)
        <5> HIDE DEF Step
        <5> QED BY <1>0, <1>2, <3>4
      <4> QED BY <3>2, <4>1, <4>2, SMT
    <3> QED BY <3>3, <3>4
  <2>5. \E h \in [0 .. n + 1 -> Seq(In)] : \A i \in 0 .. n + 1 : h[i] = Step(h, i)
    <3> HIDE DEF g
    <3> QED BY <2>3, <2>4
  <2>6. n + 1 \in Nat
    BY <1>0, <1>2, SMT
  <2> HIDE DEF Step
  <2> QED BY <2>5, <2>6
<1>3. N \in G
  <2> HIDE DEF N, G
  <2>1. 0 .. N \subseteq G
    BY <1>0, <1>1, <1>2, UpTo
  <2> QED BY <1>0, <2>1, SMT
<1>4. PICK f \in [0 .. N -> Seq(In)] : \A i \in 0 .. N : f[i] = Step(f, i)
  BY <1>3
<1>5. f = [i \in 0 .. N |-> Step(f, i)]
  <2> HIDE DEF Step, N
  <2> QED BY <1>4
<1>6. Queued(b) = [i \in 0 .. N |-> Step(Queued(b), i)]
  BY <1>5 DEF Queued
<1> DEFINE GF == {n \in Nat : n > N \/ Queued(b)[n] \in Seq(In)}
<1> HIDE DEF s, N
<1>7. ASSUME NEW n \in 0 .. N PROVE Queued(b)[n] = Step(Queued(b), n)
  <2> HIDE DEF Step
  <2> QED BY <1>6, <1>7
<1>8. Queued(b)[0] = <<>>
  BY <1>0, <1>7, SMT
<1>9. ASSUME NEW n \in 1 .. N
      PROVE  Queued(b)[n] = IF FromBlock(b, s[n]) THEN Queued(b)[n - 1] ELSE Append(Queued(b)[n - 1], s[n])
  <2>1. n \in 0 .. N /\ n # 0
    BY <1>0, SMT
  <2> QED BY <1>7, <2>1
<1>10. 0 .. N \subseteq GF
  <2>1. 0 \in GF
    <3>1. <<>> \in Seq(In)
      BY SMT
    <3> QED BY <1>8, <3>1
  <2>2. ASSUME NEW n \in 0 .. N, n < N, n \in GF PROVE n + 1 \in GF
    <3>1. n + 1 \in 1 .. N /\ n + 1 - 1 = n /\ Queued(b)[n] \in Seq(In)
      BY <1>0, <2>2, SMT
    <3>2. Queued(b)[n + 1] = Queued(b)[n] \/ Queued(b)[n + 1] = Append(Queued(b)[n], s[n + 1])
      <4>1. Queued(b)[n + 1] = IF FromBlock(b, s[n + 1]) THEN Queued(b)[n + 1 - 1]
                               ELSE Append(Queued(b)[n + 1 - 1], s[n + 1])
        BY <1>9, <3>1, SMT
      <4> QED BY <3>1, <4>1
    <3>3. Append(Queued(b)[n], s[n + 1]) \in Seq(In)
      BY <1>0, <3>1, SMT
    <3>4. Queued(b)[n + 1] \in Seq(In)
      BY <3>1, <3>2, <3>3
    <3> QED BY <3>1, <3>4, SMT
  <2> HIDE DEF GF
  <2> QED BY <1>0, <2>1, <2>2, UpTo
<1>11. \A n \in 0 .. N : Queued(b)[n] \in Seq(In)
  BY <1>0, <1>10, SMT
<1>12. Queued(b) \in [0 .. N -> Seq(In)]
  <2> HIDE DEF Step
  <2> QED BY <1>6, <1>11
<1>13. ToFetch(b) \in Seq(In)
  BY <1>0, <1>11, SMT DEF ToFetch, N, s
<1> QED BY <1>8, <1>9, <1>12, <1>13 DEF N, s

(* What is queued after n inputs stays in front of what comes later.       *)
LEMMA QueuedInFront ==
  ASSUME NEW b \in Blocks, NEW n \in 0 .. Len(Inputs(b))
  PROVE  /\ Len(Queued(b)[n]) <= Len(ToFetch(b))
         /\ \A i \in 1 .. Len(Queued(b)[n]) : ToFetch(b)[i] = Queued(b)[n][i]
<1> DEFINE N == Len(Inputs(b))
           q == Queued(b)
           Kept(m) == Len(q[n]) <= Len(q[m]) /\ \A i \in 1 .. Len(q[n]) : q[m][i] = q[n][i]
           G == {k \in Nat : n + k > N \/ Kept(n + k)}
<1>0. N \in Nat /\ n \in 0 .. N /\ q \in [0 .. N -> Seq(In)] /\ \A i \in 1 .. N : Inputs(b)[i] \in In
  BY InputsType, QueuedFacts, SMT
<1>1. \A m \in 1 .. N : q[m] = q[m - 1] \/ q[m] = Append(q[m - 1], Inputs(b)[m])
  BY QueuedFacts
<1> HIDE DEF q, N
<1>2. 0 \in G
  BY <1>0, SMT
<1>3. ASSUME NEW k \in 0 .. N - n, k < N - n, k \in G PROVE k + 1 \in G
  <2>1. /\ n + k \in 0 .. N /\ n + k + 1 \in 1 .. N /\ n + k + 1 - 1 = n + k /\ n + (k + 1) = n + k + 1
        /\ k + 1 \in Nat
    BY <1>0, <1>3, SMT
  <2>2. Kept(n + k)
    BY <1>0, <1>3, <2>1, SMT
  <2>3. q[n] \in Seq(In) /\ q[n + k] \in Seq(In) /\ Inputs(b)[n + k + 1] \in In
    BY <1>0, <2>1
  <2>4. q[n + k + 1] = q[n + k] \/ q[n + k + 1] = Append(q[n + k], Inputs(b)[n + k + 1])
    BY <1>1, <2>1, SMT
  <2>5. Kept(n + k + 1)
    <3> DEFINE old == q[n + k]
               new == q[n + k + 1]
               x == Inputs(b)[n + k + 1]
    <3>1. /\ old \in Seq(In) /\ q[n] \in Seq(In) /\ x \in In /\ (new = old \/ new = Append(old, x))
          /\ Len(q[n]) <= Len(old) /\ \A i \in 1 .. Len(q[n]) : old[i] = q[n][i]
      BY <2>2, <2>3, <2>4
    <3> HIDE DEF old, new, x
    <3>2. Len(old) <= Len(new) /\ \A i \in 1 .. Len(old) : new[i] = old[i]
      BY <3>1, SMT
    <3>3. Len(q[n]) \in Nat /\ Len(old) \in Nat /\ Len(new) \in Nat
      BY <3>1, SMT
    <3>4. Len(q[n]) <= Len(new) /\ \A i \in 1 .. Len(q[n]) : new[i] = q[n][i]
      BY <3>1, <3>2, <3>3, SMT
    <3> QED BY <3>4 DEF new
  <2> QED BY <2>1, <2>5
<1>4. N - n \in Nat /\ n + (N - n) = N
  BY <1>0, SMT
<1>5. N - n \in G
  <2> DEFINE K == N - n
  <2>1. K \in Nat /\ \A k \in 0 .. K : k < K /\ k \in G => k + 1 \in G
    BY <1>3, <1>4
  <2> HIDE DEF K, G
  <2>2. 0 .. K \subseteq G
    BY <1>2, <2>1, UpTo
  <2> QED BY <2>1, <2>2, SMT DEF K
<1>6. Kept(N)
  <2> HIDE DEF Kept
  <2> QED BY <1>0, <1>4, <1>5, SMT
<1> QED BY <1>6 DEF ToFetch, q, N

-----------------------------------------------------------------------------
(* The threads in a task can be counted.                                   *)
LEMMA BusyFinite ==
  ASSUME NEW S \in SUBSET Thread
  PROVE  IsFiniteSet(S) /\ Cardinality(S) \in Nat
<1>1. IsFiniteSet(Thread)
  BY BlockAssumption, FS_AddElement DEF Thread
<1> QED BY <1>1, FS_Subset, FS_CardinalityType

(* Without futures no task is queued or running.                           *)
LEMMA NoTasks ==
  ASSUME FetchType, TasksCounted, finished = m_futures
  PROVE  m_work_queue = 0 /\ Busy = {}
<1>1. IsFiniteSet(Busy) /\ Cardinality(Busy) \in Nat
  BY BusyFinite DEF Busy
<1>a. m_futures \in Nat /\ finished \in Nat /\ m_work_queue \in Nat
  BY DEF FetchType
<1>b. finished = finished + m_work_queue + Cardinality(Busy)
  BY DEF TasksCounted
<1>2. m_work_queue = 0 /\ Cardinality(Busy) = 0
  BY <1>1, <1>a, <1>b, SMT
<1> QED BY <1>1, <1>2, FS_EmptySet

(* A thread begins or ends a task.                                         *)
LEMMA BusyChange ==
  ASSUME NEW t \in Thread
  PROVE  /\ t \notin Busy => Cardinality(Busy \cup {t}) = Cardinality(Busy) + 1
         /\ t \in Busy => Cardinality(Busy \ {t}) = Cardinality(Busy) - 1
<1>1. IsFiniteSet(Busy)
  BY BusyFinite DEF Busy
<1> QED BY <1>1, FS_AddElement, FS_RemoveElement

(* The claims stay when no claimed input and no thread in a task changes.  *)
LEMMA ClaimsFrame ==
  ASSUME FetchType, InputsClaimed, UNCHANGED <<claimed, m_inputs, m_input_head>>,
         thread' \in [Thread -> {"idle", "claim", "fetch", "ready", "drain", "join", "exited"}],
         \A t \in Thread : thread'[t] = thread[t] \/ ({thread[t], thread'[t]} \cap {"fetch", "ready"} = {})
  PROVE  InputsClaimed'
BY DEF FetchType, InputsClaimed

-----------------------------------------------------------------------------
(* ThreadPool.                                                             *)

(* Taking a task moves it from the queue to a thread.                      *)
LEMMA TakeOK ==
  ASSUME FetchInv, NEW t \in Thread, thread[t] \in {"idle", "drain"},
         ~(thread[Controller] = "idle" /\ ~m_workers /\ t \in Worker),
         m_work_queue > 0, m_work_queue' = m_work_queue - 1,
         thread' = [thread EXCEPT ![t] = "claim"],
         UNCHANGED <<m_workers, claimed, fetchVars, mainVars>>
  PROVE  FetchInv'
<1> USE DEF FetchInv, fetchVars, mainVars
<1>1. FetchType'
  BY SMT DEF FetchType
<1>2. TasksCounted'
  <2>1. t \notin Busy /\ Busy' = Busy \cup {t}
    BY DEF Busy, FetchType
  <2>2. Cardinality(Busy') = Cardinality(Busy) + 1 /\ Cardinality(Busy) \in Nat
    BY <2>1, BusyChange, BusyFinite DEF Busy
  <2>3. (thread'[Controller] = "idle" /\ ~m_workers') => \A w \in Worker : thread'[w] = "exited"
    BY DEF TasksCounted, FetchType, Thread
  <2> QED BY <2>2, <2>3, SMT DEF TasksCounted, FetchType
<1>3. InputsClaimed'
  BY <1>1, ClaimsFrame DEF FetchType
<1> QED BY <1>1, <1>2, <1>3 DEF FetchedFromBase

(* A thread outside a task goes to another place outside a task.           *)
LEMMA IdleOK ==
  ASSUME FetchInv, UNCHANGED <<m_work_queue, claimed, fetchVars, mainVars>>, m_workers' \in BOOLEAN,
         thread' \in [Thread -> {"idle", "claim", "fetch", "ready", "drain", "join", "exited"}],
         \A t \in Thread : \/ thread'[t] = thread[t]
                           \/ {thread[t], thread'[t]} \cap {"claim", "fetch", "ready"} = {},
         (thread'[Controller] = "idle" /\ ~m_workers') => \A w \in Worker : thread'[w] = "exited"
  PROVE  FetchInv'
<1> USE DEF FetchInv, fetchVars, mainVars
<1>1. FetchType'
  BY DEF FetchType
<1>2. Busy' = Busy
  BY DEF Busy
<1>3. TasksCounted'
  BY <1>2 DEF TasksCounted
<1>4. InputsClaimed'
  BY ClaimsFrame
<1> QED BY <1>1, <1>3, <1>4 DEF FetchedFromBase

(* The workers, Interrupt, Stop and Start.                                 *)
LEMMA PoolOK ==
  ASSUME FetchInv, (\E w \in Worker : WorkerStep(w)) \/ Interrupt \/ StopBegin \/ StopStep \/ Start
  PROVE  FetchInv'
<1> USE DEF Thread
<1>0. FetchType /\ TasksCounted /\ Controller \notin Worker
  BY BlockAssumption DEF FetchInv
<1>1. ASSUME NEW w \in Worker, TakeTask(w) PROVE FetchInv'
  BY <1>0, <1>1, TakeOK DEF TakeTask, TasksCounted
<1>2. ASSUME NEW w \in Worker, WorkerExit(w) PROVE FetchInv'
  BY <1>0, <1>2, IdleOK DEF WorkerExit, poolVars, FetchType, TasksCounted
<1>3. CASE Interrupt
  BY <1>0, <1>3, IdleOK DEF Interrupt, threadVars, FetchType, TasksCounted
<1>4. CASE StopBegin
  BY <1>0, <1>4, IdleOK DEF StopBegin, FetchType
<1>5. CASE StopDrain
  <2>1. CASE m_work_queue > 0
    BY <1>0, <1>5, <2>1, TakeOK DEF StopDrain
  <2>2. CASE ~(m_work_queue > 0)
    BY <1>0, <1>5, <2>2, IdleOK DEF StopDrain, FetchType
  <2> QED BY <2>1, <2>2
<1>6. CASE StopJoin
  BY <1>0, <1>6, IdleOK DEF StopJoin, FetchType
<1>7. CASE Start
  <2>1. \A t \in Thread : thread[t] \in {"idle", "exited"}
    BY <1>0, <1>7 DEF Start, TasksCounted
  <2> QED BY <1>7, <2>1, IdleOK DEF Start
<1> QED BY <1>1, <1>2, <1>3, <1>4, <1>5, <1>6, <1>7 DEF WorkerStep, StopStep

-----------------------------------------------------------------------------
(* The tasks.                                                              *)

(* A thread that claims the next input.                                    *)
LEMMA ClaimOK ==
  ASSUME FetchInv, NEW t \in Thread, Claim(t)
  PROVE  FetchInv'
<1> USE DEF FetchInv, poolVars, mainVars
<1>0. /\ m_input_head \in Nat \ {0} /\ Len(m_inputs) \in Nat /\ t \in Busy /\ claimed[t] = 0
      /\ Cardinality(Busy) \in Nat /\ Cardinality(Busy) > 0 /\ m_futures # 0
  <2>1. t \in Busy /\ claimed[t] = 0
    BY DEF Claim, Busy, InputsClaimed
  <2>2. Cardinality(Busy) \in Nat /\ Cardinality(Busy) # 0
    BY <2>1, BusyFinite, FS_EmptySet DEF Busy
  <2> QED BY <2>1, <2>2, SMT DEF FetchType, TasksCounted
<1>1. CASE m_input_head <= Len(m_inputs)
  <2>1. /\ m_input_head' = m_input_head + 1 /\ claimed' = [claimed EXCEPT ![t] = m_input_head]
        /\ thread' = [thread EXCEPT ![t] = "fetch"] /\ thread[t] = "claim"
        /\ UNCHANGED <<finished, m_work_queue, m_workers, m_inputs, m_input_tail, m_futures, main, fetched>>
    BY <1>1 DEF Claim
  <2>2. FetchType'
    BY <2>1, SMT DEF FetchType
  <2>3. Busy' = Busy
    BY <2>1 DEF Busy, FetchType
  <2>4. TasksCounted'
    BY <1>0, <2>1, <2>3, BlockAssumption DEF TasksCounted, FetchType, Thread
  <2>5. InputsClaimed'
    <3>1. InputsClaimed /\ claimed \in [Thread -> Nat] /\ DOMAIN thread = Thread
      BY DEF FetchType
    <3> HIDE DEF FetchInv
    <3> QED BY <1>0, <1>1, <2>1, <3>1, SMTT(30) DEF InputsClaimed
  <2> QED BY <2>1, <2>2, <2>4, <2>5 DEF FetchedFromBase
<1>2. CASE ~(m_input_head <= Len(m_inputs))
  <2>1. /\ m_input_head' = m_input_head + 1 /\ claimed' = [claimed EXCEPT ![t] = 0]
        /\ thread' = [thread EXCEPT ![t] = TaskDone(t)] /\ thread[t] = "claim" /\ finished' = finished + 1
        /\ UNCHANGED <<m_work_queue, m_workers, m_inputs, m_input_tail, m_futures, main, fetched>>
    BY <1>2 DEF Claim
  <2>2. claimed' = claimed /\ TaskDone(t) \in {"idle", "drain"} /\ (t = Controller => TaskDone(t) = "drain")
    BY <1>0, <2>1 DEF FetchType, TaskDone
  <2>3. FetchType'
    BY <2>1, <2>2, SMT DEF FetchType
  <2>4. Busy' = Busy \ {t}
    BY <2>1, <2>2 DEF Busy, FetchType
  <2>5. Cardinality(Busy') = Cardinality(Busy) - 1
    BY <1>0, <2>4, BusyChange
  <2>6. (thread'[Controller] = "idle" /\ ~m_workers') => \A w \in Worker : thread'[w] = "exited"
    BY <2>1, <2>2 DEF TasksCounted, FetchType, Thread
  <2>7. TasksCounted'
    <3>1. TasksCounted /\ finished \in Nat /\ m_work_queue \in Nat /\ main' = main
      BY <2>1 DEF FetchType
    <3>2. m_futures' = m_futures /\ m_work_queue' = m_work_queue /\ m_inputs' = m_inputs /\ m_input_tail' = m_input_tail
      BY <2>1
    <3>3. m_futures' = finished' + m_work_queue' + Cardinality(Busy')
      <4>1. m_futures = finished + m_work_queue + Cardinality(Busy) /\ finished' = finished + 1
        BY <2>1, <3>1 DEF TasksCounted
      <4> HIDE DEF FetchInv
      <4> QED BY <1>0, <2>5, <3>1, <3>2, <4>1, SMT
    <3> QED BY <1>0, <2>6, <3>1, <3>2, <3>3 DEF TasksCounted
  <2>8. InputsClaimed'
    <3>1. InputsClaimed /\ claimed \in [Thread -> Nat] /\ DOMAIN thread = Thread
      BY DEF FetchType
    <3> HIDE DEF FetchInv
    <3> QED BY <1>0, <2>1, <2>2, <3>1, SMTT(30) DEF InputsClaimed
  <2> QED BY <2>1, <2>3, <2>7, <2>8 DEF FetchedFromBase
<1> QED BY <1>1, <1>2

(* A thread that writes the coin or the flag of its input.                 *)
LEMMA WriteOK ==
  ASSUME FetchInv, NEW t \in Thread, Fetch(t) \/ SetReady(t)
  PROVE  FetchInv'
<1> USE DEF FetchInv, poolVars, mainVars
<1> DEFINE k == claimed[t]
           in == m_inputs[k]
<1>1. /\ k \in 1 .. Len(m_inputs) /\ k < m_input_head /\ in \in Input /\ Len(m_inputs) \in Nat
      /\ DOMAIN m_inputs = 1 .. Len(m_inputs) /\ t \in Busy
      /\ PeekCoin(in.outpoint) \in Prevout \cup {nullopt} /\ m_futures # 0
  <2>1. t \in Busy /\ k # 0
    BY DEF Fetch, SetReady, InputsClaimed, Busy
  <2>2. Cardinality(Busy) \in Nat /\ Cardinality(Busy) # 0
    BY <2>1, BusyFinite, FS_EmptySet DEF Busy
  <2>3. k \in 1 .. Len(m_inputs) /\ k < m_input_head
    BY <2>1, SMT DEF InputsClaimed, FetchType
  <2>4. in \in Input /\ Len(m_inputs) \in Nat /\ DOMAIN m_inputs = 1 .. Len(m_inputs)
    BY <2>3, SMT DEF FetchType
  <2>5. PeekCoin(in.outpoint) \in Prevout \cup {nullopt}
    <3> HIDE DEF in
    <3> QED BY <2>4 DEF Input, PeekCoin
  <2>6. m_futures # 0
    BY <2>2, SMT DEF FetchType, TasksCounted
  <2> QED BY <2>1, <2>3, <2>4, <2>5, <2>6
<1>2. ASSUME NEW new \in Input, m_inputs' = [m_inputs EXCEPT ![k] = new]
      PROVE  /\ m_inputs' \in Seq(Input) /\ Len(m_inputs') = Len(m_inputs)
             /\ m_inputs'[k] = new
             /\ \A i \in 1 .. Len(m_inputs) : i # k => m_inputs'[i] = m_inputs[i]
  BY <1>1, <1>2, SMT DEF FetchType
<1>3. ASSUME thread[t] \in {"fetch", "ready"}, NEW next \in {"ready", "claim"},
             thread' = [thread EXCEPT ![t] = next], claimed' \in [Thread -> Nat],
             m_inputs' \in Seq(Input), Len(m_inputs') = Len(m_inputs),
             UNCHANGED <<m_work_queue, m_workers, m_input_head, m_input_tail, m_futures, finished, main>>
      PROVE  FetchType' /\ TasksCounted'
  <2>1. FetchType'
    BY <1>3 DEF FetchType
  <2>2. Busy' = Busy
    BY <1>3 DEF Busy, FetchType
  <2> QED BY <1>1, <1>3, <2>1, <2>2 DEF TasksCounted, FetchType, Thread
<1>4. CASE Fetch(t)
  <2> DEFINE new == [in EXCEPT !.coin = PeekCoin(in.outpoint)]
  <2>1. /\ new \in Input /\ new.coin = PeekCoin(new.outpoint) /\ new.ready = in.ready
        /\ m_inputs' = [m_inputs EXCEPT ![k] = new]
    BY <1>1, <1>4 DEF Fetch, Input
  <2> HIDE DEF new
  <2>2. /\ thread[t] = "fetch" /\ thread' = [thread EXCEPT ![t] = "ready"]
        /\ UNCHANGED <<m_work_queue, m_workers, claimed, m_input_head, m_input_tail, m_futures, finished,
                       main, fetched>>
    BY <1>4 DEF Fetch
  <2>3. /\ m_inputs' \in Seq(Input) /\ Len(m_inputs') = Len(m_inputs)
        /\ m_inputs'[k] = new
        /\ \A i \in 1 .. Len(m_inputs) : i # k => m_inputs'[i] = m_inputs[i]
    BY <1>2, <2>1
  <2>4. FetchType' /\ TasksCounted'
    BY <1>3, <2>2, <2>3 DEF FetchType
  <2>5. InputsClaimed'
    <3>1. InputsClaimed /\ claimed \in [Thread -> Nat] /\ DOMAIN thread = Thread /\ Len(m_inputs) \in Nat
      BY SMT DEF FetchType
    <3> HIDE DEF FetchInv
    <3>2. m_input_head' = m_input_head /\ thread' = [thread EXCEPT ![t] = "ready"] /\ claimed' = claimed
      BY <2>2
    <3> QED BY <1>1, <2>1, <2>3, <3>1, <3>2, SMTT(30) DEF InputsClaimed, PeekCoin
  <2> QED BY <2>2, <2>4, <2>5 DEF FetchedFromBase
<1>5. CASE SetReady(t)
  <2> DEFINE new == [in EXCEPT !.ready = TRUE]
  <2>1. /\ new \in Input /\ new.coin = in.coin /\ new.outpoint = in.outpoint
        /\ m_inputs' = [m_inputs EXCEPT ![k] = new]
    BY <1>1, <1>5 DEF SetReady, Input
  <2> HIDE DEF new
  <2>2. /\ thread[t] = "ready" /\ thread' = [thread EXCEPT ![t] = "claim"]
        /\ claimed' = [claimed EXCEPT ![t] = 0]
        /\ UNCHANGED <<m_work_queue, m_workers, m_input_head, m_input_tail, m_futures, finished,
                       main, fetched>>
    BY <1>5 DEF SetReady
  <2>3. /\ m_inputs' \in Seq(Input) /\ Len(m_inputs') = Len(m_inputs)
        /\ m_inputs'[k] = new
        /\ \A i \in 1 .. Len(m_inputs) : i # k => m_inputs'[i] = m_inputs[i]
    BY <1>2, <2>1
  <2>4. FetchType' /\ TasksCounted'
    BY <1>3, <2>2, <2>3 DEF FetchType
  <2>5. InputsClaimed'
    <3>1. InputsClaimed /\ claimed \in [Thread -> Nat] /\ DOMAIN thread = Thread /\ Len(m_inputs) \in Nat
      BY SMT DEF FetchType
    <3> HIDE DEF FetchInv
    <3>2. m_input_head' = m_input_head /\ thread' = [thread EXCEPT ![t] = "claim"] /\ claimed' = [claimed EXCEPT ![t] = 0]
      BY <2>2
    <3>3. thread[t] = "ready" /\ k # 0 /\ in.coin = PeekCoin(in.outpoint)
      BY <1>1, <2>2, <3>1 DEF InputsClaimed
    <3>4. \A u \in Thread : thread'[u] \in {"fetch", "ready"} <=> claimed'[u] # 0
      BY <3>1, <3>2 DEF InputsClaimed
    <3>5. ASSUME NEW u \in Thread, claimed'[u] # 0
          PROVE  u # t /\ claimed'[u] = claimed[u] /\ thread'[u] = thread[u] /\ claimed[u] # k
      BY <3>1, <3>2, <3>5 DEF InputsClaimed
    <3>6. ASSUME NEW u \in Thread, claimed'[u] # 0
          PROVE  claimed[u] <= Len(m_inputs) /\ claimed[u] < m_input_head /\ m_inputs'[claimed[u]] = m_inputs[claimed[u]]
      <4>1. claimed[u] <= Len(m_inputs) /\ claimed[u] < m_input_head /\ claimed[u] # 0 /\ claimed[u] \in Nat
        BY <3>1, <3>5, <3>6 DEF InputsClaimed
      <4>2. claimed[u] \in 1 .. Len(m_inputs)
        BY <3>1, <4>1, SMT
      <4> QED BY <2>3, <3>5, <3>6, <4>1, <4>2
    <3> HIDE DEF k, in
    <3>7. \A u \in Thread : claimed'[u] # 0 =>
            /\ claimed'[u] <= Len(m_inputs') /\ claimed'[u] < m_input_head'
            /\ ~m_inputs'[claimed'[u]].ready
            /\ thread'[u] = "ready" => m_inputs'[claimed'[u]].coin = PeekCoin(m_inputs'[claimed'[u]].outpoint)
      <4> SUFFICES ASSUME NEW u \in Thread, claimed'[u] # 0
                   PROVE  /\ claimed'[u] <= Len(m_inputs') /\ claimed'[u] < m_input_head'
                          /\ ~m_inputs'[claimed'[u]].ready
                          /\ thread'[u] = "ready" =>
                               m_inputs'[claimed'[u]].coin = PeekCoin(m_inputs'[claimed'[u]].outpoint)
        OBVIOUS
      <4>1. /\ claimed'[u] = claimed[u] /\ thread'[u] = thread[u] /\ m_input_head' = m_input_head
            /\ Len(m_inputs') = Len(m_inputs)
        BY <2>3, <3>2, <3>5
      <4>2. /\ claimed[u] <= Len(m_inputs) /\ claimed[u] < m_input_head
            /\ m_inputs'[claimed[u]] = m_inputs[claimed[u]]
        BY <3>6
      <4>3. /\ ~m_inputs[claimed[u]].ready
            /\ thread[u] = "ready" => m_inputs[claimed[u]].coin = PeekCoin(m_inputs[claimed[u]].outpoint)
        BY <3>1, <4>1 DEF InputsClaimed
      <4> QED BY <4>1, <4>2, <4>3
    <3>8. \A u, v \in Thread : (claimed'[u] # 0 /\ claimed'[u] = claimed'[v]) => u = v
      BY <3>1, <3>5 DEF InputsClaimed
    <3>9. \A i \in 1 .. Len(m_inputs') : m_inputs'[i].ready =>
            i < m_input_head' /\ m_inputs'[i].coin = PeekCoin(m_inputs'[i].outpoint)
      BY <1>1, <2>1, <2>3, <3>1, <3>2, <3>3 DEF InputsClaimed
    <3> QED BY <3>4, <3>7, <3>8, <3>9 DEF InputsClaimed, PeekCoin
  <2> QED BY <2>2, <2>4, <2>5 DEF FetchedFromBase
<1> QED BY <1>4, <1>5

-----------------------------------------------------------------------------
(* The main thread.                                                        *)

(* Nothing but the place of the main thread, the tail and the answer.      *)
LEMMA MainFrame ==
  ASSUME FetchInv, UNCHANGED <<poolVars, threadVars, m_inputs, m_input_head, m_futures, finished>>,
         main \in {"connect", "wait", "stop"}, main' \in {"connect", "wait", "stop", "clear"},
         \/ m_input_tail' = m_input_tail /\ main' # "wait"
         \/ m_input_tail <= Len(m_inputs) /\ m_input_tail' = m_input_tail + 1,
         FetchedFromBase'
  PROVE  FetchInv'
<1> USE DEF FetchInv, poolVars, threadVars
<1>1. FetchType'
  BY SMT DEF FetchType
<1>2. Busy' = Busy
  BY DEF Busy
<1>3. TasksCounted'
  <2>1. CASE m_input_tail' = m_input_tail
    BY <1>2, <2>1, SMT DEF TasksCounted, FetchType
  <2>2. CASE m_input_tail <= Len(m_inputs) /\ m_input_tail' = m_input_tail + 1
    <3>1. m_futures # 0
      BY <2>2, SMT DEF TasksCounted, FetchType
    <3> QED BY <1>2, <2>2, <3>1, SMT DEF TasksCounted, FetchType
  <2> QED BY <2>1, <2>2
<1>4. InputsClaimed'
  BY ClaimsFrame DEF FetchType
<1> QED BY <1>1, <1>3, <1>4

(* While there are no futures, m_inputs is the main thread's alone.        *)
LEMMA InputsReplaced ==
  ASSUME FetchType, TasksCounted, InputsClaimed, finished = m_futures, UNCHANGED threadVars,
         m_inputs' \in Seq(Input), \A i \in 1 .. Len(m_inputs') : ~m_inputs'[i].ready
  PROVE  InputsClaimed'
<1>1. \A t \in Thread : claimed[t] = 0
  BY NoTasks DEF InputsClaimed, Busy
<1> QED BY <1>1 DEF InputsClaimed, threadVars

(* StartFetching, Submit and Clear.                                        *)
LEMMA BlockEdgesOK ==
  ASSUME FetchInv, (\E b \in Blocks : StartFetching(b)) \/ Submit \/ Clear
  PROVE  FetchInv'
<1> USE DEF FetchInv, poolVars, threadVars
<1>0. <<>> \in Seq(Input) /\ Len(<<>>) = 0
  BY SMT
<1>1. ASSUME NEW b \in Blocks, StartFetching(b) PROVE FetchInv'
  <2>1. m_futures = 0 /\ m_input_head = 1 /\ m_input_tail = 1 /\ m_inputs = <<>> /\ main = "idle"
    BY <1>1 DEF StartFetching, TasksCounted
  <2>2. finished = m_futures
    BY <2>1, BusyFinite, SMT DEF TasksCounted, FetchType, Busy
  <2>3. /\ UNCHANGED <<poolVars, threadVars, m_input_head, m_input_tail, m_futures, finished, fetched>>
        /\ main' \in {"connect", "submit"}
    BY <1>1 DEF StartFetching
  <2>4. /\ m_inputs' \in Seq(Input) /\ \A i \in 1 .. Len(m_inputs') : ~m_inputs'[i].ready
        /\ main' # "submit" => m_inputs' = <<>>
    <3>1. CASE m_workers
      <4> DEFINE list == ToFetch(b)
      <4>1. list \in Seq(In)
        BY QueuedFacts
      <4>2. /\ m_inputs' = [i \in DOMAIN list |->
                             [outpoint |-> list[i].prevout, coin |-> nullopt, ready |-> FALSE]]
            /\ main' = IF list = <<>> THEN "connect" ELSE "submit"
        BY <1>1, <3>1 DEF StartFetching
      <4> HIDE DEF list
      <4> DEFINE entry(i) == [outpoint |-> list[i].prevout, coin |-> nullopt, ready |-> FALSE]
      <4>3. Len(list) \in Nat /\ DOMAIN list = 1 .. Len(list)
        BY <4>1, SMT
      <4>4. m_inputs' \in Seq(Input) /\ Len(m_inputs') = Len(list)
        <5>1. ASSUME NEW i \in 1 .. Len(list) PROVE entry(i) \in Input
          <6>1. list[i] \in In
            BY <4>1, SMT
          <6>2. list[i].prevout \in Prevout
            BY <6>1 DEF In
          <6> QED BY <6>2 DEF Input
        <5>2. m_inputs' = [i \in 1 .. Len(list) |-> entry(i)]
          BY <4>2, <4>3
        <5> HIDE DEF entry
        <5>3. m_inputs' \in [1 .. Len(list) -> Input]
          BY <5>1, <5>2
        <5> QED BY <4>3, <5>3, SMT
      <4>5. \A i \in 1 .. Len(m_inputs') : ~m_inputs'[i].ready
        BY <4>1, <4>2, <4>4, SMT
      <4> QED BY <4>1, <4>2, <4>4, <4>5, SMT
    <3>2. CASE ~m_workers
      BY <1>0, <1>1, <2>1, <3>2, SMT DEF StartFetching
    <3> QED BY <3>1, <3>2
  <2>5. FetchType'
    BY <2>1, <2>3, <2>4, SMT DEF FetchType
  <2>6. Busy' = Busy
    BY <2>3 DEF Busy
  <2>7. TasksCounted'
    BY <2>1, <2>3, <2>4, <2>6 DEF TasksCounted
  <2>8. InputsClaimed'
    BY <2>2, <2>3, <2>4, InputsReplaced
  <2> QED BY <2>3, <2>5, <2>7, <2>8 DEF FetchedFromBase
<1>2. CASE Submit
  <2>1. m_futures = 0 /\ m_input_head = 1 /\ m_input_tail = 1 /\ main = "submit"
    BY <1>2 DEF Submit, TasksCounted
  <2>a. Cardinality(Busy) \in Nat
    BY BusyFinite DEF Busy
  <2>b. finished \in Nat /\ m_work_queue \in Nat
    BY DEF FetchType
  <2>c. 0 = finished + m_work_queue + Cardinality(Busy)
    BY <2>1 DEF TasksCounted
  <2>2. finished = 0 /\ m_work_queue = 0 /\ Cardinality(Busy) = 0
    BY <2>a, <2>b, <2>c, SMT
  <2>3. Busy' = Busy /\ main' = "connect"
    BY <1>2 DEF Submit, Busy
  <2>4. UNCHANGED <<threadVars, m_workers, m_input_head, m_input_tail, finished, fetched>>
    BY <1>2 DEF Submit
  <2>5. CASE m_workers /\ ~m_interrupt
    <3>1. Cardinality(Worker) \in Nat \ {0}
      BY BlockAssumption, FS_CardinalityType, FS_EmptySet
    <3>2. m_work_queue' = Cardinality(Worker) /\ m_futures' = Cardinality(Worker) /\ UNCHANGED m_inputs
      BY <1>2, <2>2, <2>5, <3>1, SMT DEF Submit
    <3>3. FetchType'
      BY <2>3, <2>4, <3>1, <3>2 DEF FetchType
    <3>4. TasksCounted'
      BY <2>2, <2>3, <2>4, <3>1, <3>2, SMT DEF TasksCounted
    <3>5. InputsClaimed'
      BY <2>4, <3>2, ClaimsFrame DEF FetchType
    <3> QED BY <2>4, <3>3, <3>4, <3>5 DEF FetchedFromBase
  <2>6. CASE ~(m_workers /\ ~m_interrupt)
    <3>1. m_inputs' = <<>> /\ UNCHANGED <<m_work_queue, m_futures>>
      BY <1>2, <2>6 DEF Submit
    <3>2. FetchType'
      BY <1>0, <2>1, <2>3, <2>4, <3>1, SMT DEF FetchType
    <3>3. TasksCounted'
      BY <2>1, <2>3, <2>4, <3>1 DEF TasksCounted
    <3>4. InputsClaimed'
      BY <1>0, <2>1, <2>2, <2>4, <3>1, InputsReplaced, SMT
    <3> QED BY <2>4, <3>2, <3>3, <3>4 DEF FetchedFromBase
  <2> QED BY <2>5, <2>6
<1>3. CASE Clear
  <2>1. /\ m_inputs' = <<>> /\ m_input_head' = 1 /\ m_input_tail' = 1
        /\ m_futures' = 0 /\ finished' = 0 /\ main' = "idle" /\ finished = m_futures
        /\ UNCHANGED <<poolVars, threadVars, fetched>>
    BY <1>3 DEF Clear
  <2>2. m_work_queue = 0 /\ Busy = {} /\ Busy' = Busy
    BY <2>1, NoTasks DEF Busy
  <2>3. FetchType'
    BY <1>0, <2>1, SMT DEF FetchType
  <2>4. TasksCounted'
    BY <2>1, <2>2, FS_EmptySet, SMT DEF TasksCounted
  <2>5. InputsClaimed'
    BY <1>0, <2>1, InputsReplaced, SMT
  <2> QED BY <2>1, <2>3, <2>4, <2>5 DEF FetchedFromBase
<1> QED BY <1>1, <1>2, <1>3

(* The steps of ConnectBlock and StopFetching.                             *)
LEMMA MainOK ==
  ASSUME FetchInv, ConnectInput \/ WaitReady \/ ConnectDone \/ ConnectRefused \/ StopFetching
  PROVE  FetchInv'
<1> USE DEF FetchInv
<1>1. CASE ConnectInput
  <2> DEFINE in == Inputs(block)[at]
             o == in.prevout
  <2>1. /\ main = "connect"
        /\ UNCHANGED <<poolVars, threadVars, m_inputs, m_input_head, m_futures, finished>>
    BY <1>1 DEF ConnectInput
  <2>2. \/ main' \in {"connect", "stop"} /\ UNCHANGED <<fetched, m_input_tail>>
        \/ /\ m_input_tail <= Len(m_inputs) /\ m_input_tail' = m_input_tail + 1 /\ main' = "wait"
           /\ UNCHANGED fetched
        \/ Answered(o, PeekCoin(o)) /\ UNCHANGED m_input_tail
    <3>1. CASE o \in cacheCoins
      BY <1>1, <3>1 DEF ConnectInput
    <3>2. CASE o \notin cacheCoins /\ FromBlock(block, in)
      BY <1>1, <2>1, <3>2 DEF ConnectInput
    <3>3. CASE o \notin cacheCoins /\ ~FromBlock(block, in)
      BY <1>1, <3>3 DEF ConnectInput
    <3> QED BY <3>1, <3>2, <3>3
  <2> HIDE DEF o
  <2>3. FetchedFromBase' /\ main' \in {"connect", "wait", "stop"}
    BY <2>2, SMT DEF FetchedFromBase, Answered
  <2>4. (m_input_tail' = m_input_tail /\ main' # "wait")
          \/ (m_input_tail <= Len(m_inputs) /\ m_input_tail' = m_input_tail + 1)
    BY <2>2 DEF Answered
  <2> QED BY <2>1, <2>3, <2>4, MainFrame
<1>2. CASE WaitReady
  <2> DEFINE input == m_inputs[m_input_tail - 1]
  <2>1. input.ready /\ Answered(input.outpoint, input.coin) /\ main = "wait"
    BY <1>2 DEF WaitReady
  <2>2. m_input_tail - 1 \in 1 .. Len(m_inputs)
    BY <2>1, SMT DEF TasksCounted, FetchType
  <2>3. input.coin = PeekCoin(input.outpoint)
    BY <2>1, <2>2 DEF InputsClaimed
  <2> HIDE DEF input
  <2>4. FetchedFromBase' /\ main' \in {"connect", "stop"}
    BY <2>1, <2>3 DEF FetchedFromBase, Answered
  <2> QED BY <1>2, <2>4, MainFrame DEF WaitReady, fetchVars
<1>3. CASE ConnectDone \/ ConnectRefused
  BY <1>3, MainFrame DEF ConnectDone, ConnectRefused, fetchVars, FetchedFromBase
<1>4. CASE StopFetching
  <2>1. /\ UNCHANGED <<poolVars, threadVars, m_inputs, m_input_tail, m_futures, finished, fetched>>
        /\ m_input_head' = IF m_futures = 0 THEN m_input_head ELSE Len(m_inputs) + 1
        /\ main = "stop" /\ main' = "clear"
    BY <1>4 DEF StopFetching
  <2>2. CASE m_futures = 0
    BY <2>1, <2>2, MainFrame DEF FetchedFromBase
  <2>3. CASE m_futures # 0
    <3>1. FetchType'
      BY <2>1, <2>3, SMT DEF FetchType, poolVars, threadVars
    <3>2. Busy' = Busy
      BY <2>1 DEF Busy, threadVars
    <3>3. TasksCounted'
      BY <2>1, <2>3, <3>2 DEF TasksCounted, poolVars, threadVars
    <3>4. InputsClaimed'
      <4>1. InputsClaimed /\ claimed \in [Thread -> Nat] /\ Len(m_inputs) \in Nat
        BY SMT DEF FetchType
      <4> HIDE DEF FetchInv
      <4>2. UNCHANGED <<thread, claimed, m_inputs>> /\ m_input_head' = Len(m_inputs) + 1
        BY <2>1, <2>3 DEF threadVars
      <4> QED BY <4>1, <4>2, SMTT(30) DEF InputsClaimed
    <3> QED BY <2>1, <3>1, <3>3, <3>4 DEF FetchedFromBase
  <2> QED BY <2>2, <2>3
<1> QED BY <1>1, <1>2, <1>3, <1>4

-----------------------------------------------------------------------------
(* The invariant.                                                          *)

(* No block, no task.                                                      *)
LEMMA FetchInit == OverlayInit => FetchInv
<1> SUFFICES ASSUME OverlayInit PROVE FetchInv
  OBVIOUS
<1>0. Controller \in Thread
  BY DEF Thread
<1>1. FetchType
  BY SMT DEF OverlayInit, FetchType
<1>2. Busy = {}
  BY DEF OverlayInit, Busy
<1>3. TasksCounted
  BY <1>0, <1>2, FS_EmptySet, SMT DEF OverlayInit, TasksCounted
<1>4. InputsClaimed
  <2>1. m_inputs = <<>> /\ \A t \in Thread : thread[t] \notin {"fetch", "ready"} /\ claimed[t] = 0
    BY DEF OverlayInit
  <2> QED BY <2>1, SMT DEF InputsClaimed
<1> QED BY <1>1, <1>3, <1>4 DEF OverlayInit, FetchInv, FetchedFromBase

(* Every step of every thread keeps it.                                    *)
LEMMA FetchStep == FetchInv /\ [OverlayNext]_overlayVars => FetchInv'
<1> SUFFICES ASSUME FetchInv, [OverlayNext]_overlayVars PROVE FetchInv'
  OBVIOUS
<1>1. CASE UNCHANGED overlayVars
  BY <1>1 DEF overlayVars, poolVars, threadVars, fetchVars, mainVars, FetchInv, FetchType, TasksCounted, Busy,
              InputsClaimed, FetchedFromBase
<1>2. CASE (\E w \in Worker : WorkerStep(w)) \/ Interrupt \/ StopBegin \/ StopStep \/ Start
  BY <1>2, PoolOK
<1>3. CASE \E t \in Thread : TaskStep(t)
  BY <1>3, ClaimOK, WriteOK DEF TaskStep
<1>4. CASE (\E b \in Blocks : StartFetching(b)) \/ Submit \/ Clear
  BY <1>4, BlockEdgesOK
<1>5. CASE ConnectInput \/ WaitReady \/ ConnectDone \/ ConnectRefused \/ StopFetching
  BY <1>5, MainOK
<1> QED BY <1>1, <1>2, <1>3, <1>4, <1>5 DEF OverlayNext, MainStep

(* The inductive invariant of the tasks and the inputs they claim.         *)
THEOREM FetchInvHolds == OverlaySpec => []FetchInv
BY FetchInit, FetchStep, PTL DEF OverlaySpec

(* With any number of workers, whatever they are interrupted, stopped and  *)
(* started in, FetchCoinFromBase gives ConnectBlock what the base view     *)
(* holds: no coin is read before it was written or for another input.      *)
THEOREM FetchesFromBase == OverlaySpec => []FetchedFromBase
<1>1. FetchInv => FetchedFromBase
  BY DEF FetchInv
<1> QED BY <1>1, FetchInvHolds, PTL

(* The assertions of ProcessInput, StartFetching and StopFetching hold: a  *)
(* claimed input is there, not ready and one thread's; without futures     *)
(* nothing of a block is left.                                             *)
THEOREM ClaimsAreExclusive == OverlaySpec => []ClaimsExclusive
<1>1. FetchInv => ClaimsExclusive
  <2> SUFFICES ASSUME FetchInv PROVE ClaimsExclusive
    OBVIOUS
  <2>1. ASSUME NEW t \in Thread, claimed[t] # 0
        PROVE  /\ claimed[t] \in DOMAIN m_inputs
               /\ ~m_inputs[claimed[t]].ready
               /\ \A u \in Thread \ {t} : claimed[u] # claimed[t]
    BY <2>1, SMT DEF FetchInv, FetchType, InputsClaimed
  <2>2. ASSUME m_futures = 0, main # "submit"
        PROVE  /\ m_inputs = <<>> /\ m_input_head = 1 /\ m_input_tail = 1
               /\ m_work_queue = 0 /\ \A t \in Thread : thread[t] # "claim"
    <3>1. m_inputs = <<>> /\ m_input_head = 1 /\ m_input_tail = 1
      BY <2>2 DEF FetchInv, TasksCounted
    <3>2. finished = m_futures
      BY <2>2, BusyFinite, SMT DEF FetchInv, FetchType, TasksCounted, Busy
    <3>3. m_work_queue = 0 /\ Busy = {}
      BY <3>2, NoTasks DEF FetchInv
    <3> QED BY <3>1, <3>3 DEF Busy
  <2> QED BY <2>1, <2>2 DEF ClaimsExclusive
<1> QED BY <1>1, FetchInvHolds, PTL

-----------------------------------------------------------------------------
(* The order of the inputs.                                                *)

(* What is queued are the inputs of the block that do not spend its own    *)
(* outputs, and the tail is behind those that ConnectBlock has asked for.  *)
QueueOrder ==
  main \in {"submit", "connect", "wait"} =>
    /\ block \in Blocks /\ at \in 1 .. Len(Inputs(block)) + 1
    /\ m_inputs # <<>> =>
         /\ Len(m_inputs) = Len(ToFetch(block))
         /\ \A i \in 1 .. Len(m_inputs) : m_inputs[i].outpoint = ToFetch(block)[i].prevout
         /\ main = "wait" => at <= Len(Inputs(block)) /\ m_input_tail = Len(Queued(block)[at]) + 1
         /\ main # "wait" => m_input_tail = Len(Queued(block)[at - 1]) + 1

(* The workers write coins and flags, never outpoints.                     *)
LEMMA OrderFrame ==
  ASSUME FetchType, QueueOrder, UNCHANGED <<mainVars, m_input_tail>>,
         m_inputs' \in Seq(Input), Len(m_inputs') = Len(m_inputs),
         \A i \in 1 .. Len(m_inputs) : m_inputs'[i].outpoint = m_inputs[i].outpoint
  PROVE  QueueOrder'
<1>1. m_inputs' = <<>> <=> m_inputs = <<>>
  BY SMT DEF FetchType
<1> QED BY <1>1 DEF QueueOrder, mainVars

(* The pool and its tasks.                                                 *)
LEMMA OrderTasks ==
  ASSUME FetchInv, QueueOrder,
         \/ (\E w \in Worker : WorkerStep(w)) \/ Interrupt \/ StopBegin \/ StopStep \/ Start
         \/ \E t \in Thread : TaskStep(t)
  PROVE  QueueOrder'
<1>0. FetchType /\ InputsClaimed
  BY DEF FetchInv
<1>1. CASE (\E w \in Worker : WorkerStep(w)) \/ Interrupt \/ StopBegin \/ StopStep \/ Start
  <2>1. UNCHANGED <<mainVars, fetchVars>>
    BY <1>1 DEF WorkerStep, TakeTask, WorkerExit, Interrupt, StopBegin, StopStep, StopDrain, StopJoin, Start
  <2> QED BY <1>0, <2>1, OrderFrame DEF fetchVars, FetchType
<1>2. ASSUME NEW t \in Thread, Claim(t) PROVE QueueOrder'
  BY <1>0, <1>2, OrderFrame DEF Claim, FetchType
<1>3. ASSUME NEW t \in Thread, Fetch(t) \/ SetReady(t) PROVE QueueOrder'
  <2> DEFINE k == claimed[t]
  <2>1. FetchInv' /\ UNCHANGED <<mainVars, m_input_tail>> /\ k \in 1 .. Len(m_inputs)
    <3>1. UNCHANGED <<mainVars, m_input_tail>> /\ thread[t] \in {"fetch", "ready"}
      BY <1>3 DEF Fetch, SetReady
    <3>2. k \in 1 .. Len(m_inputs)
      BY <1>0, <3>1, SMT DEF InputsClaimed, FetchType
    <3>3. FetchInv'
      BY <1>3, WriteOK
    <3> QED BY <3>1, <3>2, <3>3
  <2>2. m_inputs' \in Seq(Input) /\ m_inputs \in Seq(Input)
    BY <1>0, <2>1 DEF FetchInv, FetchType
  <2>3. PICK new : m_inputs' = [m_inputs EXCEPT ![k] = new] /\ new.outpoint = m_inputs[k].outpoint
    <3>1. m_inputs[k] \in Input
      BY <2>1, <2>2, SMT
    <3> DEFINE in == m_inputs[k]
    <3>2. in \in Input
      BY <3>1
    <3>3. CASE Fetch(t)
      <4> DEFINE new == [in EXCEPT !.coin = PeekCoin(in.outpoint)]
      <4>1. m_inputs' = [m_inputs EXCEPT ![k] = new]
        BY <3>3 DEF Fetch
      <4>2. new.outpoint = in.outpoint
        <5> HIDE DEF in
        <5> QED BY <3>2 DEF Input
      <4> QED BY <4>1, <4>2
    <3>4. CASE SetReady(t)
      <4> DEFINE new == [in EXCEPT !.ready = TRUE]
      <4>1. m_inputs' = [m_inputs EXCEPT ![k] = new]
        BY <3>4 DEF SetReady
      <4>2. new.outpoint = in.outpoint
        <5> HIDE DEF in
        <5> QED BY <3>2 DEF Input
      <4> QED BY <4>1, <4>2
    <3> QED BY <1>3, <3>3, <3>4
  <2>4. /\ Len(m_inputs') = Len(m_inputs)
        /\ \A i \in 1 .. Len(m_inputs) : m_inputs'[i] = IF i = k THEN new ELSE m_inputs[i]
    BY <2>2, <2>3, SMT
  <2> HIDE DEF k
  <2>5. \A i \in 1 .. Len(m_inputs) : m_inputs'[i].outpoint = m_inputs[i].outpoint
    BY <2>3, <2>4
  <2> QED BY <1>0, <2>1, <2>2, <2>4, <2>5, OrderFrame
<1> QED BY <1>1, <1>2, <1>3 DEF TaskStep

(* StartFetching queues the inputs in the order of the block.              *)
LEMMA OrderStart ==
  ASSUME FetchInv, QueueOrder, (\E b \in Blocks : StartFetching(b)) \/ Submit
  PROVE  QueueOrder'
<1>1. ASSUME NEW b \in Blocks, StartFetching(b) PROVE QueueOrder'
  <2>1. m_inputs = <<>> /\ m_input_tail = 1
    BY <1>1 DEF FetchInv, TasksCounted, StartFetching
  <2>2. /\ block' = b /\ at' = 1 /\ m_input_tail' = 1 /\ main' # "wait"
        /\ \/ m_inputs' = <<>>
           \/ m_inputs' = [i \in DOMAIN ToFetch(b) |->
                             [outpoint |-> ToFetch(b)[i].prevout, coin |-> nullopt, ready |-> FALSE]]
    BY <1>1, <2>1 DEF StartFetching
  <2>3. ToFetch(b) \in Seq(In) /\ Len(Inputs(b)) \in Nat /\ Len(Queued(b)[0]) = 0
    BY InputsType, QueuedFacts, SMT
  <2>4. m_inputs' # <<>> =>
          /\ Len(m_inputs') = Len(ToFetch(b))
          /\ \A i \in 1 .. Len(m_inputs') : m_inputs'[i].outpoint = ToFetch(b)[i].prevout
    <3> DEFINE list == ToFetch(b)
    <3>1. DOMAIN list = 1 .. Len(list) /\ Len(list) \in Nat
      BY <2>3, SMT
    <3> HIDE DEF list
    <3>2. ASSUME m_inputs' = [i \in DOMAIN list |->
                                [outpoint |-> list[i].prevout, coin |-> nullopt, ready |-> FALSE]]
          PROVE  Len(m_inputs') = Len(list) /\ \A i \in 1 .. Len(list) : m_inputs'[i].outpoint = list[i].prevout
      BY <3>1, <3>2, SMT
    <3> QED BY <2>2, <3>2 DEF list
  <2>5. at' \in 1 .. Len(Inputs(b)) + 1 /\ at' - 1 = 0
    BY <2>2, <2>3, SMT
  <2>6. Len(Queued(b)[at' - 1]) + 1 = 1
    BY <2>3, <2>5, SMT
  <2> QED BY <2>2, <2>4, <2>5, <2>6 DEF QueueOrder
<1>2. CASE Submit
  BY <1>2 DEF Submit, QueueOrder
<1> QED BY <1>1, <1>2

(* The next input of the block that is to be fetched is at the tail.       *)
LEMMA NextAtTail ==
  ASSUME FetchInv, QueueOrder, main = "connect", at <= Len(Inputs(block)), m_inputs # <<>>
  PROVE  /\ FromBlock(block, Inputs(block)[at]) => Queued(block)[at] = Queued(block)[at - 1]
         /\ ~FromBlock(block, Inputs(block)[at]) =>
              /\ m_input_tail <= Len(m_inputs)
              /\ m_inputs[m_input_tail].outpoint = Inputs(block)[at].prevout
              /\ Len(Queued(block)[at]) = m_input_tail
<1> DEFINE q == Queued(block)
           s == Inputs(block)
           list == ToFetch(block)
<1>1. /\ block \in Blocks /\ Len(m_inputs) = Len(list) /\ m_input_tail = Len(q[at - 1]) + 1
      /\ \A i \in 1 .. Len(m_inputs) : m_inputs[i].outpoint = list[i].prevout
      /\ at \in 1 .. Len(s) + 1
  BY DEF QueueOrder
<1>2. Len(s) \in Nat /\ s \in Seq(In)
  BY <1>1, InputsType, SMT
<1>3. at \in 1 .. Len(s) /\ at - 1 \in 0 .. Len(s) /\ at \in 0 .. Len(s) /\ s[at] \in In
  BY <1>1, <1>2, SMT
<1>4. /\ q \in [0 .. Len(s) -> Seq(In)] /\ list \in Seq(In)
      /\ q[at] = IF FromBlock(block, s[at]) THEN q[at - 1] ELSE Append(q[at - 1], s[at])
  BY <1>1, <1>3, QueuedFacts
<1>5. Len(q[at]) <= Len(list) /\ \A i \in 1 .. Len(q[at]) : list[i] = q[at][i]
  BY <1>1, <1>3, QueuedInFront
<1> HIDE DEF q, s, list
<1>6. ASSUME ~FromBlock(block, s[at])
      PROVE  /\ m_input_tail <= Len(m_inputs)
             /\ m_inputs[m_input_tail].outpoint = s[at].prevout
             /\ Len(q[at]) = m_input_tail
  <2>1. q[at] = Append(q[at - 1], s[at]) /\ q[at - 1] \in Seq(In)
    BY <1>3, <1>4, <1>6
  <2>2. Len(q[at]) = m_input_tail /\ q[at][m_input_tail] = s[at] /\ m_input_tail \in Nat \ {0}
    <3>1. PICK f \in Seq(In), x \in In : f = q[at - 1] /\ x = s[at]
      BY <1>3, <2>1
    <3>2. Len(Append(f, x)) = Len(f) + 1 /\ Append(f, x)[Len(f) + 1] = x /\ Len(f) + 1 \in Nat \ {0}
      BY SMT
    <3> QED BY <1>1, <2>1, <3>1, <3>2
  <2>3. m_input_tail \in 1 .. Len(m_inputs) /\ Len(m_inputs) \in Nat
    <3>1. PICK n \in Nat : n = Len(list)
      BY <1>4, SMT
    <3>2. m_input_tail <= n /\ m_input_tail \in Nat \ {0} /\ Len(m_inputs) = n
      BY <1>1, <1>5, <2>2, <3>1
    <3> QED BY <3>2, SMT
  <2>4. list[m_input_tail] = s[at]
    BY <1>5, <2>2, SMT
  <2> QED BY <1>1, <2>2, <2>3, <2>4, SMT
<1>7. FromBlock(block, s[at]) => q[at] = q[at - 1]
  BY <1>4
<1> QED BY <1>6, <1>7 DEF q, s, list

(* ConnectBlock goes through the inputs in the order of the block.         *)
LEMMA OrderMain ==
  ASSUME FetchInv, QueueOrder,
         ConnectInput \/ WaitReady \/ ConnectDone \/ ConnectRefused \/ StopFetching \/ Clear
  PROVE  QueueOrder'
<1>1. CASE ConnectInput
  <2> DEFINE in == Inputs(block)[at]
             o == in.prevout
  <2>1. /\ main = "connect" /\ at <= Len(Inputs(block)) /\ UNCHANGED <<m_inputs, block>>
    BY <1>1 DEF ConnectInput
  <2>2. /\ block \in Blocks /\ at \in 1 .. Len(Inputs(block)) + 1 /\ Len(Inputs(block)) \in Nat
        /\ m_input_tail \in 1 .. Len(m_inputs) + 1 /\ Len(m_inputs) \in Nat
    BY <2>1, InputsType, SMT DEF QueueOrder, FetchInv, FetchType
  <2>3. at + 1 \in 1 .. Len(Inputs(block)) + 1 /\ (at + 1) - 1 = at
    BY <2>1, <2>2, SMT
  <2>4. /\ m_inputs # <<>> =>
             /\ Len(m_inputs) = Len(ToFetch(block))
             /\ \A i \in 1 .. Len(m_inputs) : m_inputs[i].outpoint = ToFetch(block)[i].prevout
             /\ m_input_tail = Len(Queued(block)[at - 1]) + 1
    BY <2>1 DEF QueueOrder
  <2>5. CASE o \in cacheCoins
    BY <1>1, <2>5 DEF ConnectInput, QueueOrder
  <2>6. CASE o \notin cacheCoins /\ FromBlock(block, in)
    <3>1. at' = at + 1 /\ UNCHANGED <<main, m_input_tail>>
      BY <1>1, <2>6 DEF ConnectInput
    <3>2. m_inputs # <<>> => Queued(block)[at] = Queued(block)[at - 1]
      BY <2>1, <2>6, NextAtTail
    <3>3. m_inputs # <<>> => m_input_tail = Len(Queued(block)[(at + 1) - 1]) + 1
      BY <2>3, <2>4, <3>2
    <3> QED BY <2>1, <2>2, <2>3, <2>4, <3>1, <3>3 DEF QueueOrder
  <2>7. CASE o \notin cacheCoins /\ ~FromBlock(block, in)
    <3>1. m_inputs # <<>> =>
            m_input_tail <= Len(m_inputs) /\ m_inputs[m_input_tail].outpoint = o /\ Len(Queued(block)[at]) = m_input_tail
      BY <2>1, <2>7, NextAtTail
    <3>2. IF m_input_tail <= Len(m_inputs) /\ m_inputs[m_input_tail].outpoint = o
          THEN m_input_tail' = m_input_tail + 1 /\ main' = "wait" /\ UNCHANGED at
          ELSE Answered(o, PeekCoin(o)) /\ UNCHANGED m_input_tail
      BY <1>1, <2>7 DEF ConnectInput
    <3> HIDE DEF o, in
    <3>3. CASE m_inputs # <<>>
      <4>1. m_input_tail' = m_input_tail + 1 /\ main' = "wait" /\ at' = at
        BY <3>1, <3>2, <3>3
      <4>2. m_input_tail + 1 = Len(Queued(block)[at]) + 1
        BY <3>1, <3>3
      <4> QED BY <2>1, <2>2, <2>4, <4>1, <4>2 DEF QueueOrder
    <3>4. CASE m_inputs = <<>>
      <4>1. ~(m_input_tail <= Len(m_inputs))
        <5>1. Len(m_inputs) = 0
          BY <3>4
        <5> QED BY <2>2, <5>1, SMT
      <4>2. main' \in {"stop", "connect"} /\ (main' # "stop" => at' = at + 1)
        BY <3>2, <4>1 DEF Answered
      <4> QED BY <2>1, <2>2, <2>3, <3>4, <4>2 DEF QueueOrder
    <3> QED BY <3>3, <3>4
  <2> QED BY <2>5, <2>6, <2>7
<1>2. CASE WaitReady
  <2>1. /\ main = "wait" /\ UNCHANGED <<m_inputs, block, m_input_tail>>
        /\ main' \in {"stop", "connect"} /\ (main' # "stop" => at' = at + 1)
    BY <1>2 DEF WaitReady, Answered, fetchVars
  <2>2. m_inputs # <<>>
    <3>1. Len(m_inputs) # 0
      BY <2>1, SMT DEF FetchInv, FetchType, TasksCounted
    <3> QED BY <3>1, SMT
  <2>3. /\ block \in Blocks /\ at \in 1 .. Len(Inputs(block)) + 1 /\ Len(Inputs(block)) \in Nat
        /\ at <= Len(Inputs(block)) /\ m_input_tail = Len(Queued(block)[at]) + 1
        /\ Len(m_inputs) = Len(ToFetch(block))
        /\ \A i \in 1 .. Len(m_inputs) : m_inputs[i].outpoint = ToFetch(block)[i].prevout
    BY <2>1, <2>2, InputsType, SMT DEF QueueOrder
  <2>4. at + 1 \in 1 .. Len(Inputs(block)) + 1 /\ (at + 1) - 1 = at
    BY <2>3, SMT
  <2>5. m_input_tail = Len(Queued(block)[(at + 1) - 1]) + 1
    BY <2>3, <2>4
  <2> QED BY <2>1, <2>3, <2>4, <2>5, SMT DEF QueueOrder
<1>3. CASE ConnectDone \/ ConnectRefused \/ StopFetching \/ Clear
  BY <1>3 DEF ConnectDone, ConnectRefused, StopFetching, Clear, QueueOrder
<1> QED BY <1>1, <1>2, <1>3

(* The inductive invariant of the order.                                   *)
THEOREM QueueOrderHolds == OverlaySpec => []QueueOrder
<1>1. OverlayInit => QueueOrder
  BY DEF OverlayInit, QueueOrder
<1>2. FetchInv /\ QueueOrder /\ [OverlayNext]_overlayVars => QueueOrder'
  <2> SUFFICES ASSUME FetchInv, QueueOrder, [OverlayNext]_overlayVars PROVE QueueOrder'
    OBVIOUS
  <2>1. CASE UNCHANGED overlayVars
    BY <2>1 DEF overlayVars, fetchVars, mainVars, QueueOrder
  <2> QED BY <2>1, OrderTasks, OrderStart, OrderMain DEF OverlayNext, MainStep
<1> QED BY <1>1, <1>2, FetchInvHolds, PTL DEF OverlaySpec

(* What Flush assumes: when ConnectBlock has gone through all inputs of a  *)
(* block, it has consumed every input that was queued.                     *)
THEOREM InputsAllConsumed == OverlaySpec => []AllInputsConsumed
<1>1. FetchInv /\ QueueOrder => AllInputsConsumed
  <2> SUFFICES ASSUME FetchInv, QueueOrder, main = "connect", at > Len(Inputs(block))
               PROVE  m_input_tail = Len(m_inputs) + 1
    BY DEF AllInputsConsumed
  <2>1. CASE m_inputs = <<>>
    <3>1. Len(m_inputs) = 0 /\ m_input_tail \in 1 .. Len(m_inputs) + 1
      BY <2>1 DEF FetchInv, FetchType
    <3> QED BY <3>1, SMT
  <2>2. CASE m_inputs # <<>>
    <3>1. block \in Blocks /\ at \in 1 .. Len(Inputs(block)) + 1 /\ Len(Inputs(block)) \in Nat
      BY InputsType, SMT DEF QueueOrder
    <3>2. at - 1 = Len(Inputs(block))
      BY <3>1, SMT
    <3>3. Len(m_inputs) = Len(ToFetch(block)) /\ m_input_tail = Len(Queued(block)[at - 1]) + 1
      BY <2>2 DEF QueueOrder
    <3> QED BY <3>2, <3>3 DEF ToFetch
  <2> QED BY <2>1, <2>2
<1> QED BY <1>1, FetchInvHolds, QueueOrderHolds, PTL
=============================================================================
