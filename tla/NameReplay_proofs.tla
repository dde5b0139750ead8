-------------------------- MODULE NameReplay_proofs -------------------------
(* Crash recovery for any blocks, any number of crashes and any batches:   *)
(* the chains between which the database is are chains that NameChain      *)
(* connected, and what ReplayBlocks does with a coin depends only on       *)
(* whether a block spends or creates it.                                   *)
EXTENDS NameReplay, NameChain_proofs, WellFoundedInduction

(* Most leaves are first-order, so Zenon is the default prover; a leaf that  *)
(* needs arithmetic, records or function application says SMT.              *)
USE Zenon

-----------------------------------------------------------------------------
(* Chains as values: what NameChain's invariant says of the active chain,  *)
(* without the state it is in.                                             *)

Txs(c, i) == UNION {TxsOf(c[j]) : j \in 1 .. i}

(* Every transaction of a block spends coins that are there.               *)
Fresh(b) == \A k \in 1 .. Len(b.vtx) : \A o \in vin[b.vtx[k]] : b.coinsLog[k][o] # Spent

LinkOK(c, i) ==
  LET b == c[i]
      h == BaseHeight + i
  IN /\ BlockOK(b, h)
     /\ Fresh(b)
     /\ Before(b) = DbAfter(SubSeq(c, 1, i - 1))
     /\ DBOK(Before(b), Txs(c, i - 1), h - 1, h - 1)
     /\ DBOK(Applied(b), Txs(c, i), h - 1, h)
     /\ b.vexpired = ExpireUndo(Applied(b), h + 1)

Valid(c) ==
  /\ c \in Seq(BlockType)
  /\ BaseHeight + Len(c) <= MaxHeight
  /\ \A i \in 1 .. Len(c) : LinkOK(c, i)
  /\ DBOK(DbAfter(c), Txs(c, Len(c)), BaseHeight + Len(c), BaseHeight + Len(c))

(* Coin x is that of a name in vexpired.                                   *)
ExpiredAt(ns, vexpired, x) == \E e \in vexpired : ns.data[e.name].out = x

(* Coin x is the same in both databases.                                   *)
SameCoin(db, a, x) == db.coins[x] = a.coins[x]

(* UnexpireNames, with the coins of a's view, on coin x of the database.   *)
UnexpiresCoin(db, a, vexpired, h, x) ==
  /\ ExpiredAt(db.names, vexpired, x) => Unexpired(db, vexpired, h)[x] = a.coins[x]
  /\ ~ExpiredAt(db.names, vexpired, x) => Unexpired(db, vexpired, h)[x] = db.coins[x]

(* A coin u is that of one block or that of another.                       *)
OneOf(u, v, w) == u \in {v, w}

-----------------------------------------------------------------------------
(* Induction.                                                              *)

(* A set of naturals has a least element.                                  *)
LEMMA LeastNat ==
  ASSUME NEW H \in SUBSET Nat, H # {}
  PROVE  \E n \in H : \A m \in H : n <= m
<1>1. \E n \in H : \A m \in H : ~(<<m, n>> \in OpToRel(<, Nat))
  BY NatLessThanWellFounded, WFMin
<1>2. ASSUME NEW m \in Nat, NEW n \in Nat, m < n PROVE <<m, n>> \in OpToRel(<, Nat)
  BY <1>2 DEF OpToRel
<1>3. \E n \in H : \A m \in H : ~(m < n)
  BY <1>1, <1>2
<1> QED BY <1>3, SMT

(* Induction up to a bound, for a set of numbers.                          *)
LEMMA UpTo ==
  ASSUME NEW N \in Nat, NEW G, 0 \in G, \A n \in 0 .. N : n < N /\ n \in G => n + 1 \in G
  PROVE  0 .. N \subseteq G
<1> DEFINE H == {n \in 0 .. N : n \notin G}
<1> SUFFICES ASSUME H # {} PROVE FALSE
  OBVIOUS
<1>1. PICK n \in H : \A m \in H : n <= m
  <2>1. H \in SUBSET Nat
    BY SMT
  <2> HIDE DEF H
  <2> QED BY <2>1, LeastNat
<1>2. n # 0 /\ n - 1 \in 0 .. N /\ n - 1 < N /\ (n - 1) + 1 = n
  BY <1>1, SMT
<1>3. n - 1 \in G
  BY <1>1, <1>2, SMT
<1> QED BY <1>1, <1>2, <1>3

-----------------------------------------------------------------------------
(* What a block does to one coin.                                          *)

(* The log of coins begins before the block and ends after it.             *)
LEMMA LogEnds ==
  ASSUME NEW b \in BlockType, NEW h, BlockOK(b, h)
  PROVE  /\ Len(b.vtx) \in Nat /\ DOMAIN b.vtx = 1 .. Len(b.vtx)
         /\ \A k \in 1 .. Len(b.vtx) : b.vtx[k] \in Tx
         /\ Before(b).coins = b.coinsLog[1]
         /\ Applied(b).coins = b.coinsLog[Len(b.vtx) + 1]
<1>1. b.vtx \in Seq(Tx)
  BY DEF BlockType
<1>2. /\ Len(b.vtx) \in Nat /\ DOMAIN b.vtx = 1 .. Len(b.vtx)
      /\ \A k \in 1 .. Len(b.vtx) : b.vtx[k] \in Tx
  BY <1>1, SMT
<1>3. Len(b.coinsLog) = Len(b.vtx) + 1
  BY DEF BlockOK
<1>4. Before(b).coins = b.coinsLog[1] /\ Applied(b).coins = b.coinsLog[Len(b.vtx) + 1]
  BY <1>3 DEF Before, Applied
<1> QED BY <1>2, <1>4

(* A transaction creates its outputs, spends its inputs and leaves the     *)
(* other coins alone.                                                      *)
LEMMA LogStep ==
  ASSUME NEW b \in BlockType, NEW h, BlockOK(b, h), NEW x \in OutPoint,
         NEW k \in 1 .. Len(b.vtx)
  PROVE  /\ x \in vout[b.vtx[k]] => b.coinsLog[k + 1][x] = h
         /\ x \in vin[b.vtx[k]] => b.coinsLog[k + 1][x] = Spent
         /\ x \notin vin[b.vtx[k]] /\ x \notin vout[b.vtx[k]] =>
              b.coinsLog[k + 1][x] = b.coinsLog[k][x]
<1> DEFINE t == b.vtx[k]
<1>1. t \in Tx /\ vin[t] \cap vout[t] = {}
  BY LogEnds, CatalogueAssumption
<1>2. b.coinsLog[k + 1] = UpdateCoins(b.coinsLog[k], t, h)
  BY DEF BlockOK
<1> HIDE DEF t
<1>3. b.coinsLog[k + 1][x] = CASE x \in vout[t] -> h
                               [] x \in vin[t] \ vout[t] -> Spent
                               [] OTHER -> b.coinsLog[k][x]
  BY <1>2 DEF UpdateCoins
<1>4. x \in vin[t] => x \notin vout[t]
  BY <1>1
<1>5. x \in vout[t] => b.coinsLog[k + 1][x] = h
  BY <1>3
<1>6. x \in vin[t] => b.coinsLog[k + 1][x] = Spent
  BY <1>3, <1>4
<1>7. x \notin vin[t] /\ x \notin vout[t] => b.coinsLog[k + 1][x] = b.coinsLog[k][x]
  BY <1>3
<1> QED BY <1>5, <1>6, <1>7 DEF t

(* A coin that the first transactions of a block do not create is spent by *)
(* one of them or left alone by all.                                       *)
LEMMA NotCreated ==
  ASSUME NEW b \in BlockType, NEW h \in CoinHeight, BlockOK(b, h), NEW x \in OutPoint,
         NEW m \in 0 .. Len(b.vtx), \A k \in 1 .. m : x \notin vout[b.vtx[k]]
  PROVE  /\ (\E k \in 1 .. m : x \in vin[b.vtx[k]]) => b.coinsLog[m + 1][x] = Spent
         /\ (\A k \in 1 .. m : x \notin vin[b.vtx[k]]) =>
              b.coinsLog[m + 1][x] = b.coinsLog[1][x]
<1> DEFINE L == Len(b.vtx)
           log == b.coinsLog
           In(k) == x \in vin[b.vtx[k]]
           Was(n) == /\ (\E k \in 1 .. n : In(k)) => log[n + 1][x] = Spent
                     /\ (\A k \in 1 .. n : ~In(k)) => log[n + 1][x] = log[1][x]
           G == {n \in Nat : n <= m => Was(n)}
<1>0. /\ L \in Nat /\ m \in Nat /\ m <= L
      /\ \A k \in 1 .. L : In(k) => log[k + 1][x] = Spent
      /\ \A k \in 1 .. m : ~In(k) => log[k + 1][x] = log[k][x]
  <2>1. L \in Nat
    BY LogEnds
  <2>2. m \in Nat /\ m <= L /\ \A k \in 1 .. m : k \in 1 .. L
    BY <2>1, SMT
  <2>3. \A k \in 1 .. L : In(k) => log[k + 1][x] = Spent
    BY LogStep
  <2>4. \A k \in 1 .. L : ~In(k) /\ x \notin vout[b.vtx[k]] => log[k + 1][x] = log[k][x]
    BY LogStep
  <2>5. \A k \in 1 .. m : ~In(k) => log[k + 1][x] = log[k][x]
    <3> HIDE DEF In, log
    <3> QED BY <2>2, <2>4
  <2> QED BY <2>1, <2>2, <2>3, <2>5
<1> HIDE DEF L, log, In
<1>1. 0 \in G
  <2>1. \A k \in 1 .. 0 : FALSE
    BY SMT
  <2>2. 0 + 1 = 1 /\ 0 \in Nat
    BY SMT
  <2>3. ~\E k \in 1 .. 0 : In(k)
    BY <2>1
  <2>4. log[0 + 1][x] = log[1][x]
    BY <2>2
  <2>5. Was(0)
    BY <2>3, <2>4
  <2> HIDE DEF Was
  <2> QED BY <2>2, <2>5
<1>2. ASSUME NEW n \in 0 .. m, n < m, n \in G
      PROVE  n + 1 \in G
  <2>1. /\ n + 1 \in Nat /\ n \in Nat /\ n <= m /\ n + 1 \in 1 .. m /\ n + 1 \in 1 .. L
        /\ \A k \in 1 .. n + 1 : k \in 1 .. n \/ k = n + 1
        /\ \A k \in 1 .. n : k \in 1 .. n + 1
        /\ n + 1 \in 1 .. n + 1
    BY <1>0, <1>2, SMT
  <2>2. Was(n)
    BY <1>2, <2>1
  <2>3. CASE In(n + 1)
    <3>1. log[(n + 1) + 1][x] = Spent
      BY <1>0, <2>1, <2>3
    <3> QED BY <2>1, <2>3, <3>1
  <2>4. CASE ~In(n + 1)
    <3>1. log[(n + 1) + 1][x] = log[n + 1][x]
      BY <1>0, <2>1, <2>4
    <3> QED BY <2>1, <2>2, <2>4, <3>1
  <2> QED BY <2>3, <2>4
<1>3. Was(m)
  <2>1. 0 .. m \subseteq G
    <3> HIDE DEF G
    <3> QED BY <1>0, <1>1, <1>2, UpTo
  <2>2. m \in 0 .. m /\ m <= m
    BY <1>0, SMT
  <2> QED BY <2>1, <2>2
<1> QED BY <1>3 DEF In, log

(* A coin that a block creates and does not spend has the block's height.  *)
LEMMA CreatedStays ==
  ASSUME NEW b \in BlockType, NEW h \in CoinHeight, BlockOK(b, h), NEW x \in OutPoint,
         Creates(b, x), ~Spends(b, x)
  PROVE  Applied(b).coins[x] = h
<1> DEFINE L == Len(b.vtx)
           log == b.coinsLog
           Out(k) == x \in vout[b.vtx[k]]
<1>0. /\ L \in Nat
      /\ \A k \in 1 .. L : Out(k) => log[k + 1][x] = h
      /\ \A k \in 1 .. L : ~Out(k) => log[k + 1][x] = log[k][x]
      /\ Applied(b).coins = log[L + 1]
      /\ \E j \in 1 .. L : Out(j)
  <2>1. L \in Nat /\ DOMAIN b.vtx = 1 .. L /\ Applied(b).coins = log[L + 1]
    BY LogEnds
  <2>2. ASSUME NEW k \in 1 .. L PROVE Out(k) => log[k + 1][x] = h
    BY <2>2, LogStep, SMT
  <2>3. ASSUME NEW k \in 1 .. L
        PROVE  x \notin vin[b.vtx[k]] /\ ~Out(k) => log[k + 1][x] = log[k][x]
    BY <2>3, LogStep
  <2>4. \A k \in 1 .. L : x \notin vin[b.vtx[k]]
    BY <2>1 DEF Spends
  <2>5. \E j \in 1 .. L : Out(j)
    BY <2>1 DEF Creates
  <2>6. \A k \in 1 .. L : ~Out(k) => log[k + 1][x] = log[k][x]
    <3> HIDE DEF Out, log
    <3> QED BY <2>3, <2>4
  <2> QED BY <2>1, <2>2, <2>5, <2>6
<1> HIDE DEF L, log, Out
<1>1. PICK j \in 1 .. L : Out(j)
  BY <1>0
<1> DEFINE G == {n \in Nat : n >= j => log[n + 1][x] = h}
<1>2. 0 \in G
  BY <1>0, SMT
<1>3. ASSUME NEW n \in 0 .. L, n < L, n \in G
      PROVE  n + 1 \in G
  <2>1. n \in Nat /\ n + 1 \in Nat /\ n + 1 \in 1 .. L /\ (n + 1 >= j => n >= j \/ n + 1 = j)
    BY <1>0, <1>3, SMT
  <2>2. ASSUME n + 1 >= j PROVE log[(n + 1) + 1][x] = h
    <3>1. Out(n + 1) => log[(n + 1) + 1][x] = h
      BY <1>0, <2>1
    <3>2. ~Out(n + 1) => n + 1 # j /\ log[(n + 1) + 1][x] = log[n + 1][x]
      BY <1>0, <1>1, <2>1
    <3>3. n + 1 # j => log[n + 1][x] = h
      BY <1>3, <2>1, <2>2
    <3> QED BY <3>1, <3>2, <3>3
  <2> QED BY <2>1, <2>2
<1>4. 0 .. L \subseteq G
  <2> HIDE DEF G
  <2> QED BY <1>0, <1>2, <1>3, UpTo
<1>5. L \in 0 .. L /\ L >= j
  BY <1>0, SMT
<1> QED BY <1>0, <1>4, <1>5

(* No transaction is connected twice, so the coins a block creates are not *)
(* there before it.                                                        *)
LEMMA CreatedAreNew ==
  ASSUME NEW b \in BlockType, NEW h \in CoinHeight, BlockOK(b, h), Fresh(b),
         NEW C \in SUBSET Tx, LedgerOK(Before(b).coins, C),
         NEW x \in OutPoint, Creates(b, x)
  PROVE  Before(b).coins[x] = Spent
<1> DEFINE L == Len(b.vtx)
           t(k) == b.vtx[k]
           before == b.coinsLog[1]
           H == {k \in 1 .. L : t(k) \in C}
<1>0. /\ L \in Nat /\ Before(b).coins = before
      /\ \A k \in 1 .. L : t(k) \in Tx
      /\ \E k \in 1 .. L : x \in vout[t(k)]
  BY LogEnds DEF Creates
<1>1. /\ \A u \in C : \A o \in vin[u] : before[o] = Spent
      /\ \A u \in C : \A o \in vin[u] : o \in BaseCoins \/ \E v \in C : o \in vout[v]
      /\ \A o \in OutPoint : before[o] # Spent => o \in BaseCoins \/ \E v \in C : o \in vout[v]
  BY <1>0 DEF LedgerOK
<1>2. /\ \A u \in Tx : vin[u] \subseteq OutPoint /\ vin[u] # {} /\ vout[u] \cap BaseCoins = {}
      /\ \A u, v \in Tx : u # v => vout[u] \cap vout[v] = {}
  BY CatalogueAssumption, BaseAssumption
<1>3. ASSUME NEW k \in H, \A j \in H : k <= j
      PROVE  FALSE
  <2>1. k \in 1 .. L /\ t(k) \in C /\ t(k) \in Tx
    BY <1>0, <1>3
  <2>2. PICK y \in vin[t(k)] : TRUE
    BY <1>2, <2>1
  <2>3. /\ before[y] = Spent /\ y \in OutPoint
        /\ y \in BaseCoins \/ \E v \in C : y \in vout[v]
    BY <1>1, <1>2, <2>1, <2>2
  <2>4. b.coinsLog[k][y] # Spent
    BY <2>1, <2>2 DEF Fresh
  <2>5. k - 1 \in 0 .. L /\ (k - 1) + 1 = k /\ \A j \in 1 .. k - 1 : j \in 1 .. L /\ ~(k <= j)
    BY <1>0, <2>1, SMT
  <2>6. PICK j \in 1 .. k - 1 : y \in vout[t(j)]
    <3>1. SUFFICES ASSUME \A j \in 1 .. k - 1 : y \notin vout[b.vtx[j]] PROVE FALSE
      OBVIOUS
    <3>2. /\ (\E i \in 1 .. k - 1 : y \in vin[b.vtx[i]]) => b.coinsLog[k][y] = Spent
          /\ (\A i \in 1 .. k - 1 : y \notin vin[b.vtx[i]]) => b.coinsLog[k][y] = before[y]
      <4>1. /\ (\E i \in 1 .. k - 1 : y \in vin[b.vtx[i]]) => b.coinsLog[(k - 1) + 1][y] = Spent
            /\ (\A i \in 1 .. k - 1 : y \notin vin[b.vtx[i]]) =>
                 b.coinsLog[(k - 1) + 1][y] = before[y]
        BY <2>3, <2>5, <3>1, NotCreated
      <4> QED BY <2>5, <4>1
    <3> QED BY <2>3, <2>4, <3>2
  <2>7. j \in 1 .. L /\ t(j) \in Tx
    BY <1>0, <2>5, <2>6
  <2>8. t(j) \in C
    BY <1>2, <2>3, <2>6, <2>7
  <2> QED BY <1>3, <2>5, <2>6, <2>7, <2>8
<1>4. H = {}
  <2>1. H \in SUBSET Nat
    BY <1>0, SMT
  <2> HIDE DEF H
  <2> QED BY <1>3, <2>1, LeastNat
<1>5. PICK k \in 1 .. L : x \in vout[t(k)]
  BY <1>0
<1>6. t(k) \notin C /\ t(k) \in Tx
  BY <1>0, <1>4, <1>5
<1>7. x \notin BaseCoins /\ \A v \in C : x \notin vout[v]
  BY <1>2, <1>5, <1>6
<1> QED BY <1>0, <1>1, <1>7

(* The coin that DisconnectBlock brings back is the one before the block,  *)
(* whichever transaction spent it.                                         *)
LEMMA UndoIsBefore ==
  ASSUME NEW b \in BlockType, NEW h \in CoinHeight, BlockOK(b, h), Fresh(b),
         NEW x \in OutPoint, ~Creates(b, x), NEW k \in DOMAIN b.vtx, x \in vin[b.vtx[k]]
  PROVE  b.vtxundo[k][x] = Before(b).coins[x]
<1>1. /\ Len(b.vtx) \in Nat /\ k \in 1 .. Len(b.vtx)
      /\ \A j \in 1 .. Len(b.vtx) : x \notin vout[b.vtx[j]]
      /\ Before(b).coins = b.coinsLog[1]
  BY LogEnds DEF Creates
<1>2. k - 1 \in 0 .. Len(b.vtx) /\ (k - 1) + 1 = k /\ \A j \in 1 .. k - 1 : j \in 1 .. Len(b.vtx)
  BY <1>1, SMT
<1>3. /\ (\E j \in 1 .. k - 1 : x \in vin[b.vtx[j]]) => b.coinsLog[k][x] = Spent
      /\ (\A j \in 1 .. k - 1 : x \notin vin[b.vtx[j]]) => b.coinsLog[k][x] = b.coinsLog[1][x]
  <2>1. \A j \in 1 .. k - 1 : x \notin vout[b.vtx[j]]
    BY <1>1, <1>2
  <2>2. /\ (\E j \in 1 .. k - 1 : x \in vin[b.vtx[j]]) => b.coinsLog[(k - 1) + 1][x] = Spent
        /\ (\A j \in 1 .. k - 1 : x \notin vin[b.vtx[j]]) =>
             b.coinsLog[(k - 1) + 1][x] = b.coinsLog[1][x]
    BY <1>2, <2>1, NotCreated
  <2> QED BY <1>2, <2>2
<1>4. b.coinsLog[k][x] # Spent
  BY <1>1 DEF Fresh
<1>5. b.vtxundo[k] = TxUndo(b.coinsLog[k], b.vtx[k])
  BY <1>1 DEF BlockOK
<1>6. b.vtxundo[k][x] = b.coinsLog[k][x]
  BY <1>5 DEF TxUndo
<1> QED BY <1>1, <1>3, <1>4, <1>6

(* What is neither spent nor created is as before, what is spent is gone.  *)
LEMMA SpentOrSame ==
  ASSUME NEW b \in BlockType, NEW h \in CoinHeight, BlockOK(b, h),
         NEW C, LedgerOK(Applied(b).coins, C), TxsOf(b) \subseteq C, NEW x \in OutPoint
  PROVE  /\ Spends(b, x) => Applied(b).coins[x] = Spent
         /\ ~Spends(b, x) /\ ~Creates(b, x) => Applied(b).coins[x] = Before(b).coins[x]
<1>1. /\ Len(b.vtx) \in Nat /\ DOMAIN b.vtx = 1 .. Len(b.vtx)
      /\ Before(b).coins = b.coinsLog[1] /\ Applied(b).coins = b.coinsLog[Len(b.vtx) + 1]
  BY LogEnds
<1>2. Spends(b, x) => Applied(b).coins[x] = Spent
  BY <1>1 DEF Spends, LedgerOK, TxsOf
<1>3. Len(b.vtx) \in 0 .. Len(b.vtx)
  BY <1>1, SMT
<1>4. ~Spends(b, x) /\ ~Creates(b, x) => b.coinsLog[Len(b.vtx) + 1][x] = b.coinsLog[1][x]
  BY <1>1, <1>3, NotCreated DEF Spends, Creates
<1> QED BY <1>1, <1>2, <1>4

-----------------------------------------------------------------------------
(* What a block of a valid chain does to one coin.                         *)

(* The blocks of a valid chain, and the heights and databases around one.  *)
LEMMA ChainFacts ==
  ASSUME NEW c, Valid(c), NEW i \in 1 .. Len(c)
  PROVE  /\ Len(c) \in Nat /\ c[i] \in BlockType
         /\ BlockOK(c[i], BaseHeight + i) /\ Fresh(c[i])
         /\ Before(c[i]) \in DBType /\ Applied(c[i]) \in DBType
         /\ BaseHeight + i \in CoinHeight
         /\ (BaseHeight + i) - 1 \in Nat /\ (BaseHeight + i) - 1 < MaxHeight
         /\ Txs(c, i) \subseteq Tx /\ Txs(c, i - 1) \subseteq Tx
         /\ TxsOf(c[i]) \subseteq Txs(c, i)
<1>1. c \in Seq(BlockType) /\ BaseHeight + Len(c) <= MaxHeight /\ LinkOK(c, i)
  BY DEF Valid
<1>2. Len(c) \in Nat /\ \A j \in 1 .. Len(c) : c[j] \in BlockType
  BY <1>1, SMT
<1>3. BlockOK(c[i], BaseHeight + i) /\ Fresh(c[i])
  BY <1>1 DEF LinkOK
<1>4. Before(c[i]) \in DBType /\ Applied(c[i]) \in DBType
  BY <1>2, <1>3, BlockEnds
<1>5. /\ BaseHeight + i \in CoinHeight
      /\ (BaseHeight + i) - 1 \in Nat /\ (BaseHeight + i) - 1 < MaxHeight
  BY <1>1, <1>2, BaseAssumption, ParamsAssumption, SMT DEF CoinHeight
<1>6. ASSUME NEW j \in 1 .. Len(c) PROVE TxsOf(c[j]) \subseteq Tx
  <2>1. LinkOK(c, j)
    BY DEF Valid
  <2>2. BlockOK(c[j], BaseHeight + j) /\ c[j] \in BlockType
    BY <1>2, <2>1 DEF LinkOK
  <2> QED BY <2>2, LogEnds DEF TxsOf
<1>7. /\ \A j \in 1 .. i : j \in 1 .. Len(c)
      /\ \A j \in 1 .. i - 1 : j \in 1 .. Len(c)
      /\ i \in 1 .. i
  BY <1>2, SMT
<1>8. /\ Txs(c, i) \subseteq Tx /\ Txs(c, i - 1) \subseteq Tx
      /\ TxsOf(c[i]) \subseteq Txs(c, i)
  BY <1>6, <1>7 DEF Txs
<1> QED BY <1>2, <1>3, <1>4, <1>5, <1>8

(* The database at the end of a block: that of its transactions without    *)
(* the coins of the names that expire.                                     *)
LEMMA DbAfterBlock ==
  ASSUME NEW c \in Seq(BlockType), NEW i \in 1 .. Len(c)
  PROVE  DbAfter(SubSeq(c, 1, i))
           = [coins |-> ExpireCoins(Applied(c[i]), BaseHeight + i + 1), names |-> Applied(c[i]).names]
<1>1. Len(c) \in Nat
  BY SMT
<1>2. i \in 0 .. Len(c)
  BY <1>1, SMT
<1>3. Len(SubSeq(c, 1, i)) = i /\ \A k \in 1 .. i : SubSeq(c, 1, i)[k] = c[k]
  BY <1>1, <1>2, FrontFacts
<1>4. i # 0 /\ i \in 1 .. i /\ Len(<<>>) = 0
  BY <1>1, SMT
<1>5. SubSeq(c, 1, i) # <<>> /\ SubSeq(c, 1, i)[Len(SubSeq(c, 1, i))] = c[i]
  BY <1>3, <1>4
<1> QED BY <1>3, <1>5 DEF DbAfter

(* ExpireNames finds what it checks for.                                   *)
LEMMA ExpireFinds ==
  ASSUME NEW c, Valid(c), NEW i \in 1 .. Len(c)
  PROVE  LET a == Applied(c[i])
             h == BaseHeight + i
         IN /\ [coins |-> ExpireCoins(a, h + 1), names |-> a.names] \in DBType
            /\ c[i].vexpired = ExpireUndo(a, h + 1)
            /\ \A n \in ExpiringNames(a.names, h + 1) :
                 /\ n \in Name /\ a.names.data[n] # NoData
                 /\ isExpired(a.names.data[n].height, h + 1)
                 /\ ~isExpired(a.names.data[n].height, h)
                 /\ isAnyUpdate(a.names.data[n].out)
<1> DEFINE a == Applied(c[i])
           h == BaseHeight + i
           E == ExpiringNames(a.names, h + 1)
           new == [coins |-> ExpireCoins(a, h + 1), names |-> a.names]
<1>1. a \in DBType /\ h - 1 \in Nat /\ h - 1 < MaxHeight /\ Txs(c, i) \in SUBSET Tx /\ Len(c) \in Nat
  BY ChainFacts
<1>2. LinkOK(c, i)
  BY DEF Valid
<1>3. DBOK(a, Txs(c, i), h - 1, h) /\ c[i].vexpired = ExpireUndo(a, h + 1)
  BY <1>2 DEF LinkOK
<1>4. (h - 1) + 2 = h + 1 /\ (h - 1) + 1 = h
  BY <1>1, BaseAssumption, SMT
<1> HIDE DEF a, h
<1>5. new \in DBType /\ ExpireChecks(a, h + 1)
  <2>1. DBOK(a, Txs(c, i), h - 1, (h - 1) + 1)
    BY <1>3, <1>4
  <2>2. /\ [coins |-> ExpireCoins(a, (h - 1) + 2), names |-> a.names] \in DBType
        /\ ExpireChecks(a, (h - 1) + 2)
    BY <1>1, <2>1, ExpireNamesOK
  <2> QED BY <1>4, <2>2
<1>6. ASSUME NEW n \in E PROVE n \in Name /\ ~isExpired(a.names.data[n].height, h)
  <2>1. n \in Name
    BY <1>6 DEF ExpiringNames
  <2>2. IndexOK(a.names)
    BY <1>3 DEF DBOK
  <2>3. n \in ExpiringNames(a.names, (h - 1) + 2) => ~isExpired(a.names.data[n].height, (h - 1) + 1)
    BY <1>1, <2>1, <2>2, ExpiringNamesExact
  <2> QED BY <1>4, <1>6, <2>1, <2>3
<1>7. \A n \in E : /\ a.names.data[n] # NoData
                   /\ isExpired(a.names.data[n].height, h + 1)
                   /\ isAnyUpdate(a.names.data[n].out)
  BY <1>5 DEF ExpireChecks, GetName
<1> QED BY <1>3, <1>5, <1>6, <1>7 DEF a, h

(* The database at the end of a block is well-formed.                      *)
LEMMA DbAfterBlockType ==
  ASSUME NEW c, Valid(c), NEW i \in 1 .. Len(c)
  PROVE  DbAfter(SubSeq(c, 1, i)) \in DBType
<1>1. [coins |-> ExpireCoins(Applied(c[i]), BaseHeight + i + 1), names |-> Applied(c[i]).names] \in DBType
  BY ExpireFinds
<1>2. c \in Seq(BlockType)
  BY DEF Valid
<1> QED BY <1>1, <1>2, DbAfterBlock

(* What the entry e of vexpired says of the database at the end of the     *)
(* transactions of a block at height h.                                    *)
Expires(db, h, e) ==
  LET data == db.names.data[e.name]
  IN /\ e.name \in Name /\ data # NoData
     /\ isExpired(data.height, h + 1) /\ ~isExpired(data.height, h)
     /\ isAnyUpdate(data.out)
     /\ e.height = db.coins[data.out]

(* The names in vexpired are those that ExpireNames finds.                 *)
LEMMA ExpiredName ==
  ASSUME NEW c, Valid(c), NEW i \in 1 .. Len(c), NEW e \in c[i].vexpired
  PROVE  Expires(Applied(c[i]), BaseHeight + i, e)
<1> DEFINE a == Applied(c[i])
           h == BaseHeight + i
           E == ExpiringNames(a.names, h + 1)
<1>1. c[i].vexpired = ExpireUndo(a, h + 1)
  BY ExpireFinds
<1>2. \A n \in E : /\ n \in Name /\ a.names.data[n] # NoData
                   /\ isExpired(a.names.data[n].height, h + 1)
                   /\ ~isExpired(a.names.data[n].height, h)
                   /\ isAnyUpdate(a.names.data[n].out)
  BY ExpireFinds
<1> HIDE DEF a, h
<1>3. c[i].vexpired = {[name |-> n, height |-> a.coins[a.names.data[n].out]] : n \in E}
  BY <1>1 DEF ExpireUndo, GetName
<1> HIDE DEF E
<1>4. PICK n \in E : e = [name |-> n, height |-> a.coins[a.names.data[n].out]]
  BY <1>3
<1>5. e.name = n /\ e.height = a.coins[a.names.data[n].out]
  BY <1>4
<1>6. Expires(a, h, e)
  BY <1>2, <1>5 DEF Expires
<1> QED BY <1>6 DEF a, h

(* ExpireNames spares the coins of the names that are not in vexpired: at  *)
(* the end of the block they are what its transactions left.               *)
LEMMA ExpiredCoin ==
  ASSUME NEW c, Valid(c), NEW i \in 1 .. Len(c), NEW x \in OutPoint,
         ~ExpiredAt(Applied(c[i]).names, c[i].vexpired, x)
  PROVE  SameCoin(DbAfter(SubSeq(c, 1, i)), Applied(c[i]), x)
<1> USE DEF ExpiredAt, SameCoin
<1> DEFINE a == Applied(c[i])
           h == BaseHeight + i
           E == ExpiringNames(a.names, h + 1)
<1>1. c[i].vexpired = ExpireUndo(a, h + 1)
  BY ExpireFinds
<1>2. DbAfter(SubSeq(c, 1, i)).coins = ExpireCoins(a, h + 1)
  <2>1. DbAfter(SubSeq(c, 1, i)) = [coins |-> ExpireCoins(a, h + 1), names |-> a.names]
    BY DbAfterBlock DEF Valid
  <2> QED BY <2>1, SMT
<1> HIDE DEF a, h
<1>3. ASSUME NEW n \in E PROVE a.names.data[n].out # x
  <2>1. [name |-> n, height |-> a.coins[a.names.data[n].out]] \in c[i].vexpired
    BY <1>1, <1>3 DEF ExpireUndo, GetName
  <2>2. [name |-> n, height |-> a.coins[a.names.data[n].out]].name = n
    OBVIOUS
  <2> QED BY <2>1, <2>2 DEF a
<1>4. ExpireCoins(a, h + 1)[x] = IF \E n \in E : a.names.data[n].out = x THEN Spent ELSE a.coins[x]
  <2> HIDE DEF E
  <2> QED BY DEF ExpireCoins, GetName, E
<1> HIDE DEF E
<1> QED BY <1>2, <1>3, <1>4 DEF a

-----------------------------------------------------------------------------
(* One block of ReplayBlocks.                                              *)

(* UnexpireNames on a coin: it is brought back if it is that of the only   *)
(* name of vexpired, and left alone if it is that of none.                 *)
LEMMA UnexpiredCoin ==
  ASSUME NEW c, Valid(c), NEW i \in 1 .. Len(c), NEW db, db.names = Applied(c[i]).names,
         NEW x \in OutPoint, ~isAnyUpdate(x) \/ AtMostOne(c[i].vexpired)
  PROVE  UnexpiresCoin(db, Applied(c[i]), c[i].vexpired, (BaseHeight + i) + 1, x)
<1> USE DEF ExpiredAt, UnexpiresCoin
<1> DEFINE V == c[i].vexpired
           a == Applied(c[i])
           h == BaseHeight + i
           Data(e) == db.names.data[e.name]
           Matches(e) == Data(e) # NoData /\ isExpired(Data(e).height, h + 1)
                           /\ ~isExpired(Data(e).height, (h + 1) - 1)
           Stops(e) == ~Matches(e) \/ db.coins[Data(e).out] # Spent
           Reached(e) == \A d \in V : <<e.name, d.name>> \in NameLess => ~Stops(d)
           S == {e \in V : Reached(e) /\ Matches(e)}
<1>1. Unexpired(db, V, h + 1) = UnexpireCoins(db, S)
  BY DEF Unexpired, GetName
<1>2. /\ \A e \in V : e.name \in Name /\ isAnyUpdate(Data(e).out) /\ e.height = a.coins[Data(e).out]
      /\ \A e \in V : Data(e) # NoData /\ isExpired(Data(e).height, h + 1)
                     /\ ~isExpired(Data(e).height, h)
  <2>1. ASSUME NEW e \in V
        PROVE  /\ e.name \in Name /\ a.names.data[e.name] # NoData
               /\ isExpired(a.names.data[e.name].height, h + 1)
               /\ ~isExpired(a.names.data[e.name].height, h)
               /\ isAnyUpdate(a.names.data[e.name].out)
               /\ e.height = a.coins[a.names.data[e.name].out]
    <3>1. Expires(a, h, e)
      BY <2>1, ExpiredName
    <3> HIDE DEF a, h
    <3> QED BY <3>1 DEF Expires
  <2>2. a.names = db.names
    OBVIOUS
  <2> HIDE DEF a, h, V
  <2> QED BY <2>1, <2>2
<1>3. (h + 1) - 1 = h
  <2>1. h \in Nat
    BY ChainFacts, ParamsAssumption, SMT DEF CoinHeight
  <2> QED BY <2>1, SMT
<1>4. ASSUME NEW e \in V PROVE Matches(e)
  BY <1>2, <1>3
<1> HIDE DEF V, a, h, Data, Matches
<1>5. Unexpired(db, V, h + 1)[x]
        = IF \E e \in S : Data(e).out = x
          THEN (CHOOSE e \in S : Data(e).out = x).height ELSE db.coins[x]
  <2> HIDE DEF S
  <2> QED BY <1>1 DEF UnexpireCoins, GetName, Data
<1>6. CASE ~\E e \in V : Data(e).out = x
  <2>1. ~\E e \in S : Data(e).out = x
    BY <1>6
  <2> HIDE DEF S
  <2> QED BY <1>5, <1>6, <2>1 DEF V, h, Data
<1>7. CASE \E e \in V : Data(e).out = x
  <2>1. PICK e \in V : Data(e).out = x
    BY <1>7
  <2>2. \A d \in V : d = e
    BY <1>2, <2>1 DEF AtMostOne, V
  <2>3. <<e.name, e.name>> \notin NameLess
    BY <1>2, <2>1, NameLessAssumption
  <2>4. Reached(e)
    <3> HIDE DEF Stops
    <3> QED BY <2>2, <2>3
  <2>5. e \in S
    <3> HIDE DEF Reached
    <3> QED BY <1>4, <2>1, <2>4
  <2>6. S = {e}
    <3> HIDE DEF Reached
    <3> QED BY <2>2, <2>5
  <2> HIDE DEF S
  <2>7. (CHOOSE d \in S : Data(d).out = x) = e
    BY <2>1, <2>6
  <2>8. Unexpired(db, V, h + 1)[x] = e.height
    BY <1>5, <2>1, <2>5, <2>7
  <2>9. e.height = a.coins[x]
    BY <1>2, <2>1
  <2> QED BY <1>7, <2>8, <2>9 DEF V, h, Data, a
<1> QED BY <1>6, <1>7

(* DisconnectBlock turns a coin of the block's end, and leaves a coin of   *)
(* the new tip or turns it too, into the coin before the block.            *)
LEMMA RollbackCoin ==
  ASSUME NEW c, Valid(c), NEW i \in 1 .. Len(c), NEW db, db.names = Applied(c[i]).names,
         NEW x \in OutPoint, ~isAnyUpdate(x) \/ AtMostOne(c[i].vexpired),
         NEW v, OneOf(db.coins[x], DbAfter(SubSeq(c, 1, i)).coins[x], v)
  PROVE  OneOf(RollbackBlock(db, c[i], BaseHeight + i).coins[x], Before(c[i]).coins[x], v)
<1> USE DEF OneOf
<1> DEFINE b == c[i]
           h == BaseHeight + i
           a == Applied(b)
           old == Before(b)
           U == Unexpired(db, b.vexpired, h + 1)
           Spender == CHOOSE k \in DOMAIN b.vtx : x \in vin[b.vtx[k]]
           Out == ExpiredAt(db.names, b.vexpired, x)
<1>1. /\ b \in BlockType /\ h \in CoinHeight /\ BlockOK(b, h) /\ Fresh(b)
      /\ Txs(c, i - 1) \in SUBSET Tx /\ TxsOf(b) \subseteq Txs(c, i)
  BY ChainFacts
<1>2. LedgerOK(old.coins, Txs(c, i - 1)) /\ LedgerOK(a.coins, Txs(c, i))
  BY DEF Valid, LinkOK, DBOK
<1>3. (Out => U[x] = a.coins[x]) /\ (~Out => U[x] = db.coins[x])
  <2>1. UnexpiresCoin(db, a, b.vexpired, h + 1, x)
    BY UnexpiredCoin
  <2> HIDE DEF a, b, h
  <2> QED BY <2>1 DEF UnexpiresCoin
<1>4. ~Out => DbAfter(SubSeq(c, 1, i)).coins[x] = a.coins[x]
  <2>1. ~ExpiredAt(a.names, b.vexpired, x) => SameCoin(DbAfter(SubSeq(c, 1, i)), a, x)
    BY ExpiredCoin
  <2>2. a.names = db.names
    OBVIOUS
  <2> HIDE DEF a, b
  <2> QED BY <2>1, <2>2 DEF SameCoin
<1>5. RollbackBlock(db, b, h).coins[x]
        = CASE Creates(b, x) -> Spent
            [] Spends(b, x) /\ ~Creates(b, x) -> b.vtxundo[Spender][x]
            [] OTHER -> U[x]
  <2> HIDE DEF b, h
  <2> QED BY DEF RollbackBlock
<1> HIDE DEF a, old, U, h, b, Out
<1>6. CASE Creates(b, x)
  <2>1. old.coins[x] = Spent
    BY <1>1, <1>2, <1>6, CreatedAreNew DEF old
  <2>2. RollbackBlock(db, b, h).coins[x] = Spent
    BY <1>5, <1>6
  <2> QED BY <2>1, <2>2 DEF b, h, old
<1>7. CASE ~Creates(b, x) /\ Spends(b, x)
  <2>1. Spender \in DOMAIN b.vtx /\ x \in vin[b.vtx[Spender]]
    BY <1>7 DEF Spends
  <2>2. RollbackBlock(db, b, h).coins[x] = b.vtxundo[Spender][x]
    BY <1>5, <1>7
  <2> HIDE DEF Spender
  <2>3. b.vtxundo[Spender][x] = old.coins[x]
    BY <1>1, <1>7, <2>1, UndoIsBefore DEF old
  <2> QED BY <2>2, <2>3 DEF b, h, old
<1>8. CASE ~Creates(b, x) /\ ~Spends(b, x)
  <2>1. a.coins[x] = old.coins[x]
    BY <1>1, <1>2, <1>8, SpentOrSame DEF a, old
  <2>2. RollbackBlock(db, b, h).coins[x] = U[x]
    BY <1>5, <1>8
  <2>3. U[x] \in {old.coins[x], v}
    BY <1>3, <1>4, <2>1
  <2> QED BY <2>2, <2>3 DEF b, h, old
<1> QED BY <1>6, <1>7, <1>8

(* RollforwardBlock turns a coin of the block's beginning into that of its *)
(* end, and a coin of the new tip stays one or becomes the former.         *)
LEMMA RollforwardCoin ==
  ASSUME NEW c, Valid(c), NEW i \in 1 .. Len(c), NEW db,
         NEW x \in OutPoint, ~isAnyUpdate(x) \/ c[i].vexpired = {},
         NEW v, OneOf(db.coins[x], Before(c[i]).coins[x], v)
  PROVE  OneOf(RollforwardBlock(db, c[i], BaseHeight + i).coins[x],
               DbAfter(SubSeq(c, 1, i)).coins[x], v)
<1> USE DEF OneOf
<1> DEFINE b == c[i]
           h == BaseHeight + i
           a == Applied(b)
           old == Before(b)
           new == DbAfter(SubSeq(c, 1, i))
<1>1. /\ b \in BlockType /\ h \in CoinHeight /\ BlockOK(b, h)
      /\ TxsOf(b) \subseteq Txs(c, i)
  BY ChainFacts
<1>2. LedgerOK(a.coins, Txs(c, i))
  BY DEF Valid, LinkOK, DBOK
<1>3. new.coins[x] = a.coins[x]
  <2>1. ~ExpiredAt(a.names, b.vexpired, x) => SameCoin(new, a, x)
    BY ExpiredCoin
  <2>2. \A e \in b.vexpired : isAnyUpdate(a.names.data[e.name].out)
    BY ExpiredName DEF Expires
  <2> HIDE DEF a, new
  <2> QED BY <2>1, <2>2 DEF ExpiredAt, SameCoin
<1>4. RollforwardBlock(db, b, h).coins[x] = CASE Spends(b, x) -> Spent
                                              [] Creates(b, x) /\ ~Spends(b, x) -> h
                                              [] OTHER -> db.coins[x]
  <2> HIDE DEF b, h
  <2> QED BY DEF RollforwardBlock
<1>5. /\ Spends(b, x) => a.coins[x] = Spent
      /\ ~Spends(b, x) /\ ~Creates(b, x) => a.coins[x] = old.coins[x]
  BY <1>1, <1>2, SpentOrSame
<1>6. Creates(b, x) /\ ~Spends(b, x) => a.coins[x] = h
  BY <1>1, CreatedStays
<1> HIDE DEF a, old, new, h, b
<1>7. CASE Spends(b, x)
  <2>1. RollforwardBlock(db, b, h).coins[x] = Spent
    BY <1>4, <1>7
  <2> QED BY <1>3, <1>5, <1>7, <2>1 DEF b, h, new
<1>8. CASE Creates(b, x) /\ ~Spends(b, x)
  <2>1. RollforwardBlock(db, b, h).coins[x] = h
    BY <1>4, <1>8
  <2>2. RollforwardBlock(db, b, h).coins[x] = new.coins[x]
    BY <1>3, <1>6, <1>8, <2>1
  <2> QED BY <2>2 DEF b, h, new
<1>9. CASE ~Creates(b, x) /\ ~Spends(b, x)
  <2>1. RollforwardBlock(db, b, h).coins[x] = db.coins[x]
    BY <1>4, <1>9
  <2>2. db.coins[x] \in {new.coins[x], v}
    BY <1>3, <1>5, <1>9 DEF old, b
  <2> QED BY <2>1, <2>2 DEF b, h, new
<1> QED BY <1>7, <1>8, <1>9

(* Undoing the name operations of a block leads from the name database at  *)
(* its end to the one before it.                                           *)
LEMMA UndoNamesBack ==
  ASSUME NEW b \in BlockType, NEW h, BlockOK(b, h)
  PROVE  UndoNames(Applied(b).names, b.vnameundo) = Before(b).names
<1> DEFINE v == b.vnameundo
           L == Len(v)
           log == b.namesLog
           ns == Applied(b).names
           Step(f, k) == IF k = 0 THEN ns ELSE UndoName(f[k - 1], v[(L + 1) - k])
           W == [k \in 0 .. L |-> log[(L + 1) - k]]
           undone == CHOOSE f : f = [k \in 0 .. L |-> Step(f, k)]
<1>1. L \in Nat
  BY BlockEnds
<1>2. ns = log[L + 1] /\ Before(b).names = log[1]
  BY DEF Applied, Before, BlockOK
<1>3. \A j \in 1 .. L : UndoName(log[j + 1], v[j]) = log[j]
  BY DEF BlockOK
<1>4. UndoNames(ns, v) = undone[L]
  BY DEF UndoNames
<1> HIDE DEF v, L, log, ns
<1>5. ASSUME NEW k \in 0 .. L PROVE log[(L + 1) - k] = Step(W, k)
  <2>1. CASE k = 0
    <3>1. (L + 1) - 0 = L + 1
      BY <1>1, SMT
    <3> QED BY <1>2, <2>1, <3>1
  <2>2. CASE k # 0
    <3>1. /\ k - 1 \in 0 .. L /\ (L + 1) - k \in 1 .. L
          /\ (L + 1) - (k - 1) = ((L + 1) - k) + 1
      BY <1>1, <2>2, SMT
    <3>2. W[k - 1] = log[((L + 1) - k) + 1]
      BY <3>1
    <3>3. UndoName(log[((L + 1) - k) + 1], v[(L + 1) - k]) = log[(L + 1) - k]
      BY <1>3, <3>1
    <3> HIDE DEF W
    <3> QED BY <2>2, <3>2, <3>3
  <2> QED BY <2>1, <2>2
<1>6. W = [k \in 0 .. L |-> Step(W, k)]
  <2>1. \A k \in 0 .. L : log[(L + 1) - k] = Step(W, k)
    BY <1>5
  <2> HIDE DEF Step
  <2> QED BY <2>1
<1>7. undone = [k \in 0 .. L |-> Step(undone, k)]
  <2> HIDE DEF W, Step
  <2> QED BY <1>6
<1> HIDE DEF undone
<1>8. ASSUME NEW k \in 0 .. L PROVE undone[k] = Step(undone, k) /\ W[k] = Step(W, k)
  <2>1. undone[k] = Step(undone, k)
    <3> HIDE DEF Step
    <3> QED BY <1>7
  <2>2. W[k] = Step(W, k)
    <3> HIDE DEF Step
    <3> QED BY <1>5
  <2> QED BY <2>1, <2>2
<1>9. W[L] = log[1]
  <2>1. L \in 0 .. L /\ (L + 1) - L = 1
    BY <1>1, SMT
  <2> QED BY <2>1
<1> HIDE DEF W
<1> DEFINE G == {k \in Nat : k \in 0 .. L => undone[k] = W[k]}
<1>10. 0 \in G
  <2>1. 0 \in 0 .. L /\ 0 \in Nat
    BY <1>1, SMT
  <2>2. undone[0] = ns /\ W[0] = ns
    BY <1>8, <2>1
  <2> QED BY <2>1, <2>2
<1>11. ASSUME NEW n \in 0 .. L, n < L, n \in G PROVE n + 1 \in G
  <2>1. n + 1 \in Nat /\ n + 1 \in 0 .. L /\ (n + 1) - 1 = n /\ n + 1 # 0
    BY <1>1, <1>11, SMT
  <2>2. undone[n] = W[n]
    BY <1>11
  <2>3. undone[(n + 1) - 1] = W[(n + 1) - 1]
    BY <2>1, <2>2
  <2>4. Step(undone, n + 1) = Step(W, n + 1)
    BY <2>3
  <2>5. undone[n + 1] = W[n + 1]
    <3>1. undone[n + 1] = Step(undone, n + 1) /\ W[n + 1] = Step(W, n + 1)
      BY <1>8, <2>1
    <3> HIDE DEF Step
    <3> QED BY <2>4, <3>1
  <2> QED BY <2>1, <2>5
<1>12. 0 .. L \subseteq G
  <2> HIDE DEF G
  <2> QED BY <1>1, <1>10, <1>11, UpTo
<1>13. undone[L] = W[L]
  <2>1. L \in 0 .. L
    BY <1>1, SMT
  <2> QED BY <1>12, <2>1
<1> QED BY <1>2, <1>4, <1>9, <1>13 DEF ns, v

(* A block without name operations leaves the name database as it is.      *)
LEMMA NoNameOps ==
  ASSUME NEW b, NEW h, BlockOK(b, h), b.vnameundo = <<>>
  PROVE  Applied(b).names = Before(b).names
<1>1. Len(b.namesLog) = Len(b.vnameundo) + 1
  BY DEF BlockOK
<1>2. Len(<<>>) + 1 = 1
  BY SMT
<1>3. Len(b.namesLog) = 1
  BY <1>1, <1>2
<1> QED BY <1>3 DEF Applied, Before

-----------------------------------------------------------------------------
(* The active chain is a valid one.                                        *)

(* What the chain adds to NameChain's invariant: it starts at the first    *)
(* tip, and the transactions of its blocks spent coins that were there.    *)
Extra ==
  /\ After(0) = DbAfter(<<>>)
  /\ \A i \in 1 .. Len(chain) : Fresh(chain[i])
  /\ pc = "connect" => Fresh(block)

(* A whole chain is a prefix of itself, and the empty one of any.          *)
LEMMA Prefixes ==
  ASSUME NEW S, NEW c \in Seq(S)
  PROVE  Len(c) \in Nat /\ SubSeq(c, 1, Len(c)) = c /\ SubSeq(c, 1, 0) = <<>>
  BY SMT

(* A front of a front is a front.                                          *)
LEMMA ShorterFront ==
  ASSUME NEW S, NEW d \in Seq(S), NEW L \in 1 .. Len(d)
  PROVE  SubSeq(SubSeq(d, 1, L), 1, L - 1) = SubSeq(d, 1, L - 1)
  BY SMTT(30)

(* The database after each block of the active chain is that of DbAfter.   *)
LEMMA AfterIsDbAfter ==
  ASSUME IInv, Extra, NEW i \in 0 .. Len(chain)
  PROVE  After(i) = DbAfter(SubSeq(chain, 1, i))
<1>1. chain \in Seq(BlockType) /\ Len(chain) \in Nat /\ SubSeq(chain, 1, 0) = <<>>
  BY Prefixes DEF IInv, TypeOK
<1>2. CASE i = 0
  BY <1>1, <1>2 DEF Extra
<1>3. CASE i # 0
  <2>1. i \in 1 .. Len(chain)
    BY <1>1, <1>3, SMT
  <2>2. After(i) = [coins |-> ExpireCoins(Applied(chain[i]), (BaseHeight + i) + 1),
                    names |-> Applied(chain[i]).names]
    BY <2>1 DEF IInv, ChainOK, ChainBlockOK
  <2>3. DbAfter(SubSeq(chain, 1, i))
          = [coins |-> ExpireCoins(Applied(chain[i]), BaseHeight + i + 1),
             names |-> Applied(chain[i]).names]
    BY <1>1, <2>1, DbAfterBlock
  <2> QED BY <2>2, <2>3
<1> QED BY <1>2, <1>3

(* The active chain is valid, and the tip is the database at its end, also *)
(* while a block is connected or disconnected.                             *)
LEMMA ActiveChain ==
  ASSUME IInv, Extra
  PROVE  Valid(chain) /\ tip = DbAfter(chain)
<1> DEFINE L == Len(chain)
<1>1. /\ chain \in Seq(BlockType) /\ L \in Nat /\ SubSeq(chain, 1, L) = chain
      /\ BaseHeight + L <= MaxHeight
  BY Prefixes DEF IInv, TypeOK, Height
<1>2. tip = DbAfter(chain)
  <2>1. L \in 0 .. L
    BY <1>1, SMT
  <2>2. After(L) = DbAfter(chain)
    BY <1>1, <2>1, AfterIsDbAfter
  <2> QED BY <2>2 DEF After
<1>3. \A i : Connected(i) = Txs(chain, i)
  BY DEF Connected, Txs
<1>4. ASSUME NEW i \in 1 .. L PROVE LinkOK(chain, i)
  <2>1. i - 1 \in 0 .. L /\ i - 1 # L /\ (i - 1) + 1 = i
    BY <1>1, SMT
  <2>2. After(i - 1) = DbAfter(SubSeq(chain, 1, i - 1))
    BY <2>1, AfterIsDbAfter
  <2>3. After(i - 1) = Before(chain[(i - 1) + 1])
    BY <2>1 DEF After
  <2>4. Before(chain[i]) = DbAfter(SubSeq(chain, 1, i - 1))
    BY <2>1, <2>2, <2>3
  <2>5. ChainBlockOK(i) /\ Fresh(chain[i])
    BY DEF IInv, ChainOK, Extra
  <2> QED BY <1>3, <2>4, <2>5 DEF ChainBlockOK, LinkOK
<1>5. DBOK(tip, Txs(chain, L), BaseHeight + L, BaseHeight + L)
  BY <1>3 DEF IInv, Height
<1> QED BY <1>1, <1>2, <1>4, <1>5 DEF Valid

(* The database at the end of a valid chain is well-formed.                *)
LEMMA DbAfterType ==
  ASSUME NEW c, Valid(c)
  PROVE  DbAfter(c) \in DBType
<1>1. c \in Seq(BlockType)
  BY DEF Valid
<1>2. Len(c) \in Nat /\ SubSeq(c, 1, Len(c)) = c /\ SubSeq(c, 1, 0) = <<>>
  BY <1>1, Prefixes
<1>3. CASE Len(c) = 0
  <2>1. c = <<>>
    BY <1>2, <1>3
  <2> DEFINE coins == [o \in OutPoint |-> IF o \in BaseCoins THEN BaseHeight ELSE Spent]
  <2>2. DbAfter(c) = [coins |-> coins, names |-> EmptyNames]
    BY <2>1 DEF DbAfter
  <2>3. BaseHeight \in CoinHeight /\ Spent \in CoinHeight
    BY BaseAssumption, ParamsAssumption, SMT DEF CoinHeight, Spent
  <2>4. coins \in CoinsType
    BY <2>3 DEF CoinsType
  <2>5. EmptyNames \in NamesType
    <3>1. <<>> \in Seq(NameData)
      BY SMT
    <3>2. [n \in Name |-> NoData] \in [Name -> NameData \cup {NoData}]
      OBVIOUS
    <3>3. [n \in Name |-> <<>>] \in [Name -> Seq(NameData)]
      BY <3>1
    <3>4. {} \in SUBSET ((1 .. MaxHeight) \X Name)
      OBVIOUS
    <3> QED BY <3>2, <3>3, <3>4, SMT DEF EmptyNames, NamesType
  <2> HIDE DEF coins
  <2>6. [coins |-> coins, names |-> EmptyNames] \in DBType
    BY <2>4, <2>5 DEF DBType
  <2> QED BY <2>2, <2>6
<1>4. CASE Len(c) # 0
  <2>1. Len(c) \in 1 .. Len(c)
    BY <1>2, <1>4, SMT
  <2>2. DbAfter(SubSeq(c, 1, Len(c))) \in DBType
    BY <2>1, DbAfterBlockType
  <2> QED BY <1>2, <2>2
<1> QED BY <1>3, <1>4

(* Loading the chainstate of a valid chain establishes NameChain's         *)
(* invariant again.                                                        *)
LEMMA AtRest ==
  Valid(chain) /\ tip = DbAfter(chain) /\ view = tip /\ block = EmptyBlock /\ pc = "idle"
    /\ failed = FALSE => IInv /\ Extra
<1> SUFFICES ASSUME Valid(chain), tip = DbAfter(chain), view = tip, block = EmptyBlock, pc = "idle",
                    failed = FALSE
             PROVE  IInv /\ Extra
  OBVIOUS
<1> DEFINE L == Len(chain)
<1>1. /\ chain \in Seq(BlockType) /\ BaseHeight + L <= MaxHeight
      /\ \A i \in 1 .. L : LinkOK(chain, i)
  BY DEF Valid
<1>2. /\ L \in Nat /\ SubSeq(chain, 1, L) = chain /\ SubSeq(chain, 1, 0) = <<>>
  BY <1>1, Prefixes
<1>3. \A i : Connected(i) = Txs(chain, i)
  BY DEF Connected, Txs
<1>0. L \in Nat
  BY <1>2
<1>4. ASSUME NEW i \in 0 .. L PROVE After(i) = DbAfter(SubSeq(chain, 1, i))
  <2>1. CASE i = L
    BY <1>2, <2>1 DEF After
  <2>2. CASE i # L
    <3>1. i + 1 \in 1 .. L /\ (i + 1) - 1 = i
      BY <1>0, <2>2, SMT
    <3>2. LinkOK(chain, i + 1)
      BY <1>1, <3>1
    <3>3. Before(chain[i + 1]) = DbAfter(SubSeq(chain, 1, (i + 1) - 1))
      BY <3>2 DEF LinkOK
    <3> QED BY <2>2, <3>1, <3>3 DEF After
  <2> QED BY <2>1, <2>2
<1>5. ASSUME NEW i \in 1 .. L PROVE ChainBlockOK(i) /\ Fresh(chain[i])
  <2>1. LinkOK(chain, i)
    BY <1>1
  <2>2. i \in 0 .. L
    BY <1>0, SMT
  <2>3. After(i) = [coins |-> ExpireCoins(Applied(chain[i]), (BaseHeight + i) + 1),
                    names |-> Applied(chain[i]).names]
    BY <1>1, <1>4, <2>2, DbAfterBlock
  <2> QED BY <1>3, <2>1, <2>3 DEF LinkOK, ChainBlockOK
<1>6. EmptyBlock \in BlockType
  <2>1. /\ <<>> \in Seq(Tx) /\ <<>> \in Seq(CoinsType) /\ <<>> \in Seq(NamesType)
        /\ <<>> \in Seq([name : Name, oldData : NameData \cup {NoData}])
    BY SMT
  <2>2. {} \in SUBSET [name : Name, height : CoinHeight]
    OBVIOUS
  <2> QED BY <2>1, <2>2 DEF EmptyBlock, BlockType
<1>7. tip \in DBType
  BY DbAfterType
<1>8. TypeOK
  BY <1>1, <1>6, <1>7 DEF TypeOK
<1>9. DBOK(tip, Connected(L), Height, Height) /\ Height <= MaxHeight
  BY <1>1, <1>3 DEF Valid, Height
<1>10. pc # "connect" /\ pc # "undo coins"
  OBVIOUS
<1>11. IInv
  BY <1>5, <1>8, <1>9, <1>10 DEF IInv, ChainOK
<1>12. 0 \in 0 .. L
  BY <1>0, SMT
<1>13. After(0) = DbAfter(<<>>)
  BY <1>2, <1>4, <1>12
<1> QED BY <1>5, <1>10, <1>11, <1>13 DEF Extra

(* Each iteration of ConnectBlock and DisconnectBlock preserves what the   *)
(* chain adds to the invariant.                                            *)
LEMMA ExtraInductive == (Init => Extra) /\ (IInv /\ Extra /\ [Next]_vars => Extra')
<1>Start. ASSUME Init PROVE Extra
  <2>1. chain = <<>> /\ pc = "idle"
    BY <1>Start DEF Init
  <2>2. Len(<<>>) = 0 /\ \A i \in 1 .. 0 : FALSE
    BY SMT
  <2>3. Len(chain) = 0
    BY <2>1, <2>2
  <2>4. tip = DbAfter(<<>>)
    BY <1>Start DEF Init, DbAfter
  <2>5. After(0) = DbAfter(<<>>)
    BY <2>3, <2>4 DEF After
  <2>6. pc # "connect"
    BY <2>1
  <2> QED BY <2>2, <2>3, <2>5, <2>6 DEF Extra
(* Steps that leave the tip and the chain alone.                           *)
<1>Frame. ASSUME Extra, tip' = tip, chain' = chain, pc' = "connect" => Fresh(block')
          PROVE  Extra'
  <2>1. After(0)' = After(0)
    BY <1>Frame DEF After
  <2> QED BY <1>Frame, <2>1 DEF Extra
<1>Begin. ASSUME ConnectBegin PROVE Fresh(block')
  <2>1. block' = StartedBlock(tip)
    BY <1>Begin DEF ConnectBegin
  <2>2. block'.vtx = <<>>
    BY <2>1 DEF StartedBlock
  <2>3. Len(<<>>) = 0 /\ \A k \in 1 .. 0 : FALSE
    BY SMT
  <2> QED BY <2>2, <2>3 DEF Fresh
<1>Tx. ASSUME IInv, Extra, NEW t \in Tx, ConnectTx(t)
       PROVE  tip' = tip /\ chain' = chain /\ Fresh(block')
  <2>1. /\ pc = "connect" /\ \A o \in vin[t] : view.coins[o] # Spent
    BY <1>Tx DEF ConnectTx, CheckNameTransaction
  <2>2. Fresh(block) /\ BlockOK(block, Height + 1) /\ Applied(block) = view /\ block \in BlockType
    BY <1>Tx, <2>1 DEF IInv, Extra, TypeOK
  <2>3. CASE block' = block
    BY <1>Tx, <2>2, <2>3 DEF ConnectTx, Fail
  <2>4. CASE block' = WithTx(block, view, t, Height + 1)
    <3> DEFINE L == Len(block.vtx)
               new == UpdateCoins(view.coins, t, Height + 1)
    <3>1. /\ block'.vtx = Append(block.vtx, t)
          /\ block'.coinsLog = Append(block.coinsLog, new)
      BY <2>4 DEF WithTx
    <3>2. block.vtx \in Seq(Tx) /\ block.coinsLog \in Seq(CoinsType)
      BY <2>2 DEF BlockType
    <3>3. Len(block.coinsLog) = L + 1 /\ block.coinsLog[Len(block.coinsLog)] = view.coins
      BY <2>2 DEF BlockOK, Applied
    <3>4. /\ L \in Nat /\ Len(Append(block.vtx, t)) = L + 1 /\ Append(block.vtx, t)[L + 1] = t
          /\ \A k \in 1 .. L : Append(block.vtx, t)[k] = block.vtx[k]
      BY <1>Tx, <3>2, AppendFacts, SMT
    <3> HIDE DEF new
    <3>5. \A k \in 1 .. L + 1 : Append(block.coinsLog, new)[k] = block.coinsLog[k]
      BY <3>2, <3>3, <3>4, SMT
    <3>6. ASSUME NEW k \in 1 .. L + 1
          PROVE  \A o \in vin[block'.vtx[k]] : block'.coinsLog[k][o] # Spent
      <4>1. block'.coinsLog[k] = block.coinsLog[k]
        BY <3>1, <3>5
      <4>2. CASE k \in 1 .. L
        <5>1. block'.vtx[k] = block.vtx[k]
          BY <3>1, <3>4, <4>2
        <5> QED BY <2>2, <4>1, <4>2, <5>1 DEF Fresh
      <4>3. CASE k \notin 1 .. L
        <5>1. k = L + 1
          BY <3>4, <4>3, SMT
        <5>2. block'.vtx[k] = t
          BY <3>1, <3>4, <5>1
        <5>3. block'.coinsLog[k] = view.coins
          BY <3>3, <4>1, <5>1
        <5> QED BY <2>1, <5>2, <5>3
      <4> QED BY <4>2, <4>3
    <3>7. Len(block'.vtx) = L + 1
      BY <3>1, <3>4
    <3> HIDE DEF L
    <3>8. Fresh(block')
      BY <3>6, <3>7 DEF Fresh
    <3>9. tip' = tip /\ chain' = chain
      BY <1>Tx DEF ConnectTx, Fail
    <3> QED BY <3>8, <3>9
  <2> QED BY <1>Tx, <2>3, <2>4 DEF ConnectTx, Fail
(* The block that ConnectBlock ends is the newest one of the chain.        *)
<1>End. ASSUME IInv, Extra, ConnectEnd PROVE Extra'
  <2> DEFINE L == Len(chain)
             b == [block EXCEPT !.vexpired = ExpireUndo(view, Height + 2)]
  <2>1. /\ pc = "connect"
        /\ \/ tip' = tip /\ chain' = chain /\ block' = block
           \/ chain' = Append(chain, b) /\ pc' = "idle"
    BY <1>End DEF ConnectEnd, Fail
  <2>2. Fresh(block) /\ Before(block) = tip /\ block \in BlockType /\ chain \in Seq(BlockType)
    BY <1>End, <2>1 DEF IInv, Extra, TypeOK
  <2>3. CASE tip' = tip /\ chain' = chain /\ block' = block
    BY <1>End, <1>Frame, <2>2, <2>3
  <2>4. CASE chain' = Append(chain, b) /\ pc' = "idle"
    <3>1. b.vtx = block.vtx /\ b.coinsLog = block.coinsLog /\ b.namesLog = block.namesLog
      BY <2>2 DEF BlockType
    <3> HIDE DEF b
    <3>2. Fresh(b) /\ Before(b) = tip
      BY <2>2, <3>1 DEF Fresh, Before
    <3>3. /\ L \in Nat /\ Len(chain') = L + 1 /\ chain'[L + 1] = b
          /\ \A k \in 1 .. L : chain'[k] = chain[k]
      BY <2>2, <2>4, SMT
    <3>4. /\ \A i \in 1 .. L + 1 : i \in 1 .. L \/ i = L + 1
          /\ 0 # L + 1 /\ 0 + 1 = 1 /\ (L = 0 => L + 1 = 1) /\ (L # 0 => 1 \in 1 .. L)
      BY <3>3, SMT
    <3>5. \A i \in 1 .. L + 1 : Fresh(chain'[i])
      BY <1>End, <3>2, <3>3, <3>4 DEF Extra
    <3>6. After(0)' = Before(chain'[1])
      BY <3>3, <3>4 DEF After
    <3>7. Before(chain'[1]) = After(0)
      <4>1. CASE L = 0
        BY <3>2, <3>3, <3>4, <4>1 DEF After
      <4>2. CASE L # 0
        BY <3>3, <3>4, <4>2 DEF After
      <4> QED BY <4>1, <4>2
    <3>8. pc' # "connect"
      BY <2>4
    <3> QED BY <1>End, <3>3, <3>5, <3>6, <3>7, <3>8 DEF Extra
  <2> QED BY <2>1, <2>3, <2>4
(* DisconnectTip takes the newest block off the chain.                     *)
<1>Undo. ASSUME IInv, Extra, DisconnectEnd PROVE Extra'
  <2> DEFINE L == Len(chain)
  <2>1. /\ tip' = view /\ chain' = SubSeq(chain, 1, L - 1) /\ pc' = "idle"
        /\ view = Before(chain[L])
    BY <1>Undo, UndoneIsBefore DEF DisconnectEnd
  <2>2. chain \in Seq(BlockType) /\ chain # <<>>
    BY <1>Undo DEF DisconnectEnd, IInv, TypeOK
  <2>3. L \in Nat /\ L # 0
    BY <2>2, SMT
  <2>4. L - 1 \in 0 .. L
    BY <2>3, SMT
  <2>5. Len(chain') = L - 1 /\ \A k \in 1 .. L - 1 : chain'[k] = chain[k]
    BY <2>1, <2>2, <2>4, FrontFacts
  <2> HIDE DEF L
  <2>6. /\ \A k \in 1 .. L - 1 : k \in 1 .. L
        /\ 0 + 1 = 1 /\ 0 # L /\ (L - 1 = 0 => L = 1) /\ (L - 1 # 0 => 1 \in 1 .. L - 1)
    BY <2>3, SMT
  <2> USE DEF L
  <2>7. \A i \in 1 .. L - 1 : Fresh(chain'[i])
    BY <1>Undo, <2>5, <2>6 DEF Extra
  <2>8. After(0) = Before(chain[1])
    BY <2>6 DEF After
  <2>9. After(0)' = Before(chain[1])
    <3>1. CASE L - 1 = 0
      BY <2>1, <2>5, <2>6, <3>1 DEF After
    <3>2. CASE L - 1 # 0
      BY <2>5, <2>6, <3>2 DEF After
    <3> QED BY <3>1, <3>2
  <2>10. pc' # "connect"
    BY <2>1
  <2> QED BY <1>Undo, <2>5, <2>7, <2>8, <2>9, <2>10 DEF Extra
<1>Step. ASSUME IInv, Extra, [Next]_vars PROVE Extra'
  <2>1. CASE UNCHANGED vars
    BY <1>Step, <1>Frame, <2>1 DEF vars, Extra
  <2>2. CASE ConnectBegin
    BY <1>Step, <1>Frame, <1>Begin, <2>2 DEF ConnectBegin
  <2>3. CASE \E t \in Tx : ConnectTx(t)
    BY <1>Step, <1>Frame, <1>Tx, <2>3
  <2>4. CASE ConnectInvalid
    <3>1. tip' = tip /\ chain' = chain /\ pc' # "connect"
      BY <2>4 DEF ConnectInvalid
    <3> QED BY <1>Step, <1>Frame, <3>1
  <2>5. CASE DisconnectBegin \/ DisconnectTx \/ DisconnectName
    <3>1. tip' = tip /\ chain' = chain /\ pc' # "connect"
      BY <2>5 DEF DisconnectBegin, DisconnectTx, DisconnectName, Fail
    <3> QED BY <1>Step, <1>Frame, <3>1
  <2> QED BY <1>Step, <1>End, <1>Undo, <2>1, <2>2, <2>3, <2>4, <2>5 DEF Next
<1> QED BY <1>Start, <1>Step

-----------------------------------------------------------------------------
(* The invariant of NameReplay.                                            *)

IsCoins(f) == f = [x \in OutPoint |-> f[x]]

(* The condition of ReplayExact on the new block n and the old block o.    *)
Plain(n, o) ==
  /\ \A b \in Branch(n, o) : b.vnameundo = <<>> /\ b.vexpired = {}
  /\ \A b \in Branch(o, n) : AtMostOne(b.vexpired)

(* The coins that ReplayBlocks restores.                                   *)
Restored(n, o, x) == ~isAnyUpdate(x) \/ Plain(n, o)

(* The database d is at block c.                                           *)
Complete(d, c) ==
  /\ d.heads = <<>> /\ d.best = <<c>> /\ Valid(c)
  /\ d.coins = DbAfter(c).coins /\ d.names = DbAfter(c).names

(* The database d is between the old block o and the new block n: its      *)
(* names are the old ones, each coin is an old or a new one.               *)
Between(d, n, o) ==
  /\ d.best = <<>> /\ d.heads = <<n, o>> /\ Valid(n) /\ Valid(o)
  /\ IsCoins(d.coins) /\ d.names = DbAfter(o).names
  /\ \A x \in OutPoint : Restored(n, o, x) =>
        OneOf(d.coins[x], DbAfter(o).coins[x], DbAfter(n).coins[x])

AtBlock(d) == Complete(d, d.best[1])
AtGap(d) == Between(d, d.heads[1], d.heads[2])

(* The block c that ReplayBlocks has reached on the old branch, and on the *)
(* new one: no block after c is on both branches.                          *)
Back(c, n, o) ==
  IsAncestor(c, o) /\ \A j \in Len(c) + 1 .. Len(o) : ~IsAncestor(SubSeq(o, 1, j), n)
Forth(c, n, o) ==
  IsAncestor(c, n) /\ \A j \in Len(c) + 1 .. Len(n) : ~IsAncestor(SubSeq(n, 1, j), o)

(* The coins and names f that ReplayBlocks has so far: each coin is that   *)
(* of the block reached or already that of the new block.  Names are rolled *)
(* back and not forward.                                                   *)
Rolling(f, n, o) ==
  /\ IsCoins(f.coins) /\ Len(f.tip) \in Nat
  /\ \A x \in OutPoint : Restored(n, o, x) =>
        OneOf(f.coins[x], DbAfter(f.tip).coins[x], DbAfter(n).coins[x])
  /\ \/ Back(f.tip, n, o) /\ f.names = DbAfter(f.tip).names
     \/ Forth(f.tip, n, o) /\ (Plain(n, o) => f.names = DbAfter(f.tip).names)

(* ... and in the end.                                                     *)
Rolled(f, n, o) ==
  /\ f.tip = n /\ IsCoins(f.coins)
  /\ \A x \in OutPoint : Restored(n, o, x) => f.coins[x] = DbAfter(n).coins[x]
  /\ Plain(n, o) => f.names = DbAfter(n).names

RInv ==
  /\ failed = FALSE
  /\ mode \in {"run", "flush", "down", "replaying", "replay", "start", "replayed", "recovered"}
  /\ mode \in {"run", "flush"} => IInv /\ Extra
  /\ mode \in {"down", "start"} => pc = "idle" /\ block = EmptyBlock
  /\ mode \in {"run", "start"} => AtBlock(disk)
  /\ mode \in {"flush", "down"} => AtBlock(disk) \/ AtGap(disk)
  /\ mode = "flush" => /\ pc = "idle" /\ flush = At(tip, chain)
                       /\ disk.heads # <<>> => disk.heads[1] = chain
  /\ mode \in {"replaying", "replay"} => AtGap(disk)
  /\ mode = "replaying" => Rolling(flush, disk.heads[1], disk.heads[2])
  /\ mode = "replay" => Rolled(flush, disk.heads[1], disk.heads[2])
  /\ mode = "replayed" => \A x \in OutPoint : ~isAnyUpdate(x) =>
                            disk.coins[x] = DbAfter(disk.best[1]).coins[x]
  /\ mode = "recovered" => ReplayedCoins

-----------------------------------------------------------------------------
(* The loops of ReplayBlocks.                                              *)

(* A prefix of a chain ...                                                 *)
LEMMA PrefixFacts ==
  ASSUME NEW S, NEW d \in Seq(S), NEW c, IsAncestor(c, d), Len(c) \in Nat
  PROVE  Len(d) \in Nat /\ c = SubSeq(d, 1, Len(c)) /\ Len(c) \in 0 .. Len(d)
<1>1. Len(c) <= Len(d) /\ SubSeq(d, 1, Len(c)) = c /\ Len(d) \in Nat
  BY SMT DEF IsAncestor
<1>2. Len(c) \in 0 .. Len(d)
  BY <1>1, SMT
<1> QED BY <1>1, <1>2

(* ... the chain one block shorter ...                                     *)
LEMMA PrefixBack ==
  ASSUME NEW S, NEW d \in Seq(S), NEW c, IsAncestor(c, d), Len(c) \in Nat, Len(c) # 0
  PROVE  /\ Len(c) \in 1 .. Len(d) /\ c[Len(c)] = d[Len(c)]
         /\ pprev(c) = SubSeq(d, 1, Len(c) - 1) /\ Len(pprev(c)) = Len(c) - 1
         /\ IsAncestor(pprev(c), d)
<1> DEFINE L == Len(c)
<1>1. c = SubSeq(d, 1, L) /\ L \in 0 .. Len(d) /\ Len(d) \in Nat
  BY PrefixFacts
<1>2. L \in 1 .. Len(d) /\ L - 1 \in 0 .. Len(d) /\ L - 1 <= Len(d) /\ L \in 1 .. L
  <2>1. L \in Nat /\ L <= Len(d) /\ Len(d) \in Nat /\ L # 0
    BY <1>1, SMT
  <2> HIDE DEF L
  <2> QED BY <2>1, SMT
<1>3. c[L] = d[L]
  <2> HIDE DEF L
  <2>1. SubSeq(d, 1, L)[L] = d[L]
    BY <1>1, <1>2, FrontFacts
  <2> QED BY <1>1, <2>1
<1>4. pprev(c) = SubSeq(d, 1, L - 1)
  <2>1. pprev(c) = SubSeq(c, 1, L - 1)
    BY DEF pprev
  <2> HIDE DEF L
  <2>2. SubSeq(SubSeq(d, 1, L), 1, L - 1) = SubSeq(d, 1, L - 1)
    BY <1>2, ShorterFront
  <2> QED BY <1>1, <2>1, <2>2
<1>5. Len(SubSeq(d, 1, L - 1)) = L - 1
  BY <1>2, FrontFacts
<1> QED BY <1>2, <1>3, <1>4, <1>5 DEF IsAncestor

(* ... and the one a block longer.                                         *)
LEMMA PrefixForth ==
  ASSUME NEW S, NEW d \in Seq(S), NEW c, IsAncestor(c, d), Len(c) \in Nat, c # d
  PROVE  /\ Len(c) + 1 \in 1 .. Len(d)
         /\ Append(c, d[Len(c) + 1]) = SubSeq(d, 1, Len(c) + 1)
         /\ Len(Append(c, d[Len(c) + 1])) = Len(c) + 1
         /\ IsAncestor(Append(c, d[Len(c) + 1]), d)
<1> DEFINE L == Len(c)
<1>1. c = SubSeq(d, 1, L) /\ L \in 0 .. Len(d) /\ Len(d) \in Nat
  BY PrefixFacts
<1>2. SubSeq(d, 1, Len(d)) = d
  BY Prefixes
<1>3. L # Len(d)
  BY <1>1, <1>2
<1>4. L + 1 \in 1 .. Len(d) /\ L + 1 \in 0 .. Len(d) /\ L + 1 <= Len(d)
  <2>1. L \in 0 .. Len(d) /\ Len(d) \in Nat
    BY <1>1
  <2> HIDE DEF L
  <2> QED BY <1>3, <2>1, SMT
<1>5. Append(c, d[L + 1]) = SubSeq(d, 1, L + 1)
  BY <1>1, <1>4, SMT
<1>6. Len(SubSeq(d, 1, L + 1)) = L + 1
  BY <1>4, FrontFacts
<1> QED BY <1>4, <1>5, <1>6 DEF IsAncestor

(* A block of one branch that is not on the other.                         *)
LEMMA InBranch ==
  ASSUME NEW S, NEW c \in Seq(S), NEW d, NEW i \in 1 .. Len(c), ~IsAncestor(SubSeq(c, 1, i), d)
  PROVE  c[i] \in Branch(c, d)
<1>1. i \in DOMAIN c
  BY SMT
<1> QED BY <1>1 DEF Branch

(* The end of the way back is where the way forth begins: LastCommonAncestor. *)
LEMMA ForkFound ==
  ASSUME NEW S, NEW n \in Seq(S), NEW o \in Seq(S), NEW c, Len(c) \in Nat,
         Back(c, n, o), IsAncestor(c, n)
  PROVE  Forth(c, n, o)
<1> SUFFICES ASSUME NEW j \in Len(c) + 1 .. Len(n), IsAncestor(SubSeq(n, 1, j), o) PROVE FALSE
  BY DEF Forth
<1>1. Len(n) \in Nat /\ Len(o) \in Nat
  BY Prefixes
<1>2. j \in 0 .. Len(n) /\ j <= Len(n)
  BY <1>1, SMT
<1>3. Len(SubSeq(n, 1, j)) = j
  BY <1>2, FrontFacts
<1>4. j <= Len(o) /\ SubSeq(o, 1, j) = SubSeq(n, 1, j)
  BY <1>3 DEF IsAncestor
<1>5. j \in Len(c) + 1 .. Len(o)
  BY <1>1, <1>2, <1>4, SMT
<1>6. IsAncestor(SubSeq(o, 1, j), n)
  BY <1>2, <1>3, <1>4 DEF IsAncestor
<1> QED BY <1>5, <1>6 DEF Back

(* The names after a block are those that its transactions left.           *)
LEMMA DbAfterNames ==
  ASSUME NEW c \in Seq(BlockType), NEW i \in 1 .. Len(c)
  PROVE  DbAfter(SubSeq(c, 1, i)).names = Applied(c[i]).names
<1>1. DbAfter(SubSeq(c, 1, i))
        = [coins |-> ExpireCoins(Applied(c[i]), BaseHeight + i + 1), names |-> Applied(c[i]).names]
  BY DbAfterBlock
<1> QED BY <1>1, SMT

(* One iteration of the first loop: DisconnectBlock takes the database to  *)
(* the block before, whichever coins were written already.                 *)
LEMMA RollbackStep ==
  ASSUME NEW n, NEW o, Valid(n), Valid(o), NEW f, Rolling(f, n, o),
         ~IsAncestor(f.tip, n)
  PROVE  Rolling(At(RollbackBlock(f, f.tip[Len(f.tip)], BaseHeight + Len(f.tip)), pprev(f.tip)), n, o)
<1> DEFINE c == f.tip
           L == Len(c)
           r == RollbackBlock(f, c[L], BaseHeight + L)
           g == At(r, pprev(c))
<1>1. n \in Seq(BlockType) /\ o \in Seq(BlockType) /\ L \in Nat
  BY DEF Valid, Rolling
<1>2. Back(c, n, o) /\ f.names = DbAfter(c).names
  BY DEF Rolling, Forth
<1>3. IsAncestor(c, o)
  BY <1>2 DEF Back
<1>4. L # 0
  <2>1. SUFFICES ASSUME L = 0 PROVE FALSE
    OBVIOUS
  <2>2. c = <<>>
    <3>1. c = SubSeq(o, 1, L)
      BY <1>3 DEF IsAncestor
    <3>2. SubSeq(o, 1, 0) = <<>>
      BY <1>1, Prefixes
    <3> QED BY <2>1, <3>1, <3>2
  <2>3. Len(<<>>) = 0 /\ 0 <= Len(n) /\ SubSeq(n, 1, 0) = <<>>
    BY <1>1, SMT
  <2> QED BY <2>2, <2>3 DEF IsAncestor
<1>5. /\ c = SubSeq(o, 1, L) /\ L \in 1 .. Len(o) /\ c[L] = o[L]
      /\ pprev(c) = SubSeq(o, 1, L - 1) /\ Len(pprev(c)) = L - 1 /\ IsAncestor(pprev(c), o)
      /\ Len(o) \in Nat
  <2>1. c = SubSeq(o, 1, L) /\ Len(o) \in Nat
    BY <1>1, <1>3, PrefixFacts
  <2>2. /\ L \in 1 .. Len(o) /\ c[L] = o[L]
        /\ pprev(c) = SubSeq(o, 1, L - 1) /\ Len(pprev(c)) = L - 1 /\ IsAncestor(pprev(c), o)
    <3> HIDE DEF c
    <3> QED BY <1>1, <1>3, <1>4, PrefixBack
  <2> QED BY <2>1, <2>2
<1>6. g.tip = pprev(c) /\ g.coins = r.coins /\ g.names = r.names
  BY DEF At
<1>7. /\ BlockOK(o[L], BaseHeight + L) /\ o[L] \in BlockType
  BY <1>5, ChainFacts
<1>8. Before(o[L]) = DbAfter(pprev(c))
  BY <1>5 DEF Valid, LinkOK
<1>9. f.names = Applied(o[L]).names
  <2>1. DbAfter(SubSeq(o, 1, L)).names = Applied(o[L]).names
    BY <1>1, <1>5, DbAfterNames
  <2> QED BY <1>2, <1>5, <2>1
<1>10. r.names = DbAfter(pprev(c)).names
  <2>1. r.names = UndoNames(f.names, o[L].vnameundo)
    BY <1>5 DEF RollbackBlock
  <2> QED BY <1>7, <1>8, <1>9, <2>1, UndoNamesBack
<1>11. Back(pprev(c), n, o)
  <2>1. ASSUME NEW j \in (L - 1) + 1 .. Len(o) PROVE ~IsAncestor(SubSeq(o, 1, j), n)
    <3>1. j = L \/ j \in L + 1 .. Len(o)
      BY <1>5, SMT
    <3>2. CASE j = L
      BY <1>5, <3>2
    <3>3. CASE j \in L + 1 .. Len(o)
      BY <1>2, <3>3 DEF Back
    <3> QED BY <3>1, <3>2, <3>3
  <2> QED BY <1>5, <2>1 DEF Back
<1>12. IsCoins(r.coins)
  <2> DEFINE U == Unexpired(f, c[L].vexpired, BaseHeight + L + 1)
             Spender(x) == CHOOSE k \in DOMAIN c[L].vtx : x \in vin[c[L].vtx[k]]
             Coin(x) == CASE Creates(c[L], x) -> Spent
                          [] Spends(c[L], x) /\ ~Creates(c[L], x) -> c[L].vtxundo[Spender(x)][x]
                          [] OTHER -> U[x]
  <2>1. r.coins = [x \in OutPoint |-> Coin(x)]
    BY DEF RollbackBlock
  <2> HIDE DEF Coin
  <2>2. \A x \in OutPoint : r.coins[x] = Coin(x)
    BY <2>1
  <2> QED BY <2>1, <2>2 DEF IsCoins
<1>13. ASSUME NEW x \in OutPoint, Restored(n, o, x)
       PROVE  OneOf(r.coins[x], DbAfter(pprev(c)).coins[x], DbAfter(n).coins[x])
  <2>1. o[L] \in Branch(o, n)
    BY <1>1, <1>5, InBranch
  <2>2. ~isAnyUpdate(x) \/ AtMostOne(o[L].vexpired)
    BY <1>13, <2>1 DEF Restored, Plain
  <2>3. OneOf(f.coins[x], DbAfter(SubSeq(o, 1, L)).coins[x], DbAfter(n).coins[x])
    BY <1>5, <1>13 DEF Rolling
  <2>4. OneOf(RollbackBlock(f, o[L], BaseHeight + L).coins[x], Before(o[L]).coins[x], DbAfter(n).coins[x])
    BY <1>5, <1>9, <2>2, <2>3, RollbackCoin
  <2> QED BY <1>5, <1>8, <2>4
<1> HIDE DEF r, g
<1>14. /\ IsCoins(g.coins) /\ Len(g.tip) \in Nat
       /\ Back(g.tip, n, o) /\ g.names = DbAfter(g.tip).names
  <2>1. L - 1 \in Nat
    BY <1>1, <1>4, SMT
  <2> QED BY <1>5, <1>6, <1>10, <1>11, <1>12, <2>1
<1>15. ASSUME NEW x \in OutPoint, Restored(n, o, x)
       PROVE  OneOf(g.coins[x], DbAfter(g.tip).coins[x], DbAfter(n).coins[x])
  BY <1>6, <1>13, <1>15
<1>16. Rolling(g, n, o)
  BY <1>14, <1>15 DEF Rolling
<1> QED BY <1>16 DEF g, r

(* One iteration of the second loop: RollforwardBlock takes the coins to   *)
(* the next block of the new branch; the names only if that block changes  *)
(* none.                                                                   *)
LEMMA RollforwardStep ==
  ASSUME NEW n, NEW o, Valid(n), Valid(o), NEW f, Rolling(f, n, o),
         IsAncestor(f.tip, n), f.tip # n
  PROVE  Rolling(At(RollforwardBlock(f, n[Len(f.tip) + 1], BaseHeight + Len(f.tip) + 1),
                    Append(f.tip, n[Len(f.tip) + 1])), n, o)
<1> DEFINE c == f.tip
           i == Len(c) + 1
           r == RollforwardBlock(f, n[i], BaseHeight + Len(c) + 1)
           d == Append(c, n[i])
           g == At(r, d)
<1>1. n \in Seq(BlockType) /\ o \in Seq(BlockType) /\ Len(c) \in Nat
  BY DEF Valid, Rolling
<1>2. Forth(c, n, o) /\ (Plain(n, o) => f.names = DbAfter(c).names)
  BY <1>1, ForkFound DEF Rolling
<1>3. /\ c = SubSeq(n, 1, Len(c)) /\ i \in 1 .. Len(n) /\ Len(n) \in Nat
      /\ d = SubSeq(n, 1, i) /\ Len(d) = i /\ IsAncestor(d, n)
  <2>1. c = SubSeq(n, 1, Len(c)) /\ Len(n) \in Nat
    BY <1>1, PrefixFacts
  <2>2. IsAncestor(c, n) /\ c # n
    OBVIOUS
  <2> HIDE DEF c
  <2>3. i \in 1 .. Len(n) /\ d = SubSeq(n, 1, i) /\ Len(d) = i /\ IsAncestor(d, n)
    BY <1>1, <2>2, PrefixForth
  <2> QED BY <2>1, <2>3
<1>4. i - 1 = Len(c) /\ BaseHeight + Len(c) + 1 = BaseHeight + i
  <2>1. Len(c) \in Nat /\ BaseHeight \in Nat
    BY <1>1, BaseAssumption
  <2> QED BY <2>1, SMT
<1>5. g.tip = d /\ g.coins = r.coins /\ g.names = r.names
  BY DEF At
<1>6. BlockOK(n[i], BaseHeight + i) /\ n[i] \in BlockType
  BY <1>3, ChainFacts
<1>7. Before(n[i]) = DbAfter(c)
  BY <1>3, <1>4 DEF Valid, LinkOK
<1>8. r.names = f.names
  BY DEF RollforwardBlock
<1>9. n[i] \in Branch(n, o)
  <2>1. i \in Len(c) + 1 .. Len(n)
    BY <1>3, SMT
  <2>2. ~IsAncestor(SubSeq(n, 1, i), o)
    BY <1>2, <2>1 DEF Forth
  <2> QED BY <1>1, <1>3, <2>2, InBranch
<1>10. ASSUME Plain(n, o) PROVE r.names = DbAfter(d).names
  <2>1. n[i].vnameundo = <<>>
    BY <1>9, <1>10 DEF Plain
  <2>2. Applied(n[i]).names = Before(n[i]).names
    BY <1>6, <2>1, NoNameOps
  <2>3. DbAfter(d).names = Applied(n[i]).names
    BY <1>1, <1>3, DbAfterNames
  <2> QED BY <1>2, <1>7, <1>8, <1>10, <2>2, <2>3
<1>11. Forth(d, n, o)
  <2>1. ASSUME NEW j \in i + 1 .. Len(n) PROVE j \in Len(c) + 1 .. Len(n)
    BY <1>3, SMT
  <2> QED BY <1>2, <1>3, <2>1 DEF Forth
<1>12. IsCoins(r.coins)
  <2> DEFINE Coin(x) == CASE Spends(n[i], x) -> Spent
                          [] Creates(n[i], x) /\ ~Spends(n[i], x) -> BaseHeight + Len(c) + 1
                          [] OTHER -> f.coins[x]
  <2>1. r.coins = [x \in OutPoint |-> Coin(x)]
    BY DEF RollforwardBlock
  <2> HIDE DEF Coin
  <2>2. \A x \in OutPoint : r.coins[x] = Coin(x)
    BY <2>1
  <2> QED BY <2>1, <2>2 DEF IsCoins
<1>13. ASSUME NEW x \in OutPoint, Restored(n, o, x)
       PROVE  OneOf(r.coins[x], DbAfter(d).coins[x], DbAfter(n).coins[x])
  <2>1. ~isAnyUpdate(x) \/ n[i].vexpired = {}
    BY <1>9, <1>13 DEF Restored, Plain
  <2>2. OneOf(f.coins[x], Before(n[i]).coins[x], DbAfter(n).coins[x])
    BY <1>7, <1>13 DEF Rolling
  <2>3. OneOf(RollforwardBlock(f, n[i], BaseHeight + i).coins[x],
              DbAfter(SubSeq(n, 1, i)).coins[x], DbAfter(n).coins[x])
    BY <1>3, <2>1, <2>2, RollforwardCoin
  <2> QED BY <1>3, <1>4, <2>3
<1> HIDE DEF r, g, d
<1>14. /\ IsCoins(g.coins) /\ Len(g.tip) \in Nat
       /\ Forth(g.tip, n, o) /\ (Plain(n, o) => g.names = DbAfter(g.tip).names)
  <2>1. i \in Nat
    BY <1>1, SMT
  <2> QED BY <1>3, <1>5, <1>10, <1>11, <1>12, <2>1
<1>15. ASSUME NEW x \in OutPoint, Restored(n, o, x)
       PROVE  OneOf(g.coins[x], DbAfter(g.tip).coins[x], DbAfter(n).coins[x])
  BY <1>5, <1>13, <1>15
<1>16. Rolling(g, n, o)
  BY <1>14, <1>15 DEF Rolling
<1> QED BY <1>16 DEF g, r, d

-----------------------------------------------------------------------------
(* The steps of NameReplay.                                                *)

(* A database at a block, or between two, knows its old block.             *)
LEMMA DiskFacts ==
  /\ AtBlock(disk) => /\ disk.heads = <<>> /\ disk.best # <<>> /\ OldTip = disk.best[1]
                      /\ Valid(OldTip)
                      /\ disk.coins = DbAfter(OldTip).coins /\ disk.names = DbAfter(OldTip).names
  /\ AtGap(disk) => /\ disk.heads # <<>> /\ disk.best = <<>> /\ OldTip = disk.heads[2]
                    /\ Valid(OldTip) /\ disk.names = DbAfter(OldTip).names
<1>1. \A c : <<c>> # <<>>
  BY SMT
<1>2. \A n, o : <<n, o>> # <<>>
  BY SMT
<1> QED BY <1>1, <1>2 DEF AtBlock, AtGap, Complete, Between, OldTip

(* The record of coins and names is a database.                            *)
LEMMA DbRecord ==
  ASSUME NEW c, Valid(c), NEW coins, NEW names, coins = DbAfter(c).coins, names = DbAfter(c).names
  PROVE  [coins |-> coins, names |-> names] = DbAfter(c)
<1>1. DbAfter(c) \in DBType
  BY DbAfterType
<1> QED BY <1>1, SMT DEF DBType

(* The coins at the end of a valid chain are a function on the outpoints.  *)
LEMMA ChainCoins ==
  ASSUME NEW c, Valid(c)
  PROVE  IsCoins(DbAfter(c).coins)
<1>1. DbAfter(c) \in DBType
  BY DbAfterType
<1>2. DbAfter(c).coins \in CoinsType
  BY <1>1 DEF DBType
<1> QED BY <1>2 DEF CoinsType, IsCoins

(* A batch of a flush to block n, of coins that are those of n, into a     *)
(* database that is at the old block or already in the gap.                *)
LEMMA BatchStep ==
  ASSUME NEW n, Valid(n), NEW new, NEW y \in OutPoint,
         AtBlock(disk) \/ (AtGap(disk) /\ disk.heads[1] = n),
         Restored(n, OldTip, y) => new = DbAfter(n).coins[y],
         disk' = [coins |-> [disk.coins EXCEPT ![y] = new], names |-> disk.names,
                  best |-> <<>>, heads |-> <<n, OldTip>>]
  PROVE  Between(disk', n, OldTip) /\ AtGap(disk') /\ disk'.heads[1] = n /\ disk'.heads[2] = OldTip
<1> DEFINE o == OldTip
<1>1. /\ disk'.coins = [disk.coins EXCEPT ![y] = new] /\ disk'.names = disk.names
      /\ disk'.best = <<>> /\ disk'.heads = <<n, o>>
  OBVIOUS
<1>2. Valid(o) /\ disk.names = DbAfter(o).names
  BY DiskFacts
<1>3. /\ IsCoins(disk.coins)
      /\ \A x \in OutPoint : Restored(n, o, x) =>
            OneOf(disk.coins[x], DbAfter(o).coins[x], DbAfter(n).coins[x])
  <2>1. CASE AtBlock(disk)
    <3>1. disk.coins = DbAfter(o).coins
      BY <2>1, DiskFacts
    <3> HIDE DEF o
    <3> QED BY <1>2, <3>1, ChainCoins DEF OneOf
  <2>2. CASE AtGap(disk) /\ disk.heads[1] = n
    BY <2>2, DiskFacts DEF AtGap, Between
  <2> QED BY <2>1, <2>2
<1> HIDE DEF o
<1>4. disk'.coins = [x \in OutPoint |-> IF x = y THEN new ELSE disk.coins[x]]
  BY <1>1, <1>3, SMT DEF IsCoins
<1>5. \A x \in OutPoint : disk'.coins[x] = IF x = y THEN new ELSE disk.coins[x]
  BY <1>4
<1>6. IsCoins(disk'.coins)
  BY <1>4, <1>5 DEF IsCoins
<1>7. ASSUME NEW x \in OutPoint, Restored(n, o, x)
      PROVE  OneOf(disk'.coins[x], DbAfter(o).coins[x], DbAfter(n).coins[x])
  <2>1. CASE x = y
    <3>1. disk'.coins[x] = DbAfter(n).coins[x]
      BY <1>5, <1>7, <2>1 DEF o
    <3> QED BY <3>1 DEF OneOf
  <2>2. CASE x # y
    <3>1. disk'.coins[x] = disk.coins[x]
      BY <1>5, <2>2
    <3> QED BY <1>3, <1>7, <3>1
  <2> QED BY <2>1, <2>2
<1>8. Between(disk', n, o)
  BY <1>1, <1>2, <1>6, <1>7 DEF Between
<1>9. <<n, o>>[1] = n /\ <<n, o>>[2] = o
  BY SMT
<1>10. disk'.heads[1] = n /\ disk'.heads[2] = o
  BY <1>1, <1>9
<1> QED BY <1>8, <1>10 DEF AtGap, o

(* NameChain's invariant, with what the chain adds, is kept by its steps.  *)
LEMMA ChainKept == IInv /\ Extra /\ [Next]_vars => IInv' /\ Extra' /\ failed' = FALSE
<1> SUFFICES ASSUME IInv, Extra, [Next]_vars PROVE IInv' /\ Extra' /\ failed' = FALSE
  OBVIOUS
<1>1. IInv' /\ Extra'
  BY InvariantInductive, ExtraInductive
<1>2. ~failed' /\ failed' \in BOOLEAN
  BY <1>1 DEF IInv, TypeOK
<1> QED BY <1>1, <1>2

(* Connecting and disconnecting blocks, and the beginning of a flush,      *)
(* leave the database alone.                                               *)
LEMMA RunSteps == RInv /\ (ChainStep \/ FlushBegin) => RInv'
<1>1. ASSUME RInv, ChainStep PROVE RInv'
  <2>1. mode' = "run" /\ disk' = disk /\ mode = "run" /\ Next
    BY <1>1 DEF ChainStep, diskVars
  <2>2. IInv' /\ Extra' /\ failed' = FALSE
    BY <1>1, <2>1, ChainKept DEF RInv
  <2>3. AtBlock(disk')
    BY <1>1, <2>1 DEF RInv
  <2> QED BY <2>1, <2>2, <2>3 DEF RInv
<1>2. ASSUME RInv, FlushBegin PROVE RInv'
  <2>1. /\ mode = "run" /\ mode' = "flush" /\ disk' = disk /\ UNCHANGED vars /\ pc = "idle"
        /\ flush' = At(tip, chain)
    BY <1>2 DEF FlushBegin, At
  <2>2. tip' = tip /\ chain' = chain /\ pc' = pc
    BY <2>1 DEF vars
  <2>3. IInv' /\ Extra' /\ failed' = FALSE
    BY <1>2, <2>1, ChainKept DEF RInv
  <2>4. AtBlock(disk') /\ disk'.heads = <<>>
    BY <1>2, <2>1, DiskFacts DEF RInv
  <2>5. flush' = At(tip', chain')
    BY <2>1, <2>2
  <2> QED BY <2>1, <2>2, <2>3, <2>4, <2>5 DEF RInv
<1> QED BY <1>1, <1>2

(* A flush writes the coins of a valid chain.                              *)
LEMMA FlushFacts ==
  ASSUME RInv, mode = "flush"
  PROVE  /\ Valid(chain) /\ flush.tip = chain
         /\ flush.coins = DbAfter(chain).coins /\ flush.names = DbAfter(chain).names
         /\ AtBlock(disk) \/ (AtGap(disk) /\ disk.heads[1] = chain)
<1>1. Valid(chain) /\ tip = DbAfter(chain)
  BY ActiveChain DEF RInv
<1>2. flush = At(tip, chain)
  BY DEF RInv
<1>3. flush.tip = chain /\ flush.coins = tip.coins /\ flush.names = tip.names
  BY <1>2 DEF At
<1>4. AtBlock(disk) \/ (AtGap(disk) /\ disk.heads[1] = chain)
  BY DiskFacts DEF RInv
<1> QED BY <1>1, <1>3, <1>4

(* The batches of BatchWrite, in a flush of the tip and in ReplayBlocks.   *)
LEMMA PartialBatchStep ==
  ASSUME NEW y \in OutPoint, RInv, PartialBatch(y)
  PROVE  RInv'
<1>1. /\ mode \in {"flush", "replay"} /\ mode' = mode /\ flush' = flush /\ UNCHANGED vars
      /\ disk' = [coins |-> [disk.coins EXCEPT ![y] = flush.coins[y]], names |-> disk.names,
                  best |-> <<>>, heads |-> <<flush.tip, OldTip>>]
  BY DEF PartialBatch
<1>2. tip' = tip /\ chain' = chain /\ pc' = pc /\ failed' = failed
  BY <1>1 DEF vars
<1>3. CASE mode = "flush"
  <2>1. Between(disk', chain, OldTip) /\ AtGap(disk') /\ disk'.heads[1] = chain
    BY <1>1, <1>3, FlushFacts, BatchStep
  <2>2. IInv' /\ Extra' /\ failed' = FALSE
    BY <1>1, <1>3, ChainKept DEF RInv
  <2>3. flush' = At(tip', chain') /\ pc' = "idle"
    BY <1>1, <1>2, <1>3 DEF RInv
  <2> QED BY <1>1, <1>2, <1>3, <2>1, <2>2, <2>3 DEF RInv
<1>4. CASE mode = "replay"
  <2> DEFINE n == disk.heads[1]
             o == disk.heads[2]
  <2>1. AtGap(disk) /\ Rolled(flush, n, o)
    BY <1>4 DEF RInv
  <2>2. Valid(n) /\ OldTip = o /\ flush.tip = n
    BY <2>1, DiskFacts DEF AtGap, Between, Rolled
  <2>3. Restored(n, OldTip, y) => flush.coins[y] = DbAfter(n).coins[y]
    BY <2>1, <2>2 DEF Rolled
  <2>4. AtGap(disk') /\ disk'.heads[1] = n /\ disk'.heads[2] = o
    <3>1. /\ disk.heads[1] = n
          /\ disk' = [coins |-> [disk.coins EXCEPT ![y] = flush.coins[y]], names |-> disk.names,
                      best |-> <<>>, heads |-> <<n, OldTip>>]
      BY <1>1, <2>2
    <3> HIDE DEF n
    <3>2. AtGap(disk') /\ disk'.heads[1] = n /\ disk'.heads[2] = OldTip
      BY <2>1, <2>2, <2>3, <3>1, BatchStep
    <3> QED BY <2>2, <3>2
  <2>5. Rolled(flush', disk'.heads[1], disk'.heads[2])
    BY <1>1, <2>1, <2>4
  <2> QED BY <1>1, <1>2, <1>4, <2>4, <2>5 DEF RInv
<1> QED BY <1>1, <1>3, <1>4

(* The last batch takes the database to the block that is flushed.         *)
LEMMA FinalBatchStep == RInv /\ FinalBatch => RInv'
<1> SUFFICES ASSUME RInv, FinalBatch PROVE RInv'
  OBVIOUS
<1>1. /\ mode \in {"flush", "replay"} /\ UNCHANGED vars
      /\ mode' = IF mode = "flush" THEN "run" ELSE "replayed"
      /\ disk' = [coins |-> flush.coins, names |-> flush.names, best |-> <<flush.tip>>, heads |-> <<>>]
  BY DEF FinalBatch
<1>2. /\ disk'.coins = flush.coins /\ disk'.names = flush.names
      /\ disk'.best = <<flush.tip>> /\ disk'.heads = <<>> /\ disk'.best[1] = flush.tip
  BY <1>1, SMT
<1>3. CASE mode = "flush"
  <2>1. AtBlock(disk')
    BY <1>2, <1>3, FlushFacts DEF AtBlock, Complete
  <2>2. IInv' /\ Extra' /\ failed' = FALSE
    BY <1>1, <1>3, ChainKept DEF RInv
  <2>3. mode' = "run"
    BY <1>1, <1>3
  <2> QED BY <2>1, <2>2, <2>3 DEF RInv
<1>4. CASE mode = "replay"
  <2>1. Rolled(flush, disk.heads[1], disk.heads[2])
    BY <1>4 DEF RInv
  <2>2. \A x \in OutPoint : ~isAnyUpdate(x) => disk'.coins[x] = DbAfter(disk'.best[1]).coins[x]
    BY <1>2, <2>1 DEF Rolled, Restored
  <2>3. mode' = "replayed" /\ failed' = FALSE
    BY <1>1, <1>4 DEF vars, RInv
  <2> QED BY <2>2, <2>3 DEF RInv
<1> QED BY <1>1, <1>3, <1>4

(* A crash leaves the database, which is at a block or between two.        *)
LEMMA CrashStep == RInv /\ Crash => RInv'
<1> SUFFICES ASSUME RInv, Crash PROVE RInv'
  OBVIOUS
<1>1. /\ mode \in {"run", "flush", "replaying", "replay"} /\ mode' = "down" /\ disk' = disk
      /\ block' = EmptyBlock /\ pc' = "idle" /\ failed' = failed
  BY DEF Crash
<1>2. AtBlock(disk') \/ AtGap(disk')
  BY <1>1 DEF RInv
<1> QED BY <1>1, <1>2 DEF RInv

(* ReplayBlocks begins at the old block.                                   *)
LEMMA ReplayBegins == RInv /\ ReplayBlocks => RInv'
<1> SUFFICES ASSUME RInv, ReplayBlocks PROVE RInv'
  OBVIOUS
<1>1. mode = "down" /\ disk' = disk /\ UNCHANGED vars
  BY DEF ReplayBlocks
<1>2. failed' = FALSE /\ pc' = "idle" /\ block' = EmptyBlock
  BY <1>1 DEF vars, RInv
<1>3. CASE disk.heads = <<>>
  <2>1. mode' = "start"
    BY <1>3 DEF ReplayBlocks
  <2>2. AtBlock(disk')
    BY <1>1, <1>3, DiskFacts DEF RInv
  <2> QED BY <1>2, <2>1, <2>2 DEF RInv
<1>4. CASE disk.heads # <<>>
  <2> DEFINE n == disk.heads[1]
             o == disk.heads[2]
  <2>1. AtGap(disk)
    BY <1>1, <1>4, DiskFacts DEF RInv
  <2>2. Between(disk, n, o)
    BY <2>1 DEF AtGap
  <2>3. /\ mode' = "replaying"
        /\ flush' = [coins |-> disk.coins, names |-> disk.names, tip |-> o]
    BY <1>4 DEF ReplayBlocks
  <2>4. flush'.coins = disk.coins /\ flush'.names = disk.names /\ flush'.tip = o
    BY <2>3
  <2>5. o \in Seq(BlockType)
    BY <2>2 DEF Between, Valid
  <2>6. /\ Len(o) \in Nat /\ SubSeq(o, 1, Len(o)) = o /\ Len(o) <= Len(o)
        /\ \A j \in Len(o) + 1 .. Len(o) : FALSE
    BY <2>5, SMT
  <2>7. Back(o, n, o)
    BY <2>6 DEF Back, IsAncestor
  <2> HIDE DEF n, o
  <2>8. Rolling(flush', n, o)
    BY <2>2, <2>4, <2>6, <2>7 DEF Rolling, Between
  <2>9. AtGap(disk') /\ Rolling(flush', disk'.heads[1], disk'.heads[2])
    BY <1>1, <2>1, <2>8 DEF n, o
  <2> QED BY <1>2, <2>3, <2>9 DEF RInv
<1> QED BY <1>3, <1>4

(* Both loops of ReplayBlocks, and its flush.                              *)
LEMMA ReplayLoops == RInv /\ (Rollback \/ Rollforward \/ ReplayFlush) => RInv'
<1> SUFFICES ASSUME RInv, Rollback \/ Rollforward \/ ReplayFlush PROVE RInv'
  OBVIOUS
<1> DEFINE n == disk.heads[1]
           o == disk.heads[2]
<1>1. mode = "replaying" /\ disk' = disk /\ UNCHANGED vars
  BY DEF Rollback, Rollforward, ReplayFlush
<1>2. failed' = FALSE
  BY <1>1 DEF vars, RInv
<1>3. AtGap(disk) /\ Rolling(flush, n, o)
  BY <1>1 DEF RInv
<1>4. Valid(n) /\ Valid(o)
  BY <1>3 DEF AtGap, Between
<1>5. CASE Rollback \/ Rollforward
  <2>1. mode' = "replaying"
    BY <1>1, <1>5 DEF Rollback, Rollforward
  <2>2. CASE Rollback
    <3>1. /\ ~IsAncestor(flush.tip, n)
          /\ flush' = At(RollbackBlock(flush, flush.tip[Len(flush.tip)], BaseHeight + Len(flush.tip)),
                         pprev(flush.tip))
      BY <2>2 DEF Rollback
    <3> HIDE DEF n, o
    <3>2. Rolling(flush', n, o)
      BY <1>3, <1>4, <3>1, RollbackStep
    <3>3. AtGap(disk') /\ Rolling(flush', disk'.heads[1], disk'.heads[2])
      BY <1>1, <1>3, <3>2 DEF n, o
    <3> QED BY <1>2, <2>1, <3>3 DEF RInv
  <2>3. CASE Rollforward
    <3>1. /\ IsAncestor(flush.tip, n) /\ flush.tip # n
          /\ flush' = At(RollforwardBlock(flush, n[Len(flush.tip) + 1], BaseHeight + Len(flush.tip) + 1),
                         Append(flush.tip, n[Len(flush.tip) + 1]))
      BY <2>3 DEF Rollforward
    <3> HIDE DEF n, o
    <3>2. Rolling(flush', n, o)
      BY <1>3, <1>4, <3>1, RollforwardStep
    <3>3. AtGap(disk') /\ Rolling(flush', disk'.heads[1], disk'.heads[2])
      BY <1>1, <1>3, <3>2 DEF n, o
    <3> QED BY <1>2, <2>1, <3>3 DEF RInv
  <2> QED BY <1>5, <2>2, <2>3
<1>6. CASE ReplayFlush
  <2>1. mode' = "replay" /\ flush' = flush /\ flush.tip = n
    BY <1>6 DEF ReplayFlush
  <2> HIDE DEF n, o
  <2>2. Rolled(flush, n, o)
    BY <1>3, <2>1 DEF Rolling, Rolled, OneOf
  <2>3. AtGap(disk') /\ Rolled(flush', disk'.heads[1], disk'.heads[2])
    BY <1>1, <1>3, <2>1, <2>2 DEF n, o
  <2> QED BY <1>2, <2>1, <2>3 DEF RInv
<1> QED BY <1>5, <1>6

(* LoadChainTip after a clean start and after ReplayBlocks.                *)
LEMMA LoadStep == RInv /\ LoadChainTip => RInv'
<1> SUFFICES ASSUME RInv, LoadChainTip PROVE RInv'
  OBVIOUS
<1>1. /\ mode \in {"start", "replayed"} /\ mode' = IF mode = "start" THEN "run" ELSE "recovered"
      /\ tip' = DiskDB /\ view' = DiskDB /\ chain' = disk.best[1]
      /\ block' = block /\ pc' = pc /\ failed' = failed /\ disk' = disk
  BY DEF LoadChainTip
<1>2. failed' = FALSE
  BY <1>1 DEF RInv
<1>3. CASE mode = "start"
  <2>1. AtBlock(disk) /\ pc' = "idle" /\ block' = EmptyBlock /\ mode' = "run"
    BY <1>1, <1>3 DEF RInv
  <2>2. /\ Valid(chain') /\ disk.coins = DbAfter(chain').coins
        /\ disk.names = DbAfter(chain').names
    BY <1>1, <2>1, DiskFacts
  <2>3. DiskDB = DbAfter(chain')
    BY <2>2, DbRecord DEF DiskDB
  <2>4. Valid(chain') /\ tip' = DbAfter(chain') /\ view' = tip'
    BY <1>1, <2>2, <2>3
  <2>5. (Valid(chain) /\ tip = DbAfter(chain) /\ view = tip /\ block = EmptyBlock /\ pc = "idle"
           /\ failed = FALSE)' => IInv' /\ Extra'
    BY AtRest, PTL
  <2>6. IInv' /\ Extra'
    BY <1>2, <2>1, <2>4, <2>5
  <2> QED BY <1>1, <1>2, <2>1, <2>6 DEF RInv
<1>4. CASE mode = "replayed"
  <2>1. mode' = "recovered"
    BY <1>1, <1>4
  <2>2. tip'.coins = disk.coins
    BY <1>1 DEF DiskDB
  <2>3. \A x \in OutPoint : ~isAnyUpdate(x) => tip'.coins[x] = DbAfter(chain').coins[x]
    BY <1>1, <1>4, <2>2 DEF RInv
  <2> QED BY <1>2, <2>1, <2>3 DEF RInv, ReplayedCoins
<1> QED BY <1>1, <1>3, <1>4

-----------------------------------------------------------------------------
(* The theorems.                                                           *)

(* A step that changes nothing keeps the invariant.                        *)
LEMMA StutterStep == RInv /\ UNCHANGED allVars => RInv'
<1> SUFFICES ASSUME RInv, UNCHANGED allVars PROVE RInv'
  OBVIOUS
<1>1. /\ UNCHANGED vars /\ tip' = tip /\ chain' = chain /\ block' = block /\ pc' = pc
      /\ failed' = failed /\ disk' = disk /\ flush' = flush /\ mode' = mode
  BY DEF allVars, diskVars, vars
<1>2. mode' \in {"run", "flush"} => IInv' /\ Extra'
  BY <1>1, ChainKept DEF RInv
<1>3. /\ mode' \in {"run", "start"} => AtBlock(disk')
      /\ mode' \in {"flush", "down"} => AtBlock(disk') \/ AtGap(disk')
      /\ mode' \in {"replaying", "replay"} => AtGap(disk')
      /\ mode' = "replaying" => Rolling(flush', disk'.heads[1], disk'.heads[2])
      /\ mode' = "replay" => Rolled(flush', disk'.heads[1], disk'.heads[2])
  BY <1>1 DEF RInv
<1>4. mode' = "flush" => /\ pc' = "idle" /\ flush' = At(tip', chain')
                         /\ disk'.heads # <<>> => disk'.heads[1] = chain'
  BY <1>1 DEF RInv
<1>5. mode' = "recovered" => ReplayedCoins'
  BY <1>1 DEF RInv, ReplayedCoins
<1> QED BY <1>1, <1>2, <1>3, <1>4, <1>5 DEF RInv

(* The invariant of crash recovery: the database is at one block or        *)
(* between two, and a replay has each coin either as it is at the block it *)
(* has reached or already as it is at the new tip.                         *)
THEOREM ReplayInvariant == ReplaySpec => []RInv
<1>1. ReplayInit => RInv
  <2> SUFFICES ASSUME ReplayInit PROVE RInv
    OBVIOUS
  <2>1. /\ Init /\ mode = "run"
        /\ disk = [coins |-> tip.coins, names |-> tip.names, best |-> <<chain>>, heads |-> <<>>]
    BY DEF ReplayInit
  <2>2. IInv /\ Extra /\ failed = FALSE
    BY <2>1, InvariantInductive, ExtraInductive DEF Init
  <2>3. Valid(chain) /\ tip = DbAfter(chain)
    BY <2>2, ActiveChain
  <2>4. /\ disk.coins = tip.coins /\ disk.names = tip.names /\ disk.best = <<chain>>
        /\ disk.heads = <<>> /\ disk.best[1] = chain
    BY <2>1, SMT
  <2>5. AtBlock(disk)
    BY <2>3, <2>4 DEF AtBlock, Complete
  <2> QED BY <2>1, <2>2, <2>5 DEF RInv
<1>2. RInv /\ [ReplayNext]_allVars => RInv'
  BY RunSteps, PartialBatchStep, FinalBatchStep, CrashStep, ReplayBegins, ReplayLoops, LoadStep,
     StutterStep DEF ReplayNext
<1> QED BY <1>1, <1>2, PTL DEF ReplaySpec

(* A crash in any batch of BatchWrite, of a flush or of a replay, leaves   *)
(* the name database of the old block as a whole, and a flush into the gap *)
(* is to the block that the gap ends with.                                 *)
THEOREM NamesAlwaysAtomic == ReplaySpec => []NamesAtomic
<1>1. ASSUME RInv PROVE NamesAtomic
  <2>1. ASSUME mode \notin {"replayed", "recovered"} PROVE disk.names = DbAfter(OldTip).names
    <3>1. AtBlock(disk) \/ AtGap(disk)
      BY <1>1, <2>1 DEF RInv
    <3> QED BY <3>1, DiskFacts
  <2>2. ASSUME mode = "flush", disk.heads # <<>> PROVE disk.heads[1] = flush.tip
    BY <1>1, <2>2, FlushFacts DEF RInv
  <2>3. ASSUME mode = "replay" PROVE disk.heads[1] = flush.tip
    BY <1>1, <2>3 DEF RInv, Rolled
  <2> QED BY <2>1, <2>2, <2>3 DEF NamesAtomic
<1> QED BY <1>1, ReplayInvariant, PTL

(* ReplayBlocks ends with the coins of the new tip, those of names         *)
(* excepted, whatever part of the flush and of earlier replays reached the *)
(* disk.                                                                   *)
THEOREM CoinsAlwaysReplayed == ReplaySpec => []ReplayedCoins
<1>1. RInv => ReplayedCoins
  BY DEF RInv, ReplayedCoins
<1> QED BY <1>1, ReplayInvariant, PTL

(* ReplayBlocks ends with the whole database of the new tip when the new   *)
(* branch has no name operation and no expiration, and no block of the old *)
(* branch expired more than one name.                                      *)
THEOREM ReplayIsExact == ReplaySpec => []ReplayExact
<1>1. ASSUME RInv, mode = "replay", Plain(disk.heads[1], disk.heads[2])
      PROVE  [coins |-> flush.coins, names |-> flush.names] = DbAfter(disk.heads[1])
  <2> DEFINE n == disk.heads[1]
             o == disk.heads[2]
  <2>1. Rolled(flush, n, o) /\ Between(disk, n, o)
    BY <1>1 DEF RInv, AtGap
  <2>2. Valid(n) /\ Plain(n, o)
    BY <1>1, <2>1 DEF Between
  <2> HIDE DEF n, o
  <2>3. IsCoins(flush.coins) /\ IsCoins(DbAfter(n).coins)
    BY <2>1, <2>2, ChainCoins DEF Rolled
  <2>4. \A x \in OutPoint : flush.coins[x] = DbAfter(n).coins[x]
    BY <2>1, <2>2 DEF Rolled, Restored
  <2>5. flush.coins = DbAfter(n).coins
    BY <2>3, <2>4, SMT DEF IsCoins
  <2>6. flush.names = DbAfter(n).names
    BY <2>1, <2>2 DEF Rolled
  <2>7. [coins |-> flush.coins, names |-> flush.names] = DbAfter(n)
    BY <2>2, <2>5, <2>6, DbRecord
  <2> QED BY <2>7 DEF n
<1>2. RInv => ReplayExact
  BY <1>1 DEF ReplayExact, Plain
<1> QED BY <1>2, ReplayInvariant, PTL

(* A node that runs, and was never stopped in the middle of a flush, has a *)
(* consistent name database, however often it crashed and lost the blocks  *)
(* since its last flush; no assertion of the name code fails in it.        *)
THEOREM RestartsAreConsistent ==
  ReplaySpec => [](mode \in {"run", "flush"} => NameDBConsistent /\ NoFailure)
<1>1. ASSUME RInv, mode \in {"run", "flush"} PROVE NameDBConsistent /\ NoFailure
  BY <1>1, InvariantValidates DEF RInv, IInv, NoFailure
<1> QED BY <1>1, ReplayInvariant, PTL
=============================================================================
