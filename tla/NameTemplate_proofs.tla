------------------------ MODULE NameTemplate_proofs -------------------------
(* What is built on the entries of the mempool, once they are known to be  *)
(* valid on top of the tip (NameMempool_proofs): the pending updates of a  *)
(* name form one chain, whose end lastNameOutput finds, and what addChunks *)
(* selects for a block connects.                                           *)
EXTENDS NameMempool_proofs, FiniteSetTheorems

(* Most leaves are first-order, so Zenon is the default prover; a leaf that  *)
(* needs arithmetic, records or function application says SMT.              *)
USE Zenon

-----------------------------------------------------------------------------
(* The chain of pending updates of a name.                                 *)

(* An outpoint holds the hash of the transaction it is an output of, so    *)
(* that transactions can be listed with parents before children.           *)
SpendsOlder ==
  \E nr \in [Tx -> Nat] : \A t, u \in Tx : vin[u] \cap vout[t] # {} => nr[t] < nr[u]

(* A finite set has a member of the greatest number.                       *)
LEMMA FiniteGreatest ==
  ASSUME NEW S, IsFiniteSet(S), S # {}, NEW f, \A s \in S : f[s] \in Nat
  PROVE  \E t \in S : \A u \in S : f[u] <= f[t]
<1>1. Cardinality(S) \in Nat /\ ExistsBijection(1 .. Cardinality(S), S)
  BY FS_CardinalityType
<1> DEFINE N == Cardinality(S)
<1>2. PICK g \in [1 .. N -> S] : \A s \in S : \E i \in 1 .. N : g[i] = s
  BY <1>1 DEF ExistsBijection, Bijection, Surjection
<1> HIDE DEF N
<1>3. N \in Nat
  BY <1>1 DEF N
<1> DEFINE G == {n \in Nat : \E t \in S : \A i \in 1 .. N : i <= n => f[g[i]] <= f[t]}
<1>4. 0 \in G
  BY SMT
<1>5. ASSUME NEW n \in 0 .. N, n < N, n \in G PROVE n + 1 \in G
  <2>1. PICK t \in S : \A i \in 1 .. N : i <= n => f[g[i]] <= f[t]
    BY <1>5
  <2>2. n + 1 \in 1 .. N /\ n \in Nat
    BY <1>3, <1>5, SMT
  <2>3. g[n + 1] \in S
    BY <1>2, <2>2
  <2>4. \A i \in 1 .. N : i <= n + 1 => i <= n \/ i = n + 1
    BY <1>3, <2>2, SMT
  <2>5. CASE f[g[n + 1]] <= f[t]
    BY <2>1, <2>2, <2>4, <2>5, SMT
  <2>6. CASE ~(f[g[n + 1]] <= f[t])
    <3>1. ASSUME NEW i \in 1 .. N, i <= n + 1 PROVE f[g[i]] <= f[g[n + 1]]
      <4>1. f[g[i]] \in Nat /\ f[t] \in Nat /\ f[g[n + 1]] \in Nat
        BY <1>2, <2>3
      <4>2. CASE i = n + 1
        BY <4>1, <4>2, SMT
      <4>3. CASE i <= n
        BY <2>1, <2>6, <4>1, <4>3, SMT
      <4> QED BY <2>4, <3>1, <4>2, <4>3
    <3> QED BY <2>2, <2>3, <3>1, SMT
  <2> QED BY <2>5, <2>6
<1> HIDE DEF G
<1>6. 0 .. N \subseteq G
  <2>1. \A n \in 0 .. N : n < N /\ n \in G => n + 1 \in G
    BY <1>5
  <2> QED BY <1>3, <1>4, <2>1, UpTo
<1>7. PICK t \in S : \A i \in 1 .. N : i <= N => f[g[i]] <= f[t]
  <2>1. N \in 0 .. N
    BY <1>3, SMT
  <2>2. N \in G
    BY <1>6, <2>1
  <2> QED BY <2>2 DEF G
<1>8. ASSUME NEW u \in S PROVE f[u] <= f[t]
  <2>1. PICK i \in 1 .. N : g[i] = u
    BY <1>2
  <2> QED BY <1>3, <1>7, <2>1, SMT
<1> QED BY <1>8

(* The mempool is finite in every state.                                   *)
LEMMA FinitePool == PoolSpec => []IsFiniteSet(pool.mapTx)
(* A step adds at most one entry.                                          *)
<1>AtMostOneAdded.
  ASSUME [PoolNext]_allVars
  PROVE  \E t : pool'.mapTx \subseteq pool.mapTx \cup {t}
<2> USE <1>AtMostOneAdded
<2> DEFINE Grown(p) == \E t : p.mapTx \subseteq pool.mapTx \cup {t}
<2> SUFFICES Grown(pool')
  OBVIOUS
<2>0. ASSUME NEW p, Grown(p), NEW S PROVE Grown(remove(p, S))
  BY <2>0 DEF remove
<2>1. ASSUME NEW t PROVE Grown(Accepted(pool, t))
  BY DEF Accepted, addUnchecked, remove
<2>2. Grown(pool)
  OBVIOUS
<2>3. ASSUME NEW new, pool' = new \/ pool' = pool, Grown(new) PROVE Grown(pool')
  BY <2>2, <2>3
<2> HIDE DEF Grown
<2>4. CASE UNCHANGED pool
  BY <2>2, <2>4
<2>5. ASSUME NEW t \in Tx, AcceptToMemoryPool(t) PROVE Grown(pool')
  <3>1. PICK victims : LET new == LimitMempoolSize(Accepted(pool, t), victims)
                       IN pool' = new \/ pool' = pool
    BY <2>5 DEF AcceptToMemoryPool, SetPool
  <3> QED BY <2>0, <2>1, <2>3, <3>1 DEF LimitMempoolSize
<2>6. CASE StepDisconnectEnd
  <3> DEFINE b == chain[Len(chain)]
             queue == AddTransactionsFromBlock(disconnectpool, b.vtx)
             kept == removeUnexpireConflicts(pool, {c.name : c \in b.vexpired})
  <3>1. PICK k : LET new == remove(kept, WithDescendants(kept, Range(SubSeq(queue, 1, k))))
                 IN pool' = new \/ pool' = pool
    BY <2>6 DEF StepDisconnectEnd, SetPool
  <3>2. Grown(kept)
    BY <2>0, <2>2 DEF removeUnexpireConflicts
  <3> HIDE DEF kept
  <3> QED BY <2>0, <2>3, <3>1, <3>2
<2>7. CASE StepConnectEnd
  <3> DEFINE kept == removeForBlock(pool, TxsOf(block))
             expired == ExpiringNames(view.names, Height + 2)
  <3>1. pool' = removeExpireConflicts(kept, expired) \/ pool' = pool
    BY <2>7 DEF StepConnectEnd, SetPool
  <3>2. Grown(kept)
    BY <2>0, <2>2 DEF removeForBlock
  <3> HIDE DEF kept, expired
  <3>3. Grown(removeExpireConflicts(kept, expired))
    BY <2>0, <3>2 DEF removeExpireConflicts
  <3> QED BY <2>3, <3>1, <3>3
<2>8. CASE Resurrect
  <3>1. PICK t \in Tx : \/ pool' = Accepted(pool, t) \/ pool' = pool
                        \/ pool' = remove(pool, WithDescendants(pool, {t}))
    BY <2>8 DEF Resurrect, SetPool
  <3> QED BY <2>0, <2>1, <2>2, <2>3, <3>1
<2>9. CASE StepEnd
  <3>1. PICK victims : pool' = LimitMempoolSize(pool, victims) \/ pool' = pool
    BY <2>9 DEF StepEnd, SetPool
  <3> QED BY <2>0, <2>2, <2>3, <3>1 DEF LimitMempoolSize
<2>10. CASE StepDisconnectBegin \/ StepConnectBegin \/ StepConnectInvalid \/ StepInside
  BY <2>4, <2>10 DEF StepDisconnectBegin, StepConnectBegin, StepConnectInvalid, StepInside, poolVars
<2>11. CASE UNCHANGED allVars
  BY <2>4, <2>11 DEF allVars, poolVars
<2> QED BY <2>5, <2>6, <2>7, <2>8, <2>9, <2>10, <2>11 DEF PoolNext
(* So the mempool stays finite.                                            *)
<1>FinitePoolStep.
  ASSUME [PoolNext]_allVars, IsFiniteSet(pool.mapTx)
  PROVE  IsFiniteSet(pool'.mapTx)
<2> USE <1>FinitePoolStep
<2>1. PICK t : pool'.mapTx \subseteq pool.mapTx \cup {t}
  BY <1>AtMostOneAdded
<2>2. IsFiniteSet(pool.mapTx \cup {t})
  BY FS_AddElement
<2> QED BY <2>1, <2>2, FS_Subset
<1>1. PoolInit => IsFiniteSet(pool.mapTx)
  <2>1. EmptyPool.mapTx = {}
    BY DEF EmptyPool
  <2> QED BY <2>1, FS_EmptySet DEF PoolInit
<1>2. IsFiniteSet(pool.mapTx) /\ [PoolNext]_allVars => IsFiniteSet(pool.mapTx)'
  BY <1>FinitePoolStep
<1> QED BY <1>1, <1>2, PTL DEF PoolSpec

(* The name input of a pending update of n, and the coins and outputs of p *)
(* that the first of them can spend.                                       *)
NamePrev(n, in) == isAnyUpdate(in) /\ nameOp[in].name = n

NameBelow(p, db, n) ==
  {in \in OutPoint : db.coins[in] # Spent \/ \E w \in p.mapTx : in \in vout[w] /\ n \in Registered(w)}

(* A pending update spends the coin of its name, an output of the name's   *)
(* pending registration, or an output of another pending update of it.     *)
LEMMA UpdateSpends ==
  ASSUME NEW p, MapsOK(p), NEW db, NEW h, EntriesOK(p.mapTx, {}, db, h),
         NEW n \in Name, NEW u \in p.updates[n]
  PROVE  \E in \in vin[u] : /\ NamePrev(n, in)
                            /\ in \in NameBelow(p, db, n) \/ \E w \in p.updates[n] : in \in vout[w]
<1>1. u \in p.mapTx /\ u \in Tx /\ n \in Updated(u) /\ EntryOK(u)
  BY SMT DEF MapsOK, EntriesOK
<1>2. PICK o \in vout[u] : u \in NamecoinTx /\ nameOp[o].op = "UPDATE" /\ nameOp[o].name = n
  BY <1>1 DEF Updated, OpNames
<1>3. o \in NameOuts(u)
  BY <1>2 DEF NameOuts, isNameOp
<1>4. PICK in \in NameIns(u) : NamePrev(n, in)
  <2>1. PICK out \in NameOuts(u) :
          \/ nameOp[out].op = "NEW"
          \/ /\ nameOp[out].op = "UPDATE"
             /\ \E in \in NameIns(u) : isAnyUpdate(in) /\ nameOp[in].name = nameOp[out].name
          \/ nameOp[out].op = "FIRSTUPDATE"
    BY <1>1, <1>2 DEF EntryOK
  <2>2. out = o
    BY <1>1, <1>3 DEF EntryOK, AtMostOne
  <2> QED BY <1>2, <2>1, <2>2 DEF NamePrev
<1>5. in \in vin[u] /\ in \in OutPoint
  BY <1>1, CatalogueAssumption DEF NameIns
<1>6. CASE db.coins[in] # Spent
  BY <1>4, <1>5, <1>6 DEF NameBelow
<1>7. CASE db.coins[in] = Spent
  <2>1. PICK w \in p.mapTx : in \in vout[w]
    BY <1>1, <1>5, <1>7 DEF EntriesOK, InputsThere
  <2>2. w \in Tx /\ EntryOK(w)
    BY DEF EntriesOK
  <2>3. in \in NameOuts(w)
    BY <1>4, <2>1 DEF NameOuts, isNameOp, NamePrev, isAnyUpdate
  <2>4. w \in NamecoinTx
    BY <2>2, <2>3 DEF EntryOK
  <2>5. CASE nameOp[in].op = "FIRSTUPDATE"
    <3>1. n \in Registered(w)
      BY <1>4, <2>1, <2>4, <2>5 DEF Registered, OpNames, NamePrev
    <3>2. in \in NameBelow(p, db, n)
      BY <1>5, <2>1, <3>1 DEF NameBelow
    <3> QED BY <1>4, <1>5, <3>2
  <2>6. CASE nameOp[in].op = "UPDATE"
    <3>1. n \in Updated(w)
      BY <1>4, <2>1, <2>4, <2>6 DEF Updated, OpNames, NamePrev
    <3>2. w \in p.updates[n]
      BY <3>1, SMT DEF MapsOK
    <3> QED BY <1>4, <1>5, <2>1, <3>2
  <2> QED BY <1>4, <2>5, <2>6 DEF NamePrev, isAnyUpdate
<1> QED BY <1>6, <1>7

(* There is one outpoint below the pending updates of a name: the coin of  *)
(* a live name, or the output of the one pending registration of a free    *)
(* one.                                                                    *)
LEMMA OneNameBelow ==
  ASSUME IInv, MapsOK(pool), EntriesOK(pool.mapTx, {}, tip, Height + 1), NEW n \in Name,
         NEW i \in NameBelow(pool, tip, n), NamePrev(n, i),
         NEW j \in NameBelow(pool, tip, n), NamePrev(n, j)
  PROVE  i = j
<1>0. /\ i \in OutPoint /\ j \in OutPoint
      /\ tip.coins[i] # Spent \/ \E w \in pool.mapTx : i \in vout[w] /\ n \in Registered(w)
      /\ tip.coins[j] # Spent \/ \E w \in pool.mapTx : j \in vout[w] /\ n \in Registered(w)
  BY DEF NameBelow
<1>1. CoinsMatchNames(tip, Height) /\ tip \in DBType
  BY DEF IInv, DBOK, TypeOK
<1>2. ASSUME NEW o \in OutPoint, NamePrev(n, o), tip.coins[o] # Spent
      PROVE  tip.names.data[n].out = o /\ ~Free(tip.names, n, Height + 1)
  <2>1. /\ tip.names.data[n] = [height |-> tip.coins[o], out |-> o]
        /\ ~isExpired(tip.names.data[n].height, Height + 1)
    BY <1>1, <1>2 DEF CoinsMatchNames, NamePrev
  <2>2. tip.coins[o] \in CoinHeight
    BY <1>1 DEF DBType, CoinsType
  <2>3. tip.names.data[n] # NoData
    BY <1>2, <2>1, <2>2, DataOfCoin
  <2> QED BY <2>1, <2>3, SMT DEF Free
<1>3. ASSUME NEW w \in pool.mapTx, n \in Registered(w)
      PROVE  Free(tip.names, n, Height + 1) /\ w = pool.mapNameRegs[n] /\ AtMostOne(NameOuts(w))
  BY <1>3 DEF EntriesOK, RegistrationsOK, MapsOK, EntryOK
<1>4. CASE tip.coins[i] # Spent /\ tip.coins[j] # Spent
  BY <1>0, <1>2, <1>4
<1>5. CASE tip.coins[i] = Spent /\ tip.coins[j] = Spent
  <2>1. PICK v \in pool.mapTx : i \in vout[v] /\ n \in Registered(v)
    BY <1>0, <1>5
  <2>2. PICK w \in pool.mapTx : j \in vout[w] /\ n \in Registered(w)
    BY <1>0, <1>5
  <2>3. v = w /\ AtMostOne(NameOuts(w))
    BY <1>3, <2>1, <2>2
  <2>4. i \in NameOuts(w) /\ j \in NameOuts(w)
    BY <2>1, <2>2, <2>3 DEF NameOuts, isNameOp, NamePrev, isAnyUpdate
  <2> QED BY <2>3, <2>4 DEF AtMostOne
<1> QED BY <1>0, <1>2, <1>3, <1>4, <1>5

(* lastNameOutput finds what to build on: between two steps of the chain   *)
(* the pending updates of a name form one chain, and exactly one of them   *)
(* is not spent by another, however long the chain is and whatever was     *)
(* replaced, mined, expired and disconnected before.  Transactions must    *)
(* not spend each other in a circle, which a hash rules out.               *)
THEOREM LastNameOutputAlwaysUnique ==
  AmountSettled /\ SpendsOlder /\ PoolSpec => []LastNameOutputUnique
(* If all but one of finitely many have a parent among them, no two the    *)
(* same, then at most one is no parent.                                    *)
<1>OneChainEnd.
  ASSUME NEW U, IsFiniteSet(U), NEW r \in U, NEW par \in Injection(U \ {r}, U)
  PROVE  \A x, y \in U \ {par[u] : u \in U \ {r}} : x = y
<2> USE <1>OneChainEnd
<2>0. par \in [U \ {r} -> U] /\ \A u, v \in U \ {r} : par[u] = par[v] => u = v
  BY DEF Injection, IsInjective
<2> SUFFICES ASSUME NEW x \in U, NEW y \in U, \A u \in U \ {r} : par[u] # x /\ par[u] # y, x # y
             PROVE  FALSE
  OBVIOUS
<2> DEFINE S == U \ {r}
           T == (U \ {x}) \ {y}
<2>1. Cardinality(U) \in Nat
  BY FS_CardinalityType
<2>2. IsFiniteSet(S) /\ Cardinality(S) = Cardinality(U) - 1
  BY FS_RemoveElement
<2>3. IsFiniteSet(U \ {x}) /\ Cardinality(U \ {x}) = Cardinality(U) - 1
  BY FS_RemoveElement
<2>4. IsFiniteSet(T) /\ Cardinality(T) = Cardinality(U \ {x}) - 1
  <3>1. y \in U \ {x}
    OBVIOUS
  <3> QED BY <2>3, <3>1, FS_RemoveElement
<2>5. par \in [S -> T]
  BY <2>0
<2>6. Cardinality(T) < Cardinality(S)
  BY <2>1, <2>2, <2>3, <2>4, SMT
<2> HIDE DEF S, T
<2>7. \E u, v \in S : u # v /\ par[u] = par[v]
  BY <2>2, <2>4, <2>5, <2>6, FS_PigeonHole
<2> QED BY <2>0, <2>7 DEF S
(* The pending updates of a name form a chain with one end.                *)
<1>OneLastUpdate.
  ASSUME SpendsOlder, IInv, MapsOK(pool), EntriesOK(pool.mapTx, {}, tip, Height + 1),
         IsFiniteSet(pool.mapTx), NEW n \in Name, pool.updates[n] # {}
  PROVE  \E t \in pool.updates[n] :
           {u \in pool.updates[n] : ~ \E w \in pool.updates[n] : vin[w] \cap vout[u] # {}} = {t}
<2> USE <1>OneLastUpdate
<2> DEFINE U == pool.updates[n]
           Src(in) == in \in NameBelow(pool, tip, n)
           Prev(u) == CHOOSE in \in vin[u] :
                        NamePrev(n, in) /\ (Src(in) \/ \E w \in U : in \in vout[w])
           Par(u) == CHOOSE w \in U : Prev(u) \in vout[w]
<2>1. PICK nr \in [Tx -> Nat] : \A t, u \in Tx : vin[u] \cap vout[t] # {} => nr[t] < nr[u]
  BY DEF SpendsOlder
<2>2. U \subseteq pool.mapTx /\ U \subseteq Tx /\ U # {}
  BY SMT DEF MapsOK
<2>3. IsFiniteSet(U)
  BY <2>2, FS_Subset
<2>4. ASSUME NEW u \in U
      PROVE  /\ Prev(u) \in vin[u] /\ Prev(u) \in OutPoint /\ NamePrev(n, Prev(u))
             /\ Src(Prev(u)) \/ \E w \in U : Prev(u) \in vout[w]
  <3>1. \E in \in vin[u] : NamePrev(n, in) /\ (Src(in) \/ \E w \in U : in \in vout[w])
    BY UpdateSpends
  <3> HIDE DEF Src, U
  <3>2. /\ Prev(u) \in vin[u] /\ NamePrev(n, Prev(u))
        /\ Src(Prev(u)) \/ \E w \in U : Prev(u) \in vout[w]
    BY <3>1
  <3> HIDE DEF Prev
  <3>3. vin[u] \subseteq OutPoint
    BY <2>2, CatalogueAssumption
  <3> QED BY <3>2, <3>3
<2>5. ASSUME NEW u \in U, NEW v \in U, Prev(u) = Prev(v) PROVE u = v
  <3>1. NoConflicts(pool.mapTx)
    BY DEF EntriesOK
  <3> HIDE DEF Prev, U
  <3> QED BY <2>2, <2>4, <2>5, <3>1 DEF NoConflicts
<2>6. ASSUME NEW u \in U, NEW v \in U, Src(Prev(u)), Src(Prev(v)) PROVE u = v
  <3> HIDE DEF Prev, U
  <3>1. Prev(u) = Prev(v)
    BY <2>4, <2>6, OneNameBelow DEF Src
  <3> QED BY <2>5, <3>1
<2>7. \A u \in U : AtMostOne(NameOuts(u)) /\ nr[u] \in Nat
  BY <2>2 DEF EntriesOK, EntryOK
<2> HIDE DEF U, Src, Prev
<2>8. PICK r \in U : \A u \in U : nr[r] <= nr[u]
  <3> DEFINE H == {nr[u] : u \in U}
  <3>1. H \in SUBSET Nat /\ H # {}
    BY <2>2, <2>7
  <3>2. \E k \in H : \A m \in H : k <= m
    <4> HIDE DEF H
    <4> QED BY <3>1, LeastNat
  <3> QED BY <3>2
<2>9. PICK t \in U : \A u \in U : nr[u] <= nr[t]
  BY <2>2, <2>3, <2>7, FiniteGreatest
<2>10. ASSUME NEW u \in U, NEW w \in U, Prev(u) \in vout[w] PROVE nr[w] < nr[u]
  BY <2>1, <2>2, <2>4, <2>10
<2>11. Src(Prev(r))
  <3>1. ASSUME NEW w \in U, Prev(r) \in vout[w] PROVE FALSE
    BY <2>7, <2>8, <2>10, <3>1, SMT
  <3> QED BY <2>4, <3>1
<2>12. ASSUME NEW u \in U \ {r} PROVE Par(u) \in U /\ Prev(u) \in vout[Par(u)]
  <3>1. \E w \in U : Prev(u) \in vout[w]
    BY <2>4, <2>6, <2>11
  <3> QED BY <3>1
<2> HIDE DEF Par
<2>13. PICK par \in [U \ {r} -> U] : \A u \in U \ {r} : Prev(u) \in vout[par[u]]
  <3>1. [u \in U \ {r} |-> Par(u)] \in [U \ {r} -> U]
    BY <2>12
  <3> QED BY <2>12, <3>1
<2>14. ASSUME NEW u \in U \ {r}, NEW v \in U \ {r}, par[u] = par[v] PROVE u = v
  <3>1. par[u] \in U
    BY <2>13
  <3>2. Prev(u) \in NameOuts(par[u]) /\ Prev(v) \in NameOuts(par[u])
    BY <2>4, <2>13, <2>14 DEF NameOuts, isNameOp, NamePrev, isAnyUpdate
  <3>3. Prev(u) = Prev(v)
    BY <2>7, <3>1, <3>2 DEF AtMostOne
  <3> QED BY <2>5, <3>3
<2> DEFINE Top(x) == ~ \E w \in U : vin[w] \cap vout[x] # {}
<2>15. Top(t)
  <3> SUFFICES ASSUME NEW w \in U, vin[w] \cap vout[t] # {} PROVE FALSE
    OBVIOUS
  <3>1. nr[t] < nr[w] /\ nr[w] <= nr[t] /\ nr[t] \in Nat /\ nr[w] \in Nat
    BY <2>1, <2>2, <2>7, <2>9
  <3> QED BY <3>1, SMT
<2>16. ASSUME NEW x \in U, Top(x), NEW u \in U \ {r} PROVE par[u] # x
  BY <2>4, <2>13, <2>16
<2> HIDE DEF Top
<2>17. ASSUME NEW x \in U, Top(x) PROVE x = t
  <3>1. par \in Injection(U \ {r}, U)
    BY <2>13, <2>14 DEF Injection, IsInjective
  <3>2. x \in U \ {par[u] : u \in U \ {r}} /\ t \in U \ {par[u] : u \in U \ {r}}
    BY <2>15, <2>16, <2>17
  <3> QED BY <2>3, <3>1, <3>2, <1>OneChainEnd, SMT
<2>18. {x \in U : Top(x)} = {t}
  BY <2>15, <2>17
<2> QED BY <2>18 DEF Top, U
<1> SUFFICES ASSUME AmountSettled, SpendsOlder PROVE PoolSpec => []LastNameOutputUnique
  OBVIOUS
<1>1. IInv /\ MapsOK(pool) /\ PoolInv /\ IsFiniteSet(pool.mapTx) => LastNameOutputUnique
  <2> SUFFICES ASSUME IInv, MapsOK(pool), PoolInv, IsFiniteSet(pool.mapTx), step = "none",
                      NEW n \in Name, pool.updates[n] # {}
               PROVE  \E t \in pool.updates[n] :
                        {u \in pool.updates[n] :
                           ~ \E w \in pool.updates[n] : vin[w] \cap vout[u] # {}} = {t}
    BY DEF LastNameOutputUnique
  <2>1. EntriesOK(pool.mapTx, {}, tip, Height + 1)
    BY SettledEntries
  <2> QED BY <2>1, <1>OneLastUpdate
<1> QED BY <1>1, FinitePool, ChainInv, MapsInv, PoolInvHolds, PTL

-----------------------------------------------------------------------------
(* Block templates.                                                        *)

(* What is known of the mempool between two steps of the chain.            *)
Settled ==
  /\ IInv /\ MapsOK(pool)
  /\ EntriesOK(pool.mapTx, {}, tip, Height + 1)
  /\ IsFiniteSet(pool.mapTx)

(* The database db is what connecting the transactions S to the tip gives, *)
(* as far as the checks of the next transaction can tell.                  *)
BuiltOK(S, db) ==
  /\ db \in DBType
  /\ DBOK(db, Connected(Len(chain)) \cup S, Height, Height + 1)
  /\ \A o \in OutPoint : (\A u \in S : o \notin vin[u]) =>
       /\ (\E u \in S : o \in vout[u]) => db.coins[o] # Spent
       /\ (\A u \in S : o \notin vout[u]) => db.coins[o] = tip.coins[o]
  /\ \A n \in Name : (\A u \in S : n \notin Registered(u) /\ n \notin Updated(u)) =>
       db.names.data[n] = tip.names.data[n]

ApplyTx(db, t) ==
  [coins |-> UpdateCoins(db.coins, t, Height + 1),
   names |-> ApplyNameTransaction(db.names, t, Height + 1)]

(* The transaction Built connects last, and what it connects before.       *)
LastTx(S) == CHOOSE u \in LastOf(S) : TRUE

Rest(S) == S \ {LastTx(S)}

BuiltFrom(f, S) == IF S = {} THEN tip ELSE ApplyTx(f[Rest(S)], LastTx(S))

(* TestBlockValidity in CreateNewBlock never fails because of names:       *)
(* whatever addChunks selects from the mempool with parents before         *)
(* children, ConnectBlock's name checks and assertions accept each         *)
(* transaction in turn and ExpireNames succeeds at the end, although the   *)
(* mempool checked each one alone, against the tip, and took               *)
(* registrations whose NAME_NEW was not mature.                            *)
THEOREM TemplatesAlwaysConnect ==
  AmountSettled /\ SpendsOlder /\ PoolSpec => []TemplateConnects
(* Numbers do not decrease for ever.                                       *)
<1>NoDescent.
  ASSUME NEW B, NEW nr, \A u \in B : nr[u] \in Nat, \A u \in B : \E v \in B : nr[v] < nr[u]
  PROVE  B = {}
<2> USE <1>NoDescent
<2> DEFINE H == {nr[u] : u \in B}
<2> SUFFICES ASSUME B # {} PROVE FALSE
  OBVIOUS
<2>1. H \in SUBSET Nat /\ H # {}
  OBVIOUS
<2>2. PICK k \in H : \A m \in H : k <= m
  <3> HIDE DEF H
  <3> QED BY <2>1, LeastNat
<2>3. PICK u \in B : k = nr[u]
  BY <2>2
<2>4. PICK v \in B : nr[v] < nr[u]
  OBVIOUS
<2>5. nr[u] <= nr[v] /\ nr[u] \in Nat /\ nr[v] \in Nat
  BY <2>2, <2>3
<2> QED BY <2>4, <2>5, SMT
(* No output of an entry is a coin of the chain: else its transaction      *)
(* would be in the chain, its inputs spent there, and so it would build on *)
(* another entry that is in the chain, and so on.                          *)
<1>OutputsNotInChain.
  ASSUME SpendsOlder, Settled, NEW t \in pool.mapTx, NEW o \in vout[t]
  PROVE  tip.coins[o] = Spent
<2> USE <1>OutputsNotInChain
<2> DEFINE C == Connected(Len(chain))
           B == pool.mapTx \cap C
<2>1. LedgerOK(tip.coins, C) /\ pool.mapTx \subseteq Tx
  BY DEF Settled, IInv, DBOK, EntriesOK
<2>2. C \subseteq Tx
  BY IInvFacts, SMT DEF Settled
<2>3. PICK nr \in [Tx -> Nat] : \A v, u \in Tx : vin[u] \cap vout[v] # {} => nr[v] < nr[u]
  BY DEF SpendsOlder
<2> HIDE DEF C
<2>4. ASSUME NEW u \in B PROVE \E v \in B : nr[v] < nr[u]
  <3>1. PICK i \in vin[u] : TRUE
    BY <2>1, CatalogueAssumption
  <3>2. tip.coins[i] = Spent /\ (i \in BaseCoins \/ \E v \in C : i \in vout[v])
    BY <2>1 DEF LedgerOK
  <3>3. PICK v \in pool.mapTx : i \in vout[v]
    BY <3>2 DEF Settled, EntriesOK, InputsThere
  <3>4. v \in Tx /\ i \notin BaseCoins
    BY <2>1, <3>3, BaseAssumption
  <3>5. v \in C
    BY <2>2, <3>2, <3>3, <3>4, CatalogueAssumption
  <3> QED BY <2>1, <2>3, <3>3, <3>4, <3>5
<2>5. B = {}
  <3>1. \A u \in B : nr[u] \in Nat
    BY <2>1
  <3> HIDE DEF B
  <3> QED BY <2>4, <3>1, <1>NoDescent
<2>6. t \in Tx /\ o \in OutPoint /\ o \notin BaseCoins
  BY <2>1, CatalogueAssumption, BaseAssumption
<2>7. ASSUME NEW u \in C, o \in vout[u] PROVE FALSE
  BY <2>2, <2>5, <2>6, <2>7, CatalogueAssumption
<2> QED BY <2>1, <2>6, <2>7 DEF LedgerOK
(* A transaction that registers a name comes before the other operations   *)
(* on it: if nothing in the template builds on it, they are not there.     *)
<1>RegisteredAlone.
  ASSUME SpendsOlder, Settled, NEW S \in Templates, NEW t \in LastOf(S), NEW n \in Registered(t),
         NEW u \in S \ {t}
  PROVE  n \notin Registered(u) /\ n \notin Updated(u)
<2> USE <1>RegisteredAlone
<2>1. /\ S \subseteq pool.mapTx /\ pool.mapTx \subseteq Tx /\ t \in S
      /\ \A w \in S : vin[w] \cap vout[t] = {}
  BY DEF Templates, LastOf, Children, Settled, EntriesOK
<2>2. n \in Name
  BY <2>1, KeysType
<2>3. \A w \in pool.mapTx : n \in Registered(w) => w = t
  BY <2>1, <2>2, SMT DEF Settled, MapsOK
<2> DEFINE U == {w \in S \ {t} : n \in Updated(w)}
<2>4. PICK nr \in [Tx -> Nat] : \A v, w \in Tx : vin[w] \cap vout[v] # {} => nr[v] < nr[w]
  BY DEF SpendsOlder
<2>5. ASSUME NEW w \in U PROVE \E v \in U : nr[v] < nr[w]
  <3>1. w \in pool.updates[n] /\ w \in Tx
    BY <2>1, <2>2, SMT DEF Settled, MapsOK
  <3>2. PICK in \in vin[w] : /\ NamePrev(n, in)
                             /\ in \in NameBelow(pool, tip, n) \/ \E v \in pool.updates[n] : in \in vout[v]
    BY <2>2, <3>1, UpdateSpends DEF Settled
  <3>3. in \notin vout[t]
    BY <2>1, <3>2
  <3>4. in \notin NameBelow(pool, tip, n)
    <4>1. PICK out \in vout[t] : nameOp[out].op = "FIRSTUPDATE" /\ nameOp[out].name = n
      BY DEF Registered, OpNames
    <4>2. out \in OutPoint /\ NamePrev(n, out)
      BY <2>1, <4>1, CatalogueAssumption DEF NamePrev, isAnyUpdate
    <4>3. out \in NameBelow(pool, tip, n)
      BY <2>1, <4>1, <4>2 DEF NameBelow
    <4>4. ASSUME in \in NameBelow(pool, tip, n) PROVE in = out
      BY <2>2, <3>2, <4>2, <4>3, <4>4, OneNameBelow DEF Settled
    <4> QED BY <3>3, <4>4
  <3>5. PICK v \in pool.updates[n] : in \in vout[v]
    BY <3>2, <3>4
  <3>6. v \in pool.mapTx /\ n \in Updated(v)
    BY <2>2, SMT DEF Settled, MapsOK
  <3>7. v \in S /\ v # t
    BY <3>2, <3>3, <3>5, <3>6 DEF Templates
  <3> QED BY <2>1, <2>4, <3>1, <3>2, <3>5, <3>6, <3>7
<2>6. U = {}
  <3>1. \A w \in U : nr[w] \in Nat
    BY <2>1
  <3> HIDE DEF U
  <3> QED BY <2>5, <3>1, <1>NoDescent
<2> QED BY <2>1, <2>3, <2>6
(* The next transaction of a template passes the checks of ConnectBlock:   *)
(* its inputs are there, the name it updates has its coin, the name it     *)
(* registers is free and the NAME_NEW is mature.                           *)
<1>TemplateTxPasses.
  ASSUME AmountSettled, SpendsOlder, Settled, NEW S \in Templates, NEW t \in LastOf(S),
         NEW db, BuiltOK(S \ {t}, db)
  PROVE  CheckNameTransaction(db, t, Height + 1, FALSE)
<2> USE <1>TemplateTxPasses
<2> DEFINE h == Height + 1
<2>1. /\ S \subseteq pool.mapTx /\ pool.mapTx \subseteq Tx /\ t \in S /\ t \in Tx
      /\ EntryOK(t) /\ NoConflicts(pool.mapTx) /\ IInv
      /\ \A n \in Registered(t) : Free(tip.names, n, h)
  BY DEF Templates, LastOf, Settled, EntriesOK, RegistrationsOK
<2>2. MinNameCoinAmount[h] = MinNameCoinAmount[BaseHeight + 1]
  <3>1. h \in BaseHeight + 1 .. MaxHeight + 1
    BY <2>1, IInvFacts, ParamsAssumption, SMT
  <3> HIDE DEF h
  <3> QED BY <3>1 DEF AmountSettled
<2>3. ASSUME NEW o \in vin[t]
      PROVE  /\ o \in OutPoint /\ \A u \in S \ {t} : o \notin vin[u]
             /\ tip.coins[o] # Spent \/ \E u \in S \ {t} : o \in vout[u]
  <3>1. o \in OutPoint /\ o \notin vout[t]
    BY <2>1, CatalogueAssumption
  <3>2. \A u \in S \ {t} : o \notin vin[u]
    BY <2>1 DEF NoConflicts
  <3>3. ASSUME tip.coins[o] = Spent PROVE \E u \in S \ {t} : o \in vout[u]
    <4>1. PICK u \in pool.mapTx : o \in vout[u]
      BY <2>1, <3>3 DEF Settled, EntriesOK, InputsThere
    <4>2. u \in S
      BY <2>1, <4>1 DEF Templates
    <4> QED BY <3>1, <4>1, <4>2
  <3> QED BY <3>1, <3>2, <3>3
<2>4. ASSUME NEW o \in vin[t] PROVE db.coins[o] # Spent
  BY <2>3 DEF BuiltOK
<2>5. AtMostOne(NameIns(t)) /\ AtMostOne(NameOuts(t))
  BY <2>1 DEF EntryOK
<2>6. CASE t \notin NamecoinTx
  BY <2>1, <2>4, <2>5, <2>6 DEF EntryOK, CheckNameTransaction
<2>7. CASE t \in NamecoinTx
  <3>1. PICK out \in NameOuts(t) :
          /\ nValue[out] >= MinNameCoinAmount[BaseHeight + 1]
          /\ out \notin Malformed
          /\ \/ nameOp[out].op = "NEW" /\ NameIns(t) = {}
             \/ /\ nameOp[out].op = "UPDATE"
                /\ \E in \in NameIns(t) : isAnyUpdate(in) /\ nameOp[in].name = nameOp[out].name
             \/ /\ nameOp[out].op = "FIRSTUPDATE"
                /\ \E in \in NameIns(t) :
                     /\ nameOp[in].op = "NEW" /\ nameOp[in].rand = nameOp[out].rand
                     /\ nameOp[in].name = nameOp[out].name
    BY <2>1, <2>7 DEF EntryOK
  <3>2. ASSUME nameOp[out].op = "UPDATE", NEW in \in NameIns(t), isAnyUpdate(in),
               nameOp[in].name = nameOp[out].name
        PROVE  UpdateAllowed(db, t, out, h)
    <4>1. in \in OutPoint /\ db.coins[in] # Spent
      BY <2>3, <2>4 DEF NameIns
    <4>2. CoinsMatchNames(db, Height) /\ db.coins[in] \in CoinHeight
      BY <4>1 DEF BuiltOK, DBOK, DBType, CoinsType
    <4>3. /\ db.names.data[nameOp[in].name] = [height |-> db.coins[in], out |-> in]
          /\ ~isExpired(db.names.data[nameOp[in].name].height, h)
      BY <3>2, <4>1, <4>2 DEF CoinsMatchNames
    <4>4. db.names.data[nameOp[in].name] # NoData
      BY <4>1, <4>2, <4>3, DataOfCoin
    <4> HIDE DEF h
    <4> QED BY <3>2, <4>3, <4>4 DEF UpdateAllowed, GetName
  <3>3. ASSUME nameOp[out].op = "FIRSTUPDATE", NEW in \in NameIns(t), nameOp[in].op = "NEW",
               nameOp[in].rand = nameOp[out].rand, nameOp[in].name = nameOp[out].name
        PROVE  FirstUpdateAllowed(db, t, out, h, FALSE)
    <4>1. nameOp[out].name \in Registered(t)
      BY <2>7, <3>3 DEF Registered, OpNames, NameOuts
    <4>2. nameOp[out].name \in Name /\ Free(tip.names, nameOp[out].name, h)
      BY <2>1, <4>1, KeysType
    <4>3. db.names.data[nameOp[out].name] = tip.names.data[nameOp[out].name]
      <5>1. \A u \in S \ {t} : nameOp[out].name \notin Registered(u) /\ nameOp[out].name \notin Updated(u)
        BY <4>1, <1>RegisteredAlone, SMT
      <5> QED BY <4>2, <5>1 DEF BuiltOK
    <4>4. tip.coins[in] # Spent /\ tip.coins[in] + MIN_FIRSTUPDATE_DEPTH <= h
      <5>1. TxAllowedForNamecoin(t)
        BY <2>1 DEF Templates
      <5>2. PICK o \in vin[t] : tip.coins[o] # Spent /\ nameOp[o].op = "NEW"
        BY <4>1, <5>1 DEF TxAllowedForNamecoin
      <5>3. o = in
        BY <2>5, <5>2 DEF NameIns, isNameOp, AtMostOne
      <5> QED BY <4>1, <5>1, <5>2, <5>3 DEF TxAllowedForNamecoin
    <4>5. db.coins[in] = tip.coins[in]
      <5>1. in \in vin[t]
        BY DEF NameIns
      <5>2. \A u \in S \ {t} : in \notin vout[u]
        BY <2>1, <4>4, <1>OutputsNotInChain
      <5> QED BY <2>3, <5>1, <5>2 DEF BuiltOK
    <4> HIDE DEF h
    <4> QED BY <3>3, <4>2, <4>3, <4>4, <4>5 DEF FirstUpdateAllowed, GetName, Free
  <3>4. \/ nameOp[out].op = "NEW" /\ NameIns(t) = {}
        \/ UpdateAllowed(db, t, out, h)
        \/ FirstUpdateAllowed(db, t, out, h, FALSE)
    BY <3>1, <3>2, <3>3
  <3>5. nValue[out] >= MinNameCoinAmount[h]
    BY <2>2, <3>1
  <3> HIDE DEF h
  <3>6. CheckNameTransaction(db, t, h, FALSE)
    BY <2>4, <2>5, <2>7, <3>1, <3>4, <3>5 DEF CheckNameTransaction
  <3> QED BY <3>6 DEF h
<2> QED BY <2>6, <2>7
(* Connecting the next transaction of a template succeeds, and what is     *)
(* known of the database stays true.                                       *)
<1>BuiltStep.
  ASSUME AmountSettled, SpendsOlder, Settled, Height < MaxHeight,
         NEW S \in Templates, NEW t \in LastOf(S), NEW db, BuiltOK(S \ {t}, db)
  PROVE  /\ CheckNameTransaction(db, t, Height + 1, FALSE)
         /\ CheckNameAsserts(db, t, FALSE) /\ ApplyNameAsserts(db.names, t)
         /\ BuiltOK(S, ApplyTx(db, t))
<2> USE <1>BuiltStep
<2> DEFINE C == Connected(Len(chain))
           R == S \ {t}
           h == Height
<2>1. S \subseteq Tx /\ t \in S /\ t \in Tx /\ C \subseteq Tx /\ h \in Nat
  BY IInvFacts, SMT DEF Templates, LastOf, Settled, EntriesOK
<2>2. CheckNameTransaction(db, t, h + 1, FALSE)
  BY <1>TemplateTxPasses
<2>3. db \in DBType /\ DBOK(db, C \cup R, h, h + 1)
  BY DEF BuiltOK
<2> HIDE DEF C
<2>4. /\ CheckNameAsserts(db, t, FALSE) /\ ApplyNameAsserts(db.names, t)
      /\ ApplyTx(db, t) \in DBType /\ DBOK(ApplyTx(db, t), (C \cup R) \cup {t}, h, h + 1)
  <3>1. C \cup R \in SUBSET Tx /\ h < MaxHeight
    BY <2>1
  <3> HIDE DEF R, h
  <3> QED BY <2>1, <2>2, <2>3, <3>1, ConnectTxOK DEF ApplyTx, h
<2>5. (C \cup R) \cup {t} = C \cup S
  BY <2>1
<2>6. ASSUME NEW o \in OutPoint, \A u \in S : o \notin vin[u]
      PROVE  /\ (\E u \in S : o \in vout[u]) => ApplyTx(db, t).coins[o] # Spent
             /\ (\A u \in S : o \notin vout[u]) => ApplyTx(db, t).coins[o] = tip.coins[o]
  <3>1. ApplyTx(db, t).coins[o] = IF o \in vout[t] THEN h + 1 ELSE db.coins[o]
    BY <2>1, <2>6 DEF ApplyTx, UpdateCoins
  <3>2. /\ (\E u \in R : o \in vout[u]) => db.coins[o] # Spent
        /\ (\A u \in R : o \notin vout[u]) => db.coins[o] = tip.coins[o]
    BY <2>6 DEF BuiltOK
  <3>3. h + 1 # Spent
    BY <2>1, SMT DEF Spent
  <3> HIDE DEF h
  <3> QED BY <2>1, <3>1, <3>2, <3>3
<2>7. ASSUME NEW n \in Name, \A u \in S : n \notin Registered(u) /\ n \notin Updated(u)
      PROVE  ApplyTx(db, t).names.data[n] = tip.names.data[n]
  <3>1. db.names.data[n] = tip.names.data[n]
    BY <2>7 DEF BuiltOK
  <3>2. ApplyTx(db, t).names.data[n] = db.names.data[n]
    <4>1. CASE UpdatedOuts(t) = {}
      BY <4>1 DEF ApplyTx, ApplyNameTransaction
    <4>2. CASE UpdatedOuts(t) # {}
      <5>1. UpdatedOut(t) \in UpdatedOuts(t)
        BY <4>2 DEF UpdatedOut
      <5>2. nameOp[UpdatedOut(t)].name \in Registered(t) \cup Updated(t)
        BY <5>1 DEF UpdatedOuts, isAnyUpdate, Registered, Updated, OpNames
      <5>3. nameOp[UpdatedOut(t)].name # n
        BY <2>1, <2>7, <5>2
      <5>4. db.names.data \in [Name -> NameData \cup {NoData}]
        BY <2>3 DEF DBType, NamesType
      <5> QED BY <4>2, <5>3, <5>4 DEF ApplyTx, ApplyNameTransaction, SetName
    <4> QED BY <4>1, <4>2
  <3> QED BY <3>1, <3>2
<2>8. BuiltOK(S, ApplyTx(db, t))
  <3>1. DBOK(ApplyTx(db, t), C \cup S, h, h + 1)
    BY <2>4, <2>5
  <3> QED BY <2>4, <2>6, <2>7, <3>1 DEF BuiltOK, C
<2> QED BY <2>2, <2>4, <2>8
(* In any set of entries one has no child in the set.                      *)
<1>HasLast.
  ASSUME SpendsOlder, Settled, NEW S \in SUBSET pool.mapTx, S # {}
  PROVE  LastOf(S) # {}
<2> USE <1>HasLast
<2>1. S \subseteq Tx /\ IsFiniteSet(S)
  BY FS_Subset DEF Settled, EntriesOK
<2>2. PICK nr \in [Tx -> Nat] : \A v, u \in Tx : vin[u] \cap vout[v] # {} => nr[v] < nr[u]
  BY DEF SpendsOlder
<2>3. \A u \in S : nr[u] \in Nat
  BY <2>1
<2>4. PICK t \in S : \A u \in S : nr[u] <= nr[t]
  BY <2>1, <2>3, FiniteGreatest
<2>5. ASSUME NEW u \in S, vin[u] \cap vout[t] # {} PROVE FALSE
  <3>1. nr[t] < nr[u] /\ nr[u] <= nr[t] /\ nr[t] \in Nat /\ nr[u] \in Nat
    BY <2>1, <2>2, <2>3, <2>4, <2>5
  <3> QED BY <3>1, SMT
<2>6. t \in LastOf(S)
  BY <2>5 DEF LastOf, Children
<2> QED BY <2>6
(* Without it, a template is a smaller template.                           *)
<1>SmallerTemplate.
  ASSUME NEW S \in Templates, NEW t \in LastOf(S)
  PROVE  S \ {t} \in Templates
BY <1>SmallerTemplate DEF Templates, LastOf, Children
(* There is such a transaction, so less is connected before it.            *)
<1>RestSmaller.
  ASSUME SpendsOlder, Settled, NEW S \in SUBSET pool.mapTx
  PROVE  /\ Cardinality(S) \in Nat
         /\ S # {} => /\ LastTx(S) \in LastOf(S) /\ Rest(S) \in SUBSET pool.mapTx
                      /\ Cardinality(Rest(S)) \in Nat /\ Cardinality(Rest(S)) < Cardinality(S)
<2> USE <1>RestSmaller
<2>1. IsFiniteSet(S)
  BY FS_Subset DEF Settled
<2>2. Cardinality(S) \in Nat
  BY <2>1, FS_CardinalityType
<2>3. ASSUME S # {}
      PROVE  /\ LastTx(S) \in LastOf(S) /\ Rest(S) \in SUBSET pool.mapTx
             /\ Cardinality(Rest(S)) \in Nat /\ Cardinality(Rest(S)) < Cardinality(S)
  <3>1. LastTx(S) \in LastOf(S) /\ LastTx(S) \in S
    BY <2>3, <1>HasLast DEF LastTx, LastOf
  <3>2. IsFiniteSet(Rest(S)) /\ Cardinality(Rest(S)) = Cardinality(S) - 1
    BY <2>1, <3>1, FS_RemoveElement DEF Rest
  <3>3. Cardinality(Rest(S)) \in Nat
    BY <3>2, FS_CardinalityType
  <3>4. Rest(S) \in SUBSET pool.mapTx
    BY DEF Rest
  <3> QED BY <2>2, <3>1, <3>2, <3>3, <3>4, SMT
<2> QED BY <2>2, <2>3
(* Built is well defined: each set is built from a smaller one.            *)
<1>BuiltDefined.
  ASSUME SpendsOlder, Settled
  PROVE  \A S \in SUBSET pool.mapTx : Built[S] = BuiltFrom(Built, S)
<2> USE <1>BuiltDefined
<2> DEFINE M == SUBSET pool.mapTx
           N == Cardinality(pool.mapTx)
           size(S) == Cardinality(S)
           G == {k \in Nat : \E f : \A S \in M : size(S) <= k => f[S] = BuiltFrom(f, S)}
<2>1. N \in Nat /\ \A S \in M : size(S) <= N /\ size(S) \in Nat
  <3>1. IsFiniteSet(pool.mapTx)
    BY DEF Settled
  <3> QED BY <3>1, FS_CardinalityType, FS_Subset, <1>RestSmaller
<2>2. ASSUME NEW S \in M, S # {}
      PROVE  Rest(S) \in M /\ size(Rest(S)) \in Nat /\ size(Rest(S)) < size(S)
  BY <2>2, <1>RestSmaller
<2>3. ASSUME NEW S \in M, size(S) <= 0 PROVE S = {}
  BY <2>1, <2>2, <2>3, SMT
<2> HIDE DEF M, N, size
<2>4. 0 \in G
  <3> DEFINE f == [S \in M |-> tip]
  <3>1. ASSUME NEW S \in M, size(S) <= 0 PROVE f[S] = BuiltFrom(f, S)
    BY <2>3, <3>1 DEF BuiltFrom
  <3> HIDE DEF f
  <3> QED BY <3>1
<2>5. ASSUME NEW k \in 0 .. N, k < N, k \in G PROVE k + 1 \in G
  <3>1. PICK f : \A S \in M : size(S) <= k => f[S] = BuiltFrom(f, S)
    BY <2>5
  <3> DEFINE g == [S \in M |-> BuiltFrom(f, S)]
  <3>2. ASSUME NEW S \in M, size(S) <= k + 1 PROVE g[S] = BuiltFrom(g, S)
    <4>1. CASE S = {}
      BY <4>1 DEF BuiltFrom
    <4>2. CASE S # {}
      <5>1. Rest(S) \in M /\ size(Rest(S)) <= k
        BY <2>1, <2>2, <2>5, <3>2, <4>2, SMT
      <5>2. g[Rest(S)] = f[Rest(S)]
        <6> HIDE DEF M
        <6> QED BY <3>1, <5>1
      <5>3. g[S] = BuiltFrom(f, S)
        OBVIOUS
      <5> HIDE DEF g
      <5> QED BY <4>2, <5>2, <5>3 DEF BuiltFrom
    <4> QED BY <4>1, <4>2
  <3>3. k + 1 \in Nat
    BY <2>1, <2>5, SMT
  <3> HIDE DEF g
  <3> QED BY <3>2, <3>3
<2>6. N \in G
  <3>1. \A k \in 0 .. N : k < N /\ k \in G => k + 1 \in G
    BY <2>5
  <3> HIDE DEF G
  <3>2. 0 .. N \subseteq G
    BY <2>1, <2>4, <3>1, UpTo
  <3> QED BY <2>1, <3>2, SMT
<2>7. PICK f : \A S \in M : f[S] = BuiltFrom(f, S)
  <3>1. PICK f : \A S \in M : size(S) <= N => f[S] = BuiltFrom(f, S)
    BY <2>6
  <3> QED BY <2>1, <3>1
<2> DEFINE g == [S \in M |-> f[S]]
<2>8. g = [S \in M |-> BuiltFrom(g, S)]
  <3>1. ASSUME NEW S \in M PROVE BuiltFrom(g, S) = f[S]
    <4>1. CASE S = {}
      BY <2>7, <4>1 DEF BuiltFrom
    <4>2. CASE S # {}
      <5>1. g[Rest(S)] = f[Rest(S)]
        BY <2>2, <4>2
      <5> HIDE DEF g
      <5> QED BY <2>7, <4>2, <5>1 DEF BuiltFrom
    <4> QED BY <4>1, <4>2
  <3>2. [S \in M |-> BuiltFrom(g, S)] = [S \in M |-> f[S]]
    <4> HIDE DEF g
    <4> QED BY <3>1
  <3> QED BY <3>2
<2> DEFINE built == CHOOSE h : h = [S \in M |-> BuiltFrom(h, S)]
<2>9. built = [S \in M |-> BuiltFrom(built, S)]
  <3> HIDE DEF g
  <3> QED BY <2>8
<2>10. Built = built
  BY DEF Built, BuiltFrom, LastTx, Rest, ApplyTx, M
<2> HIDE DEF built
<2>11. \A S \in M : built[S] = BuiltFrom(built, S)
  BY <2>9
<2> QED BY <2>10, <2>11 DEF M
(* The database that Built gives for a template is as connecting it        *)
(* transaction by transaction should leave it, by induction over its size. *)
<1>BuiltTemplates.
  ASSUME AmountSettled, SpendsOlder, Settled, Height < MaxHeight
  PROVE  \A S \in Templates : BuiltOK(S, Built[S])
<2> USE <1>BuiltTemplates
<2> DEFINE N == Cardinality(pool.mapTx)
           G == {k \in Nat : \A S \in Templates : Cardinality(S) <= k => BuiltOK(S, Built[S])}
<2>1. N \in Nat /\ \A S \in Templates : Cardinality(S) <= N /\ Cardinality(S) \in Nat
  <3>1. IsFiniteSet(pool.mapTx)
    BY DEF Settled
  <3>2. Templates \subseteq SUBSET pool.mapTx
    BY DEF Templates
  <3> QED BY <3>1, <3>2, FS_CardinalityType, FS_Subset, <1>RestSmaller
<2>2. BuiltOK({}, tip)
  <3>1. tip \in DBType /\ DBOK(tip, Connected(Len(chain)), Height, Height) /\ Height \in Nat
    BY IInvFacts DEF Settled, IInv, TypeOK
  <3>2. DBOK(tip, Connected(Len(chain)), Height, Height + 1)
    BY <3>1, NewestMayGrow
  <3>3. Connected(Len(chain)) \cup {} = Connected(Len(chain))
    OBVIOUS
  <3> QED BY <3>1, <3>2, <3>3 DEF BuiltOK
<2>3. ASSUME NEW S \in Templates
      PROVE  /\ S = {} => Built[S] = tip
             /\ S # {} => /\ Built[S] = ApplyTx(Built[Rest(S)], LastTx(S))
                          /\ LastTx(S) \in LastOf(S) /\ Rest(S) \in Templates
                          /\ Cardinality(Rest(S)) \in Nat /\ Cardinality(Rest(S)) < Cardinality(S)
  <3>1. S \in SUBSET pool.mapTx
    BY DEF Templates
  <3>2. Built[S] = BuiltFrom(Built, S)
    BY <3>1, <1>BuiltDefined
  <3>3. S # {} => /\ LastTx(S) \in LastOf(S)
                  /\ Cardinality(Rest(S)) \in Nat /\ Cardinality(Rest(S)) < Cardinality(S)
    BY <3>1, <1>RestSmaller
  <3>4. S # {} => Rest(S) \in Templates
    BY <3>3, <1>SmallerTemplate DEF Rest
  <3> QED BY <3>2, <3>3, <3>4 DEF BuiltFrom
<2> HIDE DEF N
<2>4. 0 \in G
  <3>1. ASSUME NEW S \in Templates, Cardinality(S) <= 0 PROVE BuiltOK(S, Built[S])
    <4>1. S = {}
      BY <2>1, <2>3, <3>1, SMT
    <4> QED BY <2>2, <2>3, <4>1
  <3> QED BY <3>1
<2>5. ASSUME NEW k \in 0 .. N, k < N, k \in G PROVE k + 1 \in G
  <3>1. ASSUME NEW S \in Templates, Cardinality(S) <= k + 1 PROVE BuiltOK(S, Built[S])
    <4>1. CASE S = {}
      BY <2>2, <2>3, <4>1
    <4>2. CASE S # {}
      <5>1. Rest(S) \in Templates /\ Cardinality(Rest(S)) <= k /\ LastTx(S) \in LastOf(S)
        BY <2>1, <2>3, <2>5, <3>1, <4>2, SMT
      <5>2. BuiltOK(Rest(S), Built[Rest(S)])
        BY <2>5, <5>1
      <5>3. BuiltOK(S, ApplyTx(Built[Rest(S)], LastTx(S)))
        BY <5>1, <5>2, <1>BuiltStep DEF Rest
      <5> QED BY <2>3, <4>2, <5>3
    <4> QED BY <4>1, <4>2
  <3>2. k + 1 \in Nat
    BY <2>1, <2>5, SMT
  <3> QED BY <3>1, <3>2
<2>6. \A k \in 0 .. N : k < N /\ k \in G => k + 1 \in G
  BY <2>5
<2> HIDE DEF G
<2>7. 0 .. N \subseteq G
  BY <2>1, <2>4, <2>6, UpTo
<2>8. N \in G
  BY <2>1, <2>7, SMT
<2> QED BY <2>1, <2>8 DEF G
<1> SUFFICES ASSUME AmountSettled, SpendsOlder PROVE PoolSpec => []TemplateConnects
  OBVIOUS
<1>1. IInv /\ MapsOK(pool) /\ PoolInv /\ IsFiniteSet(pool.mapTx) => TemplateConnects
  <2> SUFFICES ASSUME IInv, MapsOK(pool), PoolInv, IsFiniteSet(pool.mapTx), step = "none",
                      Height < MaxHeight, NEW S \in Templates
               PROVE  /\ \A t \in LastOf(S) :
                           LET db == Built[S \ {t}]
                           IN /\ CheckNameTransaction(db, t, Height + 1, FALSE)
                              /\ CheckNameAsserts(db, t, FALSE)
                              /\ ApplyNameAsserts(db.names, t)
                      /\ ExpireChecks(Built[S], Height + 2)
    BY DEF TemplateConnects
  <2>1. Settled
    BY SettledEntries DEF Settled
  <2>2. \A R \in Templates : BuiltOK(R, Built[R])
    BY <2>1, <1>BuiltTemplates
  <2>3. ASSUME NEW t \in LastOf(S)
        PROVE  /\ CheckNameTransaction(Built[S \ {t}], t, Height + 1, FALSE)
               /\ CheckNameAsserts(Built[S \ {t}], t, FALSE)
               /\ ApplyNameAsserts(Built[S \ {t}].names, t)
    <3>1. BuiltOK(S \ {t}, Built[S \ {t}])
      BY <2>2, <1>SmallerTemplate
    <3> QED BY <2>1, <3>1, <1>BuiltStep
  <2>4. ExpireChecks(Built[S], Height + 2)
    <3>1. /\ Built[S] \in DBType
          /\ DBOK(Built[S], Connected(Len(chain)) \cup S, Height, Height + 1)
      BY <2>2 DEF BuiltOK
    <3>2. Connected(Len(chain)) \cup S \in SUBSET Tx /\ Height \in Nat
      BY <2>1, IInvFacts, SMT DEF Templates, Settled, EntriesOK
    <3> QED BY <3>1, <3>2, ExpireNamesOK
  <2> QED BY <2>3, <2>4
<1> QED BY <1>1, FinitePool, ChainInv, MapsInv, PoolInvHolds, PTL
=============================================================================
