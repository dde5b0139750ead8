------------------------- MODULE NameMempool_proofs -------------------------
(* The mempool over the chain, for any catalogue of transactions and any   *)
(* order of txids.  The chain below the mempool is that of NameChain, so   *)
(* its theorems carry over; the maps of CNameMemPool describe the mempool; *)
(* one assertion only can fail; and where the amount a name locks does not *)
(* change any more, the entries are valid on top of the tip.               *)
EXTENDS NameMempool, NameChain_proofs, WellFoundedInduction

(* Most leaves are first-order, so Zenon is the default prover; a leaf that  *)
(* needs arithmetic, records or function application says SMT.              *)
USE Zenon

-----------------------------------------------------------------------------
(* The chain.                                                              *)

(* A step of ActivateBestChainStep is a step of the chain or leaves it     *)
(* alone.                                                                  *)
LEMMA PoolStepIsChainStep == [PoolNext]_allVars => [Next]_vars
<1> SUFFICES ASSUME [PoolNext]_allVars PROVE [Next]_vars
  OBVIOUS
<1>1. CASE UNCHANGED allVars
  BY <1>1 DEF allVars
<1>2. CASE \E t \in Tx : AcceptToMemoryPool(t)
  BY <1>2 DEF AcceptToMemoryPool
<1>3. CASE StepDisconnectBegin
  BY <1>3 DEF StepDisconnectBegin, Next
<1>4. CASE StepDisconnectEnd
  BY <1>4 DEF StepDisconnectEnd, Next
<1>5. CASE StepConnectBegin
  BY <1>5 DEF StepConnectBegin, Next
<1>6. CASE StepConnectEnd
  BY <1>6 DEF StepConnectEnd, Next
<1>7. CASE StepConnectInvalid
  BY <1>7 DEF StepConnectInvalid, Next
<1>8. CASE StepInside
  BY <1>8 DEF StepInside, Next
<1>9. CASE Resurrect \/ StepEnd
  BY <1>9 DEF Resurrect, StepEnd
<1> QED BY <1>1, <1>2, <1>3, <1>4, <1>5, <1>6, <1>7, <1>8, <1>9 DEF PoolNext

(* The mempool adds nothing to and takes nothing from what ConnectTip and  *)
(* DisconnectTip do to the chain.                                          *)
THEOREM MempoolImplementsChain == PoolSpec => Spec
<1>1. PoolInit => Init
  BY DEF PoolInit
<1> QED BY <1>1, PoolStepIsChainStep, PTL DEF PoolSpec, Spec

(* The invariant of the chain holds below the mempool.                     *)
LEMMA ChainInv == PoolSpec => []IInv
BY MempoolImplementsChain, InvariantHolds, PTL

(* What is proved of the chain holds with a mempool on top of it, whatever *)
(* the mempool does: no CheckNameDB fails and no undo step fails.          *)
THEOREM ChainSafeUnderMempool == PoolSpec => [](NameDBConsistent /\ NoFailure)
BY MempoolImplementsChain, NameDBAlwaysConsistent, NeverFails, PTL

-----------------------------------------------------------------------------
(* The queue of disconnected transactions.                                 *)

(* A set of numbers has a least one.                                       *)
LEMMA LeastNat ==
  ASSUME NEW H \in SUBSET Nat, H # {}
  PROVE  \E n \in H : \A m \in H : n <= m
<1>1. \E n \in H : \A m \in H : ~(<<m, n>> \in OpToRel(<, Nat))
  BY NatLessThanWellFounded, WFMin
<1>2. ASSUME NEW m \in Nat, NEW n \in Nat, m < n PROVE <<m, n>> \in OpToRel(<, Nat)
  BY <1>2 DEF OpToRel
<1>3. \E n \in H : \A m \in H : ~(m < n)
  BY <1>1, <1>2
<1> QED BY <1>3, SMT

(* Induction up to a bound, for a set of numbers.                          *)
LEMMA UpTo ==
  ASSUME NEW N \in Nat, NEW G, 0 \in G, \A n \in 0 .. N : n < N /\ n \in G => n + 1 \in G
  PROVE  0 .. N \subseteq G
<1> DEFINE H == {n \in 0 .. N : n \notin G}
<1> SUFFICES ASSUME H # {} PROVE FALSE
  OBVIOUS
<1>1. PICK n \in H : \A m \in H : n <= m
  <2>1. H \in SUBSET Nat
    BY SMT
  <2> HIDE DEF H
  <2> QED BY <2>1, LeastNat
<1>2. n # 0 /\ n - 1 \in 0 .. N /\ n - 1 < N /\ n - 1 + 1 = n
  BY <1>1, SMT
<1>3. n - 1 \in G
  BY <1>1, <1>2, SMT
<1> QED BY <1>1, <1>2, <1>3

(* The elements of a sequence.                                             *)
LEMMA RangeOf ==
  ASSUME NEW S, NEW s \in Seq(S)
  PROVE  /\ Range(s) = {s[i] : i \in 1 .. Len(s)} /\ Range(s) \subseteq S
         /\ Len(s) \in Nat
BY SMT DEF Range

(* removeForBlock of the queue keeps what the block does not have.         *)
LEMMA UnminedFacts ==
  ASSUME NEW S, NEW s \in Seq(S), NEW X
  PROVE  Unmined(s, X) \in Seq(S) /\ Range(s) \ X \subseteq Range(Unmined(s, X))
<1> DEFINE N == Len(s)
           Step(f, n) == IF n = 0 THEN <<>>
                         ELSE IF s[n] \in X THEN f[n - 1] ELSE Append(f[n - 1], s[n])
           Has(q, n) == \A i \in 1 .. n : s[i] \notin X => s[i] \in Range(q)
           G == {n \in Nat : \E f \in [0 .. n -> Seq(S)] : \A i \in 0 .. n : f[i] = Step(f, i)}
<1>0. N \in Nat /\ \A i \in 1 .. N : s[i] \in S
  BY SMT
<1>1. 0 \in G
  <2>1. [i \in 0 .. 0 |-> <<>>] \in [0 .. 0 -> Seq(S)] /\ \A i \in 0 .. 0 : i = 0
    BY SMT
  <2> QED BY <2>1
<1>2. ASSUME NEW n \in 0 .. N, n < N, n \in G PROVE n + 1 \in G
  <2>1. PICK f \in [0 .. n -> Seq(S)] : \A i \in 0 .. n : f[i] = Step(f, i)
    BY <1>2
  <2> DEFINE g == [i \in 0 .. n + 1 |-> IF i <= n THEN f[i] ELSE Step(f, n + 1)]
  <2>2. Step(f, n + 1) \in Seq(S)
    <3>1. f[n] \in Seq(S) /\ s[n + 1] \in S /\ n + 1 - 1 = n /\ n + 1 # 0
      BY <1>0, <1>2, <2>1, SMT
    <3> QED BY <3>1, SMT
  <2> HIDE DEF N
  <2>3. g \in [0 .. n + 1 -> Seq(S)]
    <3> HIDE DEF Step
    <3> QED BY <1>0, <1>2, <2>1, <2>2, SMT
  <2>4. ASSUME NEW i \in 0 .. n + 1 PROVE g[i] = Step(g, i)
    <3>1. i # 0 => g[i - 1] = f[i - 1]
      <4> HIDE DEF Step
      <4> QED BY <1>0, <1>2, SMT
    <3>2. Step(g, i) = Step(f, i)
      <4> HIDE DEF g
      <4> QED BY <3>1
    <3>3. CASE i <= n
      <4>1. i \in 0 .. n /\ g[i] = f[i]
        <5> HIDE DEF Step
        <5> QED BY <1>0, <1>2, <3>3, SMT
      <4> QED BY <2>1, <3>2, <4>1
    <3>4. CASE ~(i <= n)
      <4>1. i = n + 1
        BY <1>0, <1>2, <3>4, SMT
      <4>2. g[i] = Step(f, n + 1)
        <5> HIDE DEF Step
        <5> QED BY <1>0, <1>2, <3>4
      <4> QED BY <3>2, <4>1, <4>2, SMT
    <3> QED BY <3>3, <3>4
  <2>5. \E h \in [0 .. n + 1 -> Seq(S)] : \A i \in 0 .. n + 1 : h[i] = Step(h, i)
    <3> HIDE DEF g
    <3> QED BY <2>3, <2>4
  <2>6. n + 1 \in Nat
    BY <1>0, <1>2, SMT
  <2> HIDE DEF Step
  <2> QED BY <2>5, <2>6
<1>3. N \in G
  <2> HIDE DEF N, G
  <2>1. 0 .. N \subseteq G
    BY <1>0, <1>1, <1>2, UpTo
  <2> QED BY <1>0, <2>1, SMT
<1>4. PICK f \in [0 .. N -> Seq(S)] : \A i \in 0 .. N : f[i] = Step(f, i)
  BY <1>3
<1>5. f = [i \in 0 .. N |-> Step(f, i)]
  <2> HIDE DEF Step, N
  <2> QED BY <1>4
<1> DEFINE left == CHOOSE h : h = [i \in 0 .. N |-> Step(h, i)]
<1>6. left = [i \in 0 .. N |-> Step(left, i)]
  BY <1>5
<1>7. Unmined(s, X) = left[N]
  BY DEF Unmined
<1> HIDE DEF N, left
<1>8. ASSUME NEW n \in 0 .. N PROVE left[n] = Step(left, n)
  <2> HIDE DEF Step
  <2> QED BY <1>6, <1>8
<1> DEFINE GF == {n \in Nat : n > N \/ (left[n] \in Seq(S) /\ Has(left[n], n))}
<1>9. 0 .. N \subseteq GF
  <2>1. 0 \in GF
    <3>1. left[0] = <<>>
      BY <1>0, <1>8, SMT
    <3>2. left[0] \in Seq(S) /\ Has(left[0], 0)
      BY <3>1, SMT
    <3> QED BY <3>2
  <2>2. ASSUME NEW n \in 0 .. N, n < N, n \in GF PROVE n + 1 \in GF
    <3>1. n + 1 \in 0 .. N /\ n + 1 - 1 = n /\ n + 1 # 0 /\ s[n + 1] \in S /\ n + 1 \in Nat
      BY <1>0, <2>2, SMT
    <3>2. left[n] \in Seq(S) /\ Has(left[n], n)
      BY <1>0, <2>2, SMT
    <3>3. left[n + 1] = IF s[n + 1] \in X THEN left[n] ELSE Append(left[n], s[n + 1])
      BY <1>8, <3>1, SMT
    <3>4. left[n + 1] \in Seq(S)
      BY <3>1, <3>2, <3>3, SMT
    <3>5. Has(left[n + 1], n + 1)
      <4>1. CASE s[n + 1] \in X
        BY <2>2, <3>2, <3>3, <4>1, SMT
      <4>2. CASE s[n + 1] \notin X
        <5>1. /\ Range(left[n]) = {left[n][i] : i \in 1 .. Len(left[n])}
              /\ Range(left[n + 1]) = {left[n + 1][i] : i \in 1 .. Len(left[n + 1])}
          <6> HIDE DEF Has
          <6>1. left[n] \in Seq(S)
            BY <3>2
          <6> QED BY <3>4, <6>1, RangeOf
        <5>2. /\ Len(left[n]) \in Nat /\ Len(left[n + 1]) = Len(left[n]) + 1
              /\ left[n + 1][Len(left[n]) + 1] = s[n + 1]
              /\ \A k \in 1 .. Len(left[n]) : left[n + 1][k] = left[n][k]
          BY <3>1, <3>2, <3>3, <4>2, AppendFacts, SMT
        <5>3. /\ Len(left[n]) + 1 \in 1 .. Len(left[n + 1])
              /\ \A k \in 1 .. Len(left[n]) : k \in 1 .. Len(left[n + 1])
          BY <5>2, SMT
        <5>4. s[n + 1] \in Range(left[n + 1]) /\ Range(left[n]) \subseteq Range(left[n + 1])
          <6>1. s[n + 1] \in Range(left[n + 1])
            BY <5>1, <5>2, <5>3
          <6>2. ASSUME NEW x \in Range(left[n]) PROVE x \in Range(left[n + 1])
            <7>1. PICK k \in 1 .. Len(left[n]) : x = left[n][k]
              BY <5>1
            <7> QED BY <5>1, <5>2, <5>3, <7>1
          <6> QED BY <6>1, <6>2
        <5>5. \A i \in 1 .. n + 1 : i \in 1 .. n \/ i = n + 1
          BY <2>2, SMT
        <5> QED BY <3>2, <5>4, <5>5
      <4> QED BY <4>1, <4>2
    <3> HIDE DEF Has
    <3> QED BY <3>1, <3>4, <3>5
  <2> HIDE DEF GF
  <2> QED BY <1>0, <2>1, <2>2, UpTo
<1>10. left[N] \in Seq(S) /\ Has(left[N], N)
  <2> HIDE DEF Has
  <2>1. N \in GF
    BY <1>0, <1>9, SMT
  <2> QED BY <1>0, <2>1, SMT
<1>11. Range(s) = {s[i] : i \in 1 .. N}
  BY RangeOf DEF N
<1> QED BY <1>7, <1>10, <1>11

(* The elements of one sequence after another.                             *)
LEMMA ConcatRange ==
  ASSUME NEW S, NEW s \in Seq(S), NEW r \in Seq(S)
  PROVE  s \o r \in Seq(S) /\ Range(s \o r) = Range(s) \cup Range(r)
<1> DEFINE q == s \o r
<1>1. /\ q \in Seq(S) /\ Len(s) \in Nat /\ Len(r) \in Nat /\ Len(q) = Len(s) + Len(r)
      /\ \A i \in 1 .. Len(s) : q[i] = s[i]
      /\ \A i \in 1 .. Len(r) : q[Len(s) + i] = r[i]
  <2>1. \A i \in 1 .. Len(r) : Len(s) + i - Len(s) = i
    BY SMT
  <2> QED BY <2>1, SMT
<1> HIDE DEF q
<1>2. /\ Range(q) = {q[i] : i \in 1 .. Len(q)} /\ Range(s) = {s[i] : i \in 1 .. Len(s)}
      /\ Range(r) = {r[i] : i \in 1 .. Len(r)}
  BY <1>1, RangeOf
<1>3. ASSUME NEW i \in 1 .. Len(q) PROVE q[i] \in Range(s) \cup Range(r)
  <2>1. CASE i <= Len(s)
    BY <1>1, <1>2, <2>1, SMT
  <2>2. CASE ~(i <= Len(s))
    <3>1. i - Len(s) \in 1 .. Len(r) /\ Len(s) + (i - Len(s)) = i
      BY <1>1, <2>2, SMT
    <3>2. q[i] = r[i - Len(s)]
      BY <1>1, <3>1
    <3> QED BY <1>2, <3>1, <3>2
  <2> QED BY <2>1, <2>2
<1>4. ASSUME NEW i \in 1 .. Len(s) PROVE s[i] \in Range(q)
  <2>1. i \in 1 .. Len(q)
    BY <1>1, SMT
  <2> QED BY <1>1, <1>2, <2>1
<1>5. ASSUME NEW i \in 1 .. Len(r) PROVE r[i] \in Range(q)
  <2>1. Len(s) + i \in 1 .. Len(q)
    BY <1>1, SMT
  <2> QED BY <1>1, <1>2, <2>1
<1>6. Range(q) = Range(s) \cup Range(r)
  BY <1>2, <1>3, <1>4, <1>5
<1> QED BY <1>1, <1>6 DEF q

(* AddTransactionsFromBlock queues the transactions of the block, and none *)
(* twice if the queue and the block have none twice or in common.          *)
LEMMA AddedQueue ==
  ASSUME NEW S, NEW s \in Seq(S), NEW v \in Seq(S)
  PROVE  LET q == AddTransactionsFromBlock(s, v)
         IN /\ q \in Seq(S) /\ Range(q) = Range(s) \cup {v[i] : i \in 1 .. Len(v)}
            /\ (/\ IsInjective(s) /\ \A i, j \in 1 .. Len(v) : v[i] = v[j] => i = j
                /\ \A i \in 1 .. Len(v) : v[i] \notin Range(s)) => IsInjective(q)
<1> DEFINE N == Len(v)
           r == [i \in 1 .. N |-> v[N - i + 1]]
           q == s \o r
<1>1. /\ r \in Seq(S) /\ N \in Nat /\ Len(r) = N
      /\ \A i \in 1 .. N : v[i] \in S /\ N - i + 1 \in 1 .. N /\ N - (N - i + 1) + 1 = i
  BY SMT
<1>2. \A i \in 1 .. N : r[i] = v[N - i + 1] /\ r[N - i + 1] = v[i]
  BY <1>1
<1>3. q = AddTransactionsFromBlock(s, v)
  BY DEF AddTransactionsFromBlock
<1>4. /\ q \in Seq(S) /\ Len(s) \in Nat /\ Len(q) = Len(s) + N
      /\ \A i \in 1 .. Len(s) : q[i] = s[i]
      /\ \A i \in 1 .. Len(q) : i > Len(s) => q[i] = r[i - Len(s)] /\ i - Len(s) \in 1 .. N
  BY <1>1, SMT
<1> HIDE DEF r
<1>5. Range(q) = Range(s) \cup Range(r)
  BY <1>1, ConcatRange, SMT
<1>6. Range(r) = {r[i] : i \in 1 .. N} /\ Range(s) = {s[i] : i \in 1 .. Len(s)}
  BY <1>1, RangeOf
<1>7. Range(r) = {v[i] : i \in 1 .. N}
  <2>1. ASSUME NEW i \in 1 .. N PROVE r[i] \in {v[j] : j \in 1 .. N} /\ v[i] \in Range(r)
    BY <1>1, <1>2, <1>6
  <2> HIDE DEF N
  <2> QED BY <1>6, <2>1
<1> HIDE DEF q, N
<1>8. ASSUME IsInjective(s), \A i, j \in 1 .. N : v[i] = v[j] => i = j,
             \A i \in 1 .. N : v[i] \notin Range(s),
             NEW i \in 1 .. Len(q), NEW j \in 1 .. Len(q), q[i] = q[j]
      PROVE  i = j
  <2>1. ASSUME NEW k \in 1 .. Len(q), k > Len(s)
        PROVE  q[k] = v[N - (k - Len(s)) + 1] /\ N - (k - Len(s)) + 1 \in 1 .. N
    BY <1>1, <1>2, <1>4, <2>1, SMT
  <2>2. ASSUME NEW k \in 1 .. Len(q), ~(k > Len(s)) PROVE k \in 1 .. Len(s) /\ q[k] = s[k] /\ q[k] \in Range(s)
    BY <1>4, <1>6, <2>2, SMT
  <2>3. CASE ~(i > Len(s)) /\ ~(j > Len(s))
    <3>1. i \in DOMAIN s /\ j \in DOMAIN s /\ s[i] = s[j]
      BY <1>8, <2>2, <2>3, SMT
    <3> QED BY <1>8, <3>1 DEF IsInjective
  <2>4. CASE i > Len(s) /\ j > Len(s)
    <3>1. N - (i - Len(s)) + 1 = N - (j - Len(s)) + 1
      BY <1>8, <2>1, <2>4
    <3> QED BY <1>1, <1>4, <3>1, SMT
  <2>5. CASE (i > Len(s)) # (j > Len(s))
    BY <1>8, <2>1, <2>2, <2>5, SMT
  <2> QED BY <2>3, <2>4, <2>5
<1>9. DOMAIN q = 1 .. Len(q)
  BY <1>4, SMT
<1>10. (/\ IsInjective(s) /\ \A i, j \in 1 .. N : v[i] = v[j] => i = j
        /\ \A i \in 1 .. N : v[i] \notin Range(s)) => IsInjective(q)
  BY <1>8, <1>9 DEF IsInjective
<1> QED BY <1>3, <1>4, <1>5, <1>7, <1>10 DEF N

(* What is left of a sequence when its front is taken away.                *)
LEMMA SplitRange ==
  ASSUME NEW S, NEW q \in Seq(S), NEW k \in 0 .. Len(q)
  PROVE  /\ SubSeq(q, k + 1, Len(q)) \in Seq(S)
         /\ Range(q) \ Range(SubSeq(q, 1, k)) \subseteq Range(SubSeq(q, k + 1, Len(q)))
         /\ Range(SubSeq(q, k + 1, Len(q))) \subseteq Range(q)
         /\ IsInjective(q) => IsInjective(SubSeq(q, k + 1, Len(q)))
<1> DEFINE N == Len(q)
           a == SubSeq(q, 1, k)
           z == SubSeq(q, k + 1, N)
<1>1. /\ k \in 0 .. N /\ N \in Nat /\ a \in Seq(S) /\ Len(a) = k /\ (\A i \in 1 .. k : a[i] = q[i])
  BY FrontFacts, SMT
<1> HIDE DEF a
<1>2. /\ z \in Seq(S) /\ Len(z) = N - k /\ \A i \in 1 .. N - k : z[i] = q[k + i]
  <2>1. N + 1 - (k + 1) = N - k /\ k + 1 \in Nat /\ N - k \in Nat
    BY <1>1, SMT
  <2>2. z \in Seq(S)
    BY <1>1, SMT
  <2>3. Len(z) = N - k
    BY <1>1, <2>1, SMT
  <2>4. ASSUME NEW i \in 1 .. N - k PROVE z[i] = q[k + i]
    <3>1. k + 1 + i - 1 = k + i
      BY <1>1, SMT
    <3> QED BY <1>1, <2>1, <3>1, SMT
  <2> QED BY <2>2, <2>3, <2>4
<1> HIDE DEF z
<1>3. /\ Range(q) = {q[i] : i \in 1 .. N} /\ Range(a) = {a[j] : j \in 1 .. k}
      /\ Range(z) = {z[j] : j \in 1 .. N - k}
  BY <1>1, <1>2, RangeOf
<1>4. ASSUME NEW i \in 1 .. N, q[i] \notin Range(a) PROVE q[i] \in Range(z)
  <2>1. ~(i <= k)
    <3>1. SUFFICES ASSUME i <= k PROVE FALSE
      OBVIOUS
    <3>2. i \in 1 .. k
      BY <1>1, <3>1, SMT
    <3> QED BY <1>1, <1>3, <1>4, <3>2
  <2>2. i - k \in 1 .. N - k /\ k + (i - k) = i
    BY <1>1, <2>1, SMT
  <2>3. q[i] = z[i - k]
    BY <1>2, <2>2
  <2> QED BY <1>3, <2>2, <2>3
<1>5. Range(q) \ Range(a) \subseteq Range(z)
  BY <1>3, <1>4
<1>6. \A i \in 1 .. N - k : k + i \in 1 .. N /\ (\A j \in 1 .. N - k : k + i = k + j => i = j)
  BY <1>1, SMT
<1>7. Range(z) \subseteq Range(q)
  BY <1>2, <1>3, <1>6
<1>8. DOMAIN z = 1 .. N - k /\ DOMAIN q = 1 .. N
  BY <1>2, SMT
<1>9. IsInjective(q) => IsInjective(z)
  BY <1>2, <1>6, <1>8 DEF IsInjective
<1> QED BY <1>2, <1>5, <1>7, <1>9 DEF a, z

(* Taking the oldest transaction off the queue.                            *)
LEMMA LastTaken ==
  ASSUME NEW s \in Seq(Tx), s # <<>>
  PROVE  LET front == SubSeq(s, 1, Len(s) - 1)
         IN front \in Seq(Tx) /\ Range(s) \ {s[Len(s)]} \subseteq Range(front)
<1> DEFINE front == SubSeq(s, 1, Len(s) - 1)
<1>1. Len(s) \in Nat /\ Len(s) # 0 /\ Len(s) - 1 \in 0 .. Len(s)
  BY SMT
<1>2. /\ front \in Seq(Tx) /\ Len(front) = Len(s) - 1
      /\ \A i \in 1 .. Len(s) - 1 : front[i] = s[i]
  BY <1>1, FrontFacts
<1> HIDE DEF front
<1>3. Range(s) = {s[i] : i \in 1 .. Len(s)} /\ Range(front) = {front[i] : i \in 1 .. Len(s) - 1}
  BY <1>2, RangeOf
<1>4. \A i \in 1 .. Len(s) : i = Len(s) \/ i \in 1 .. Len(s) - 1
  BY <1>1, SMT
<1>5. front \in Seq(Tx) /\ Range(s) \ {s[Len(s)]} \subseteq Range(front)
  BY <1>2, <1>3, <1>4
<1> QED BY <1>5 DEF front

(* The transactions of a block.                                            *)
LEMMA BlockTxs ==
  ASSUME NEW b \in BlockType
  PROVE  b.vtx \in Seq(Tx) /\ TxsOf(b) \subseteq Tx
<1>1. b.vtx \in Seq(Tx)
  BY DEF BlockType
<1> QED BY <1>1, SMT DEF TxsOf

(* What is in the queue while blocks are disconnected is not in the chain, *)
(* and it is there once.  Blocks are disconnected before any is connected. *)
QueueOK ==
  /\ disconnectpool \in Seq(Tx)
  /\ pc = "undo coins" => step = "disconnect"
  /\ pc = "connect" => step = "connect"
  /\ step = "none" => disconnectpool = <<>>
  /\ step \in {"none", "disconnect"} =>
       IsInjective(disconnectpool) /\ Range(disconnectpool) \cap Connected(Len(chain)) = {}

(* The tip's transactions are in no block below it, and none twice.        *)
LEMMA TipBlockTxs ==
  ASSUME IInv, OnceInv, chain # <<>>
  PROVE  LET b == chain[Len(chain)]
         IN /\ b.vtx \in Seq(Tx) /\ TxsOf(b) = {b.vtx[i] : i \in 1 .. Len(b.vtx)}
            /\ TxsOf(b) \cup Connected(Len(chain) - 1) = Connected(Len(chain))
            /\ TxsOf(b) \cap Connected(Len(chain) - 1) = {}
            /\ \A i, j \in 1 .. Len(b.vtx) : b.vtx[i] = b.vtx[j] => i = j
<1>0. PICK L \in Nat : L = Len(chain)
  BY IInvFacts
<1>1. /\ chain \in Seq(BlockType) /\ L \in 1 .. L
      /\ \A i \in 1 .. L - 1 : i \in 1 .. L /\ i # L
      /\ \A i \in 1 .. L : i \in 1 .. L - 1 \/ i = L
  <2>1. chain \in Seq(BlockType)
    BY DEF IInv, TypeOK
  <2>2. L # 0
    BY <1>0, <2>1, SMT
  <2> QED BY <2>1, <2>2, SMT
<1> DEFINE b == chain[L]
<1>2. b.vtx \in Seq(Tx) /\ TxsOf(b) = {b.vtx[i] : i \in 1 .. Len(b.vtx)}
  <2>1. b \in BlockType
    BY <1>0, <1>1, SMT
  <2> QED BY <2>1, BlockTxs DEF TxsOf
<1>3. TxsOf(b) \cup Connected(L - 1) = Connected(L)
  BY <1>1 DEF Connected
<1>4. \A i, j \in 1 .. Len(b.vtx) : b.vtx[i] = b.vtx[j] => i = j
  BY <1>0, <1>1, SMT DEF OnceInv, ConfirmedOnce
<1>5. TxsOf(b) \cap Connected(L - 1) = {}
  <2> SUFFICES ASSUME NEW i \in 1 .. L - 1, NEW k \in 1 .. Len(b.vtx), NEW l \in 1 .. Len(chain[i].vtx),
                      b.vtx[k] = chain[i].vtx[l]
               PROVE  FALSE
    BY SMT DEF Connected, TxsOf
  <2> QED BY <1>0, <1>1 DEF OnceInv, ConfirmedOnce
<1> QED BY <1>0, <1>2, <1>3, <1>4, <1>5, SMT

(* AddTransactionsFromBlock is only called with what is not queued.        *)
LEMMA QueuedOnce ==
  ASSUME IInv, OnceInv, QueueOK, StepDisconnectEnd
  PROVE  LET queue == AddTransactionsFromBlock(disconnectpool, chain[Len(chain)].vtx)
         IN /\ queue \in Seq(Tx) /\ IsInjective(queue)
            /\ Range(queue) \cap Connected(Len(chain) - 1) = {}
<1> DEFINE b == chain[Len(chain)]
           queue == AddTransactionsFromBlock(disconnectpool, b.vtx)
<1>1. pc = "undo coins" /\ chain # <<>>
  BY UndoFacts DEF StepDisconnectEnd, DisconnectEnd
<1>2. /\ disconnectpool \in Seq(Tx) /\ IsInjective(disconnectpool)
      /\ Range(disconnectpool) \cap Connected(Len(chain)) = {}
  BY <1>1 DEF QueueOK
<1>3. /\ b.vtx \in Seq(Tx) /\ TxsOf(b) = {b.vtx[i] : i \in 1 .. Len(b.vtx)}
      /\ TxsOf(b) \cup Connected(Len(chain) - 1) = Connected(Len(chain))
      /\ TxsOf(b) \cap Connected(Len(chain) - 1) = {}
      /\ \A i, j \in 1 .. Len(b.vtx) : b.vtx[i] = b.vtx[j] => i = j
  BY <1>1, TipBlockTxs
<1> HIDE DEF b
<1>4. queue \in Seq(Tx) /\ Range(queue) = Range(disconnectpool) \cup TxsOf(b)
  <2>1. PICK v \in Seq(Tx) : v = b.vtx
    BY <1>3
  <2>2. /\ AddTransactionsFromBlock(disconnectpool, v) \in Seq(Tx)
        /\ Range(AddTransactionsFromBlock(disconnectpool, v))
             = Range(disconnectpool) \cup {v[i] : i \in 1 .. Len(v)}
    BY <1>2, AddedQueue
  <2> QED BY <1>3, <2>1, <2>2
<1>5. IsInjective(queue)
  <2>1. \A i \in 1 .. Len(b.vtx) : b.vtx[i] \notin Range(disconnectpool)
    BY <1>2, <1>3
  <2> QED BY <1>2, <1>3, <2>1, AddedQueue
<1>6. Range(queue) \cap Connected(Len(chain) - 1) = {}
  BY <1>2, <1>3, <1>4
<1> QED BY <1>4, <1>5, <1>6 DEF b

(* The queue is apart from the chain in every state.                       *)
LEMMA QueueInv == PoolSpec => [](OnceInv /\ QueueOK)
(* Every step keeps the queue apart from the chain.                        *)
<1>QueueStep.
  ASSUME IInv, IInv', OnceInv, QueueOK, [PoolNext]_allVars
  PROVE  QueueOK'
<2> USE <1>QueueStep
<2>0. /\ disconnectpool \in Seq(Tx) /\ ~failed /\ ~failed' /\ chain \in Seq(BlockType)
      /\ Len(chain) \in Nat
  BY IInvFacts DEF QueueOK, IInv, TypeOK
<2>1. ASSUME chain' = chain PROVE Connected(Len(chain))' = Connected(Len(chain))
  BY <2>1 DEF Connected
<2>2. IsInjective(<<>>) /\ Range(<<>>) = {} /\ <<>> \in Seq(Tx)
  BY SMT DEF IsInjective, Range
<2>3. CASE UNCHANGED <<chain, pc, disconnectpool, step>>
  BY <2>1, <2>3 DEF QueueOK
<2>4. CASE StepDisconnectBegin
  <3>1. /\ chain' = chain /\ pc' = "undo coins" /\ step' = "disconnect" /\ disconnectpool' = disconnectpool
        /\ step \in {"none", "disconnect"}
    BY <2>0, <2>4 DEF StepDisconnectBegin, DisconnectBegin, Fail
  <3> QED BY <2>1, <3>1 DEF QueueOK
<2>5. CASE StepDisconnectEnd
  <3> DEFINE queue == AddTransactionsFromBlock(disconnectpool, chain[Len(chain)].vtx)
  <3>1. PICK k \in 0 .. Len(queue) : disconnectpool' = SubSeq(queue, k + 1, Len(queue))
    BY <2>5 DEF StepDisconnectEnd
  <3>2. /\ queue \in Seq(Tx) /\ IsInjective(queue)
        /\ Range(queue) \cap Connected(Len(chain) - 1) = {}
    BY <2>5, QueuedOnce
  <3> HIDE DEF queue
  <3>3. /\ disconnectpool' \in Seq(Tx) /\ IsInjective(disconnectpool')
        /\ Range(disconnectpool') \subseteq Range(queue)
    BY <3>1, <3>2, SplitRange
  <3>4. pc = "undo coins" /\ pc' = "idle" /\ step' = step
    BY <2>5 DEF StepDisconnectEnd, DisconnectEnd
  <3>5. Connected(Len(chain))' = Connected(Len(chain) - 1)
    <4>1. chain # <<>> /\ chain' = SubSeq(chain, 1, Len(chain) - 1)
      BY <2>5, UndoFacts DEF StepDisconnectEnd, DisconnectEnd
    <4>2. Len(chain) - 1 \in 0 .. Len(chain)
      BY <2>0, <4>1, SMT
    <4>3. Len(chain') = Len(chain) - 1 /\ \A i \in 1 .. Len(chain) - 1 : chain'[i] = chain[i]
      BY <2>0, <4>1, <4>2, FrontFacts
    <4> QED BY <4>3 DEF Connected
  <3>6. step' = "disconnect"
    BY <3>4 DEF QueueOK
  <3> QED BY <3>2, <3>3, <3>4, <3>5, <3>6 DEF QueueOK
<2>6. CASE StepConnectBegin
  <3>1. pc' = "connect" /\ step' = "connect" /\ disconnectpool' = disconnectpool
    BY <2>6 DEF StepConnectBegin, ConnectBegin
  <3> QED BY <2>0, <3>1 DEF QueueOK
<2>7. CASE StepConnectEnd
  <3>1. pc = "connect" /\ pc' = "idle" /\ step' = step /\ disconnectpool' = Unmined(disconnectpool, TxsOf(block))
    BY <2>0, <2>7 DEF StepConnectEnd, ConnectEnd, Fail
  <3>2. disconnectpool' \in Seq(Tx) /\ step' = "connect"
    BY <2>0, <3>1, UnminedFacts DEF QueueOK
  <3> QED BY <3>1, <3>2 DEF QueueOK
<2>8. CASE StepConnectInvalid
  <3>1. pc' = "idle" /\ step' = "finish" /\ disconnectpool' = disconnectpool
    BY <2>8 DEF StepConnectInvalid, ConnectInvalid
  <3> QED BY <2>0, <3>1 DEF QueueOK
<2>9. CASE StepInside
  <3>1. chain' = chain /\ pc' = pc /\ step' = step /\ disconnectpool' = disconnectpool
    BY <2>0, <2>9 DEF StepInside, ConnectTx, DisconnectTx, DisconnectName, Fail, poolVars
  <3> QED BY <2>3, <3>1
<2>10. CASE Resurrect
  <3>1. /\ disconnectpool' = SubSeq(disconnectpool, 1, Len(disconnectpool) - 1)
        /\ disconnectpool # <<>> /\ pc' = "idle" /\ step' = "finish"
    BY <2>10 DEF Resurrect, vars
  <3>2. disconnectpool' \in Seq(Tx)
    BY <2>0, <3>1, LastTaken
  <3> QED BY <3>1, <3>2 DEF QueueOK
<2>11. CASE StepEnd
  <3>1. disconnectpool' = <<>> /\ pc' = "idle" /\ step' = "none"
    BY <2>11 DEF StepEnd, vars
  <3> QED BY <2>2, <3>1 DEF QueueOK
<2>12. CASE (\E t \in Tx : AcceptToMemoryPool(t)) \/ UNCHANGED allVars
  BY <2>3, <2>12 DEF AcceptToMemoryPool, allVars, vars, poolVars
<2> QED BY <2>4, <2>5, <2>6, <2>7, <2>8, <2>9, <2>10, <2>11, <2>12 DEF PoolNext
<1>1. PoolInit => QueueOK
  <2>1. IsInjective(<<>>) /\ Range(<<>>) = {} /\ <<>> \in Seq(Tx)
    BY SMT DEF IsInjective, Range
  <2> QED BY <2>1 DEF PoolInit, Init, QueueOK
<1>2. IInv /\ IInv' /\ OnceInv /\ QueueOK /\ [PoolNext]_allVars => QueueOK'
  BY <1>QueueStep
<1>3. PoolSpec => []OnceInv
  BY MempoolImplementsChain, TransactionsConfirmedOnce, PTL
<1> QED BY <1>1, <1>2, <1>3, ChainInv, PTL DEF PoolSpec

-----------------------------------------------------------------------------
(* The maps.                                                               *)

(* NameMapsMatchPool of a mempool p.                                       *)
MapsOK(p) ==
  /\ p.mapTx \subseteq Tx
  /\ \A n \in Name, t \in Tx : p.mapNameRegs[n] = t <=> t \in p.mapTx /\ n \in Registered(t)
  /\ \A n \in Name : p.updates[n] = {t \in p.mapTx : n \in Updated(t)}
  /\ \A t \in p.mapTx : \A c \in Commitments(t) : p.mapNameNews[c] = t

(* The names and commitments of a transaction are keys of the maps.        *)
LEMMA KeysType ==
  ASSUME NEW t \in Tx
  PROVE  /\ Registered(t) \subseteq Name /\ Updated(t) \subseteq Name
         /\ Commitments(t) \subseteq Name \X Rand
BY CatalogueAssumption, SMT DEF Registered, Updated, OpNames, Commitments, NameScript

(* Removing entries of the mempool keeps the maps right, and they are      *)
(* found in them.                                                          *)
LEMMA RemoveMaps ==
  ASSUME NEW p, MapsOK(p), NEW S \in SUBSET p.mapTx
  PROVE  MapsOK(remove(p, S)) /\ removeAsserts(p, S)
<1> DEFINE q == remove(p, S)
<1>1. /\ q.mapTx = p.mapTx \ S /\ q.mapNameNews = p.mapNameNews
      /\ \A n \in Name : q.mapNameRegs[n] = IF \E t \in S : n \in Registered(t) THEN NoTx
                                                                              ELSE p.mapNameRegs[n]
      /\ \A n \in Name : q.updates[n] = p.updates[n] \ S
  BY DEF remove
<1>2. ASSUME NEW n \in Name, NEW t \in Tx
      PROVE  q.mapNameRegs[n] = t <=> t \in q.mapTx /\ n \in Registered(t)
  <2>1. p.mapNameRegs[n] = t <=> t \in p.mapTx /\ n \in Registered(t)
    BY DEF MapsOK
  <2>2. ASSUME NEW s \in S, n \in Registered(s) PROVE p.mapNameRegs[n] = s
    BY <2>2 DEF MapsOK
  <2> HIDE DEF q
  <2> QED BY <1>1, <2>1, <2>2, OrderAssumption, SMT
<1>3. \A n \in Name : q.updates[n] = {t \in q.mapTx : n \in Updated(t)}
  <2> HIDE DEF q
  <2> QED BY <1>1, SMT DEF MapsOK
<1>4. MapsOK(q)
  <2> HIDE DEF q
  <2> QED BY <1>1, <1>2, <1>3 DEF MapsOK
<1>5. removeAsserts(p, S)
  <2>1. ASSUME NEW t \in S, NEW n \in Registered(t) PROVE p.mapNameRegs[n] # NoTx
    <3>1. t \in Tx /\ n \in Name
      BY KeysType DEF MapsOK
    <3>2. p.mapNameRegs[n] = t
      BY <3>1 DEF MapsOK
    <3> QED BY <3>1, <3>2, OrderAssumption
  <2>2. ASSUME NEW t \in S, NEW n \in Updated(t) PROVE t \in p.updates[n]
    <3>1. t \in Tx /\ n \in Name
      BY KeysType DEF MapsOK
    <3> QED BY <3>1, SMT DEF MapsOK
  <2> QED BY <2>1, <2>2 DEF removeAsserts
<1> QED BY <1>4, <1>5

(* Only entries of the mempool are removed.                                *)
LEMMA DescendantsInPool ==
  ASSUME NEW p, NEW S
  PROVE  WithDescendants(p, S) \in SUBSET p.mapTx
BY DEF WithDescendants

-----------------------------------------------------------------------------
(* The assertions.                                                         *)

(* A transaction that CheckNameTransaction accepts for the mempool meets   *)
(* its assertion: the name database agrees with a confirmed name input.    *)
LEMMA AcceptedNameAsserts ==
  ASSUME IInv, NEW p, NEW t \in Tx,
         CheckNameTransaction(PoolView(p), t, Height + 1, TRUE)
  PROVE  CheckNameAsserts(PoolView(p), t, TRUE)
<1> DEFINE db == PoolView(p)
<1> SUFFICES ASSUME NEW in \in NameIns(t), NEW out \in NameOuts(t),
                    nameOp[out].op = "UPDATE", db.coins[in] # MEMPOOL_HEIGHT
             PROVE  GetName(db.names, nameOp[out].name) = [height |-> db.coins[in], out |-> in]
  BY DEF CheckNameAsserts
<1>1. in \in OutPoint /\ in \in vin[t] /\ t \in NamecoinTx /\ out \in OutPoint
  BY CatalogueAssumption DEF NameIns, NameOuts, CheckNameTransaction
<1>2. db.names = tip.names /\ db.coins[in] = tip.coins[in] /\ tip.coins[in] # Spent
  BY <1>1 DEF PoolView, PoolCoins, CheckNameTransaction
<1>3. isAnyUpdate(in) /\ nameOp[in].name = nameOp[out].name
  <2> HIDE DEF db
  <2>1. CheckNameTransaction(db, t, Height + 1, TRUE)
    BY DEF db
  <2>2. PICK o \in NameOuts(t) : \/ nameOp[o].op = "NEW" /\ NameIns(t) = {}
                                 \/ UpdateAllowed(db, t, o, Height + 1)
                                 \/ FirstUpdateAllowed(db, t, o, Height + 1, TRUE)
    BY <1>1, <2>1 DEF CheckNameTransaction
  <2>3. o = out
    BY <2>1 DEF CheckNameTransaction, AtMostOne
  <2>4. UpdateAllowed(db, t, out, Height + 1)
    BY <2>2, <2>3 DEF FirstUpdateAllowed
  <2> QED BY <2>1, <2>4 DEF UpdateAllowed, CheckNameTransaction, AtMostOne
<1>4. CoinsMatchNames(tip, Height)
  BY DEF IInv, DBOK
<1> QED BY <1>1, <1>2, <1>3, <1>4 DEF CoinsMatchNames, GetName

(* The assertion of removeExpireConflicts when the block is connected.     *)
ExpiryAssertsHold ==
  ExpireConflictsAsserts(removeForBlock(pool, TxsOf(block)), ExpiringNames(view.names, Height + 2))

(* A step keeps the maps right and fails by the assertion of               *)
(* removeExpireConflicts or not at all.                                    *)
LEMMA PoolStep ==
  ASSUME IInv, OnceInv, QueueOK, MapsOK(pool), [PoolNext]_allVars
  PROVE  MapsOK(pool') /\ (UNCHANGED poolFailed \/ (StepConnectEnd /\ ~ExpiryAssertsHold))
(* Adding a transaction keeps the maps right if its assertions hold.       *)
<1>AddMaps.
  ASSUME NEW p, MapsOK(p), NEW t \in Tx, addAsserts(p, t)
  PROVE  MapsOK(addUnchecked(p, t))
<2> USE <1>AddMaps
<2> DEFINE q == addUnchecked(p, t)
<2>1. /\ q.mapTx = p.mapTx \cup {t}
      /\ \A n \in Name : q.mapNameRegs[n] = IF n \in Registered(t) THEN t ELSE p.mapNameRegs[n]
      /\ \A n \in Name : q.updates[n] = IF n \in Updated(t) THEN p.updates[n] \cup {t} ELSE p.updates[n]
      /\ \A c \in Name \X Rand : q.mapNameNews[c] = IF c \in Commitments(t) THEN t ELSE p.mapNameNews[c]
  BY DEF addUnchecked
<2> HIDE DEF q
<2>2. ASSUME NEW n \in Name, NEW u \in Tx
      PROVE  q.mapNameRegs[n] = u <=> u \in q.mapTx /\ n \in Registered(u)
  <3>1. p.mapNameRegs[n] = u <=> u \in p.mapTx /\ n \in Registered(u)
    BY DEF MapsOK
  <3>2. n \in Registered(t) => p.mapNameRegs[n] = NoTx
    BY DEF addAsserts
  <3> QED BY <2>1, <3>1, <3>2, OrderAssumption
<2>3. ASSUME NEW n \in Name PROVE q.updates[n] = {u \in q.mapTx : n \in Updated(u)}
  <3>1. p.updates[n] = {u \in p.mapTx : n \in Updated(u)}
    BY DEF MapsOK
  <3>2. CASE n \in Updated(t)
    BY <2>1, <3>1, <3>2
  <3>3. CASE n \notin Updated(t)
    BY <2>1, <3>1, <3>3
  <3> QED BY <3>2, <3>3
<2>4. ASSUME NEW u \in q.mapTx, NEW c \in Commitments(u) PROVE q.mapNameNews[c] = u
  <3>1. u \in Tx /\ c \in Name \X Rand
    BY <2>1, KeysType DEF MapsOK
  <3>2. CASE c \in Commitments(t) /\ u # t
    <4>1. u \in p.mapTx /\ p.mapNameNews[c] = u
      BY <3>2, <2>1 DEF MapsOK
    <4>2. p.mapNameNews[c] \in {NoTx, t}
      BY <3>2 DEF addAsserts
    <4> QED BY <3>1, <3>2, <4>1, <4>2, OrderAssumption
  <3>3. CASE ~(c \in Commitments(t) /\ u # t)
    BY <3>1, <3>3, <2>1, SMT DEF MapsOK
  <3> QED BY <3>2, <3>3
<2> QED BY <2>1, <2>2, <2>3, <2>4 DEF MapsOK, q
(* What PreChecks accepts can be added after the replaced transactions are *)
(* removed.                                                                *)
<1>AcceptedMaps.
  ASSUME NEW p, MapsOK(p), NEW t \in Tx, PreChecks(p, t)
  PROVE  /\ MapsOK(Accepted(p, t))
         /\ addAsserts(remove(p, WithDescendants(p, SpendConflicts(p, t))), t)
<2> USE <1>AcceptedMaps
<2> DEFINE S == WithDescendants(p, SpendConflicts(p, t))
<2>1. MapsOK(remove(p, S))
  BY DescendantsInPool, RemoveMaps
<2>2. addAsserts(remove(p, S), t)
  <3>1. Registered(t) \subseteq Name
    BY KeysType
  <3>2. checkTx(p, t)
    BY DEF PreChecks
  <3> HIDE DEF S
  <3> QED BY <3>1, <3>2 DEF checkTx, addAsserts, remove
<2> HIDE DEF S
<2>3. MapsOK(addUnchecked(remove(p, S), t))
  BY <2>1, <2>2, <1>AddMaps
<2> QED BY <2>2, <2>3 DEF Accepted, S
(* The mempool is set to one with right maps, and fails only by asserts.   *)
<1>SetPoolOK.
  ASSUME MapsOK(pool), NEW new, MapsOK(new), NEW asserts \in BOOLEAN, SetPool(new, asserts)
  PROVE  MapsOK(pool') /\ (asserts => UNCHANGED poolFailed)
<2> USE <1>SetPoolOK
<2>1. removeAsserts(pool, pool.mapTx \ new.mapTx)
  BY RemoveMaps
<2> QED BY <2>1 DEF SetPool
<1>1. CASE UNCHANGED <<pool, poolFailed>>
  BY <1>1
<1>2. ASSUME NEW t \in Tx, PreChecks(pool, t)
      PROVE  MapsOK(Accepted(pool, t)) /\ AcceptAsserts(pool, t)
  BY <1>2, <1>AcceptedMaps, AcceptedNameAsserts DEF PreChecks, AcceptAsserts
<1>3. ASSUME NEW p, MapsOK(p), NEW S PROVE MapsOK(remove(p, WithDescendants(p, S)))
  BY <1>3, DescendantsInPool, RemoveMaps
<1>4. ASSUME NEW t \in Tx, AcceptToMemoryPool(t) PROVE MapsOK(pool') /\ UNCHANGED poolFailed
  <2>1. PICK victims : SetPool(LimitMempoolSize(Accepted(pool, t), victims), AcceptAsserts(pool, t))
    BY <1>4 DEF AcceptToMemoryPool
  <2>2. MapsOK(Accepted(pool, t)) /\ AcceptAsserts(pool, t)
    BY <1>2, <1>4 DEF AcceptToMemoryPool
  <2>3. MapsOK(LimitMempoolSize(Accepted(pool, t), victims))
    BY <2>2, <1>3 DEF LimitMempoolSize
  <2>4. SetPool(LimitMempoolSize(Accepted(pool, t), victims), TRUE)
    BY <2>1, <2>2 DEF SetPool
  <2> QED BY <2>3, <2>4, <1>SetPoolOK
<1>5. CASE StepDisconnectEnd
  <2> DEFINE b == chain[Len(chain)]
             queue == AddTransactionsFromBlock(disconnectpool, b.vtx)
             kept == removeUnexpireConflicts(pool, {c.name : c \in b.vexpired})
  <2>0. PICK k : SetPool(remove(kept, WithDescendants(kept, Range(SubSeq(queue, 1, k)))),
                         QueueAsserts(queue))
    BY <1>5 DEF StepDisconnectEnd
  <2>1. SetPool(remove(kept, WithDescendants(kept, Range(SubSeq(queue, 1, k)))), TRUE)
    <3>1. QueueAsserts(queue)
      BY <1>5, QueuedOnce DEF QueueAsserts
    <3> HIDE DEF queue, kept
    <3> QED BY <2>0, <3>1 DEF SetPool
  <2>2. MapsOK(kept)
    BY <1>3 DEF removeUnexpireConflicts
  <2> HIDE DEF kept, queue
  <2>3. MapsOK(remove(kept, WithDescendants(kept, Range(SubSeq(queue, 1, k)))))
    BY <2>2, <1>3
  <2> QED BY <2>1, <2>3, <1>SetPoolOK
<1>6. CASE StepConnectEnd
  <2> DEFINE expired == ExpiringNames(view.names, Height + 2)
             txs == TxsOf(block)
             rest == remove(pool, pool.mapTx \cap txs)
             kept == removeForBlock(pool, txs)
             ok == ExpireConflictsAsserts(kept, expired)
  <2>1. SetPool(removeExpireConflicts(kept, expired), ok)
    BY <1>6 DEF StepConnectEnd
  <2>2. MapsOK(rest)
    BY RemoveMaps
  <2>3. MapsOK(kept)
    BY <2>2, <1>3 DEF removeForBlock
  <2>4. MapsOK(removeExpireConflicts(kept, expired))
    <3> HIDE DEF kept, expired
    <3> QED BY <2>3, <1>3 DEF removeExpireConflicts
  <2>5. ok \in BOOLEAN
    BY DEF ExpireConflictsAsserts
  <2> HIDE DEF kept, expired, ok
  <2>6. MapsOK(pool') /\ (ok => UNCHANGED poolFailed)
    BY <2>1, <2>4, <2>5, <1>SetPoolOK
  <2> QED BY <2>6, <1>6 DEF ExpiryAssertsHold, ok, kept, expired
<1>7. CASE Resurrect
  <2>1. PICK t \in Tx : \/ PreChecks(pool, t) /\ SetPool(Accepted(pool, t), AcceptAsserts(pool, t))
                        \/ SetPool(remove(pool, WithDescendants(pool, {t})), TRUE)
    BY <1>7 DEF Resurrect
  <2>2. CASE PreChecks(pool, t) /\ SetPool(Accepted(pool, t), AcceptAsserts(pool, t))
    <3>1. MapsOK(Accepted(pool, t)) /\ AcceptAsserts(pool, t)
      BY <1>2, <2>2
    <3>2. SetPool(Accepted(pool, t), TRUE)
      BY <2>2, <3>1 DEF SetPool
    <3> QED BY <3>1, <3>2, <1>SetPoolOK
  <2>3. CASE SetPool(remove(pool, WithDescendants(pool, {t})), TRUE)
    BY <2>3, <1>3, <1>SetPoolOK
  <2> QED BY <2>1, <2>2, <2>3
<1>8. CASE StepEnd
  <2>1. PICK victims : SetPool(LimitMempoolSize(pool, victims), TRUE)
    BY <1>8 DEF StepEnd
  <2>2. MapsOK(LimitMempoolSize(pool, victims))
    BY <1>3 DEF LimitMempoolSize
  <2> QED BY <2>1, <2>2, <1>SetPoolOK
<1>9. CASE UNCHANGED allVars
  BY <1>1, <1>9 DEF allVars, poolVars
<1>10. CASE StepDisconnectBegin \/ StepConnectBegin \/ StepConnectInvalid \/ StepInside
  BY <1>1, <1>10 DEF StepDisconnectBegin, StepConnectBegin, StepConnectInvalid, StepInside, poolVars
<1> QED BY <1>4, <1>5, <1>6, <1>7, <1>8, <1>9, <1>10 DEF PoolNext

(* The maps are right in every state.                                      *)
LEMMA MapsInv == PoolSpec => []MapsOK(pool)
(* The empty mempool has empty maps.                                       *)
<1>EmptyMaps. MapsOK(EmptyPool)
BY OrderAssumption DEF MapsOK, EmptyPool
<1>1. PoolInit => MapsOK(pool)
  BY <1>EmptyMaps DEF PoolInit
<1>2. IInv /\ OnceInv /\ QueueOK /\ MapsOK(pool) /\ [PoolNext]_allVars => MapsOK(pool)'
  <2> SUFFICES ASSUME IInv, OnceInv, QueueOK, MapsOK(pool), [PoolNext]_allVars PROVE MapsOK(pool')
    BY DEF MapsOK
  <2> QED BY PoolStep
<1> QED BY <1>1, <1>2, ChainInv, QueueInv, PTL DEF PoolSpec

(* Whatever is accepted, replaced, limited, mined, expired or disconnected *)
(* in whatever order, mapNameRegs, updates and mapNameNews of CNameMemPool *)
(* describe exactly the transactions in the mempool, at any number of      *)
(* names and transactions.                                                 *)
THEOREM NameMapsAlwaysMatch == PoolSpec => []NameMapsMatchPool
<1>1. MapsOK(pool) => NameMapsMatchPool
  BY DEF MapsOK, NameMapsMatchPool
<1> QED BY <1>1, MapsInv, PTL

(* Of the assertions the mempool makes about names (in addUnchecked,       *)
(* remove, CheckNameTransaction and removeExpireConflicts) and about the   *)
(* queue of disconnected transactions (in AddTransactionsFromBlock) only   *)
(* the one in removeExpireConflicts can ever fail.                         *)
THEOREM OnlyExpiryCanFail ==
  PoolSpec => [][poolFailed' # poolFailed => StepConnectEnd /\ ~ExpiryAssertsHold]_allVars
<1>1. IInv /\ OnceInv /\ QueueOK /\ MapsOK(pool) /\ [PoolNext]_allVars
        => [poolFailed' # poolFailed => StepConnectEnd /\ ~ExpiryAssertsHold]_allVars
  BY PoolStep
<1> QED BY <1>1, ChainInv, QueueInv, MapsInv, PTL DEF PoolSpec

-----------------------------------------------------------------------------
(* What a block does to coins and names.                                   *)

(* A registration of n at height h is allowed.                             *)
Free(ns, n, h) == ns.data[n] = NoData \/ isExpired(ns.data[n].height, h)

(* What a block of height h leaves behind can be traced to it: data it     *)
(* changed has its height, and if the name was free a transaction          *)
(* registered it; new coins are outputs of its transactions, and coins     *)
(* that are gone are inputs of its transactions.                           *)
Traced(b, h) ==
  /\ \A n \in Name : Applied(b).names.data[n] # Before(b).names.data[n] =>
       /\ Applied(b).names.data[n] # NoData /\ Applied(b).names.data[n].height = h
       /\ Free(Before(b).names, n, h) => \E t \in TxsOf(b) : n \in Registered(t)
  /\ \A o \in OutPoint : Applied(b).coins[o] # Spent =>
       Before(b).coins[o] # Spent \/ \E t \in TxsOf(b) : o \in vout[t]
  /\ \A o \in OutPoint :
       (Applied(b).coins[o] = Spent /\ (Before(b).coins[o] # Spent \/ \E t \in TxsOf(b) : o \in vout[t]))
         => \E t \in TxsOf(b) : o \in vin[t]

ChainTraced ==
  /\ \A i \in 1 .. Len(chain) : Traced(chain[i], BaseHeight + i)
  /\ pc = "connect" => Traced(block, Height + 1)

(* The blocks of the chain are traced below the mempool.                   *)
LEMMA TracedInv == PoolSpec => []ChainTraced
(* A block that has just been started changed nothing.                     *)
<1>StartedTraced.
  ASSUME NEW db, NEW h
  PROVE  Traced(StartedBlock(db), h)
<2> USE <1>StartedTraced
<2> DEFINE b == StartedBlock(db)
<2>1. Len(b.coinsLog) = 1 /\ Len(b.namesLog) = 1 /\ Len(b.vtx) = 0
  BY DEF StartedBlock
<2>2. Applied(b) = Before(b)
  BY <2>1 DEF Applied, Before
<2>3. TxsOf(b) = {}
  BY <2>1, SMT DEF TxsOf
<2> HIDE DEF b
<2>4. Traced(b, h)
  BY <2>2, <2>3 DEF Traced
<2> QED BY <2>4 DEF b
(* Traced is about the transactions and the two ends of the logs.          *)
<1>SameTraced.
  ASSUME NEW b, NEW c, NEW h, Traced(c, h),
         b.vtx = c.vtx /\ b.coinsLog = c.coinsLog /\ b.namesLog = c.namesLog
  PROVE  Traced(b, h)
<2> USE <1>SameTraced
<2>1. Applied(b) = Applied(c) /\ Before(b) = Before(c) /\ TxsOf(b) = TxsOf(c)
  BY DEF Applied, Before, TxsOf
<2> QED BY <2>1 DEF Traced
(* The name data after a transaction.                                      *)
<1>AppliedData.
  ASSUME NEW db \in DBType, NEW t \in Tx, NEW h, NEW m \in Name,
         ApplyNameTransaction(db.names, t, h).data[m] # db.names.data[m]
  PROVE  /\ ApplyNameTransaction(db.names, t, h).data[m] = [height |-> h, out |-> UpdatedOut(t)]
         /\ UpdatedOut(t) \in UpdatedOuts(t) /\ nameOp[UpdatedOut(t)].name = m
<2> USE <1>AppliedData
<2>1. UpdatedOuts(t) # {}
  BY DEF ApplyNameTransaction
<2>2. UpdatedOut(t) \in UpdatedOuts(t)
  BY <2>1 DEF UpdatedOut
<2>3. db.names.data \in [Name -> NameData \cup {NoData}]
  BY DEF DBType, NamesType
<2> QED BY <2>1, <2>2, <2>3 DEF ApplyNameTransaction, SetName
(* A transaction that is connected to the block keeps it traced.           *)
<1>WithTxTraced.
  ASSUME NEW b, NEW c, NEW t \in Tx, NEW h \in Nat, h < MaxHeight,
         Traced(b, h + 1), Applied(b) \in DBType, CoinsMatchNames(Applied(b), h),
         CheckNameTransaction(Applied(b), t, h + 1, FALSE),
         Before(c) = Before(b), TxsOf(c) = TxsOf(b) \cup {t},
         Applied(c) = [coins |-> UpdateCoins(Applied(b).coins, t, h + 1),
                       names |-> ApplyNameTransaction(Applied(b).names, t, h + 1)]
  PROVE  Traced(c, h + 1)
<2> USE <1>WithTxTraced
<2> DEFINE db == Applied(b)
<2>1. ASSUME NEW n \in Name, Applied(c).names.data[n] # Before(c).names.data[n]
      PROVE  /\ Applied(c).names.data[n] # NoData /\ Applied(c).names.data[n].height = h + 1
             /\ Free(Before(c).names, n, h + 1) => \E u \in TxsOf(c) : n \in Registered(u)
  <3>1. CASE Applied(c).names.data[n] = db.names.data[n]
    BY <2>1, <3>1 DEF Traced
  <3>2. CASE Applied(c).names.data[n] # db.names.data[n]
    <4> DEFINE out == UpdatedOut(t)
    <4>1. /\ Applied(c).names.data[n] = [height |-> h + 1, out |-> out]
          /\ out \in UpdatedOuts(t) /\ nameOp[out].name = n
      BY <3>2, <1>AppliedData, SMT
    <4> HIDE DEF out, db
    <4>2. /\ t \in NamecoinTx /\ out \in vout[t] /\ out \in OutPoint /\ isAnyUpdate(out)
          /\ out \in NameOuts(t)
      BY <4>1, CatalogueAssumption DEF UpdatedOuts, NameOuts, isAnyUpdate, isNameOp
    <4>3. h + 1 \in CoinHeight /\ h + 1 # Spent
      BY ParamsAssumption, SMT DEF CoinHeight, Spent
    <4>4. Applied(c).names.data[n] # NoData /\ Applied(c).names.data[n].height = h + 1
      BY <4>1, <4>2, <4>3, DataOfCoin, SMT
    <4>5. CASE db.names.data[n] # Before(b).names.data[n]
      BY <4>4, <4>5 DEF Traced, db
    <4>6. CASE db.names.data[n] = Before(b).names.data[n] /\ Free(db.names, n, h + 1)
      <5>1. CheckNameTransaction(db, t, h + 1, FALSE)
        BY DEF db
      <5>2. \A o \in NameOuts(t) : o = out
        BY <4>2, <5>1 DEF CheckNameTransaction, AtMostOne
      <5>3. UpdateAllowed(db, t, out, h + 1) \/ FirstUpdateAllowed(db, t, out, h + 1, FALSE)
        BY <4>2, <5>1, <5>2 DEF CheckNameTransaction, isAnyUpdate
      <5>4. ~UpdateAllowed(db, t, out, h + 1)
        <6>1. SUFFICES ASSUME NEW in \in NameIns(t), isAnyUpdate(in), nameOp[in].name = n PROVE FALSE
          BY <4>1 DEF UpdateAllowed
        <6>2. in \in vin[t] /\ in \in OutPoint /\ db.coins[in] # Spent
          BY <5>1, CatalogueAssumption DEF NameIns, CheckNameTransaction
        <6>3. /\ db.names.data[n] = [height |-> db.coins[in], out |-> in]
              /\ ~isExpired(db.names.data[n].height, h + 1)
          BY <6>1, <6>2 DEF CoinsMatchNames, db
        <6>4. db.coins[in] \in CoinHeight
          BY <6>2 DEF DBType, CoinsType, db
        <6>5. db.names.data[n] # NoData
          BY <6>2, <6>3, <6>4, DataOfCoin
        <6> QED BY <4>6, <6>3, <6>5 DEF Free
      <5>5. nameOp[out].op = "FIRSTUPDATE"
        BY <5>3, <5>4 DEF FirstUpdateAllowed
      <5>6. n \in Registered(t)
        BY <4>1, <4>2, <5>5 DEF Registered, OpNames
      <5> QED BY <4>4, <5>6
    <4>7. CASE db.names.data[n] = Before(b).names.data[n] /\ ~Free(db.names, n, h + 1)
      BY <4>4, <4>7 DEF Free
    <4> QED BY <4>5, <4>6, <4>7
  <3> QED BY <3>1, <3>2
<2>2. ASSUME NEW o \in OutPoint
      PROVE  Applied(c).coins[o] = IF o \in vout[t] THEN h + 1
                                   ELSE IF o \in vin[t] THEN Spent ELSE db.coins[o]
  BY SMT DEF UpdateCoins
<2>3. h + 1 # Spent
  BY SMT DEF Spent
<2>4. ASSUME NEW o \in OutPoint, Applied(c).coins[o] # Spent
      PROVE  Before(c).coins[o] # Spent \/ \E u \in TxsOf(c) : o \in vout[u]
  BY <2>2, <2>4 DEF Traced
<2>5. ASSUME NEW o \in OutPoint, Applied(c).coins[o] = Spent,
             Before(c).coins[o] # Spent \/ \E u \in TxsOf(c) : o \in vout[u]
      PROVE  \E u \in TxsOf(c) : o \in vin[u]
  <3>1. o \notin vout[t]
    BY <2>2, <2>3, <2>5
  <3>2. CASE o \in vin[t]
    BY <3>2
  <3>3. CASE o \notin vin[t]
    <4>1. db.coins[o] = Spent
      BY <2>2, <2>5, <3>1, <3>3
    <4> QED BY <2>5, <3>1, <4>1 DEF Traced
  <3> QED BY <3>2, <3>3
<2> HIDE DEF db
<2> QED BY <2>1, <2>4, <2>5 DEF Traced
(* A step of the chain keeps the chain's blocks traced.                    *)
<1>ChainTracedStep.
  ASSUME IInv, IInv', ChainTraced, [Next]_vars
  PROVE  ChainTraced'
<2> USE <1>ChainTracedStep
<2>0. /\ Len(chain) \in Nat /\ chain \in Seq(BlockType) /\ Height = BaseHeight + Len(chain)
      /\ BaseHeight \in Nat /\ ~failed /\ ~failed' /\ Height \in Nat
  BY IInvFacts DEF IInv, TypeOK
<2>1. CASE chain' = chain /\ pc' # "connect"
  BY <2>1 DEF ChainTraced
<2>2. CASE UNCHANGED <<chain, block, pc>>
  <3>1. Height' = Height
    BY <2>2 DEF Height
  <3>2. block' = block /\ pc' = pc /\ chain' = chain
    BY <2>2
  <3>3. pc' = "connect" => Traced(block', Height' + 1)
    BY <3>1, <3>2 DEF ChainTraced
  <3>4. \A i \in 1 .. Len(chain') : Traced(chain'[i], BaseHeight + i)
    BY <3>2 DEF ChainTraced
  <3> QED BY <3>3, <3>4 DEF ChainTraced
<2>3. CASE ConnectBegin
  <3>1. chain' = chain /\ block' = StartedBlock(tip)
    BY <2>3 DEF ConnectBegin
  <3>2. Traced(block', Height' + 1)
    BY <3>1, <1>StartedTraced
  <3>3. \A i \in 1 .. Len(chain') : Traced(chain'[i], BaseHeight + i)
    BY <3>1 DEF ChainTraced
  <3> QED BY <3>2, <3>3 DEF ChainTraced
<2>4. ASSUME NEW t \in Tx, ConnectTx(t) PROVE ChainTraced'
  <3>1. /\ pc = "connect" /\ CheckNameTransaction(view, t, Height + 1, FALSE)
        /\ view' = [coins |-> UpdateCoins(view.coins, t, Height + 1),
                    names |-> ApplyNameTransaction(view.names, t, Height + 1)]
        /\ block' = WithTx(block, view, t, Height + 1) /\ chain' = chain /\ pc' = pc /\ tip' = tip
    BY <2>0, <2>4 DEF ConnectTx, Fail
  <3>2. Height' = Height
    BY <3>1 DEF Height
  <3>3. /\ Before(block) = tip /\ Applied(block) = view /\ Height < MaxHeight
        /\ DBOK(view, Connected(Len(chain)) \cup TxsOf(block), Height, Height + 1)
        /\ view \in DBType /\ block \in BlockType
    BY <3>1 DEF IInv, TypeOK
  <3>4. Before(block') = tip /\ Applied(block') = view'
    <4>1. Before(block') = tip' /\ Applied(block') = view'
      BY <3>1 DEF IInv
    <4> QED BY <3>1, <4>1
  <3>5. TxsOf(block') = TxsOf(block) \cup {t}
    <4>1. block'.vtx = Append(block.vtx, t) /\ block.vtx \in Seq(Tx)
      BY <3>1, <3>3 DEF WithTx, BlockType
    <4>2. /\ Len(block.vtx) \in Nat /\ Len(block'.vtx) = Len(block.vtx) + 1
          /\ block'.vtx[Len(block.vtx) + 1] = t
          /\ \A k \in 1 .. Len(block.vtx) : block'.vtx[k] = block.vtx[k]
      BY <4>1, AppendFacts, SMT
    <4>3. ASSUME NEW u PROVE u \in TxsOf(block') <=> u \in TxsOf(block) \cup {t}
      <5>1. u \in TxsOf(block') <=> \E k \in 1 .. Len(block.vtx) + 1 : u = block'.vtx[k]
        BY <4>2 DEF TxsOf
      <5>2. u \in TxsOf(block) <=> \E k \in 1 .. Len(block.vtx) : u = block.vtx[k]
        BY DEF TxsOf
      <5>3. \A k \in 1 .. Len(block.vtx) + 1 : k \in 1 .. Len(block.vtx) \/ k = Len(block.vtx) + 1
        BY <4>2, SMT
      <5>4. /\ Len(block.vtx) + 1 \in 1 .. Len(block.vtx) + 1
            /\ \A k \in 1 .. Len(block.vtx) : k \in 1 .. Len(block.vtx) + 1
        BY <4>2, SMT
      <5> QED BY <4>2, <5>1, <5>2, <5>3, <5>4
    <4> QED BY <4>3
  <3>6. CoinsMatchNames(view, Height) /\ Traced(block, Height + 1)
    BY <3>1, <3>3 DEF DBOK, ChainTraced
  <3>7. Traced(block', Height + 1)
    <4> DEFINE c == block'
    <4>1. /\ Before(c) = Before(block) /\ TxsOf(c) = TxsOf(block) \cup {t}
          /\ Applied(c) = [coins |-> UpdateCoins(Applied(block).coins, t, Height + 1),
                           names |-> ApplyNameTransaction(Applied(block).names, t, Height + 1)]
      BY <3>1, <3>3, <3>4, <3>5
    <4>2. Applied(block) \in DBType /\ CoinsMatchNames(Applied(block), Height)
          /\ CheckNameTransaction(Applied(block), t, Height + 1, FALSE)
      BY <3>1, <3>3, <3>6
    <4> HIDE DEF c
    <4>3. Traced(c, Height + 1)
      BY <2>0, <3>3, <3>6, <4>1, <4>2, <1>WithTxTraced
    <4> QED BY <4>3 DEF c
  <3>8. \A i \in 1 .. Len(chain') : Traced(chain'[i], BaseHeight + i)
    BY <3>1 DEF ChainTraced
  <3>9. Traced(block', Height' + 1)
    BY <3>2, <3>7
  <3> QED BY <3>8, <3>9 DEF ChainTraced
<2>5. CASE ConnectEnd
  <3> DEFINE b == [block EXCEPT !.vexpired = ExpireUndo(view, Height + 2)]
  <3>1. pc = "connect" /\ pc' = "idle" /\ chain' = Append(chain, b)
    BY <2>0, <2>5 DEF ConnectEnd, Fail
  <3>2. block \in BlockType /\ chain' \in Seq(BlockType) /\ Traced(block, Height + 1)
    BY <3>1 DEF IInv, TypeOK, ChainTraced
  <3>3. b.vtx = block.vtx /\ b.coinsLog = block.coinsLog /\ b.namesLog = block.namesLog
    BY <3>2 DEF BlockType
  <3> HIDE DEF b
  <3>4. Traced(b, Height + 1)
    BY <3>2, <3>3, <1>SameTraced
  <3>5. /\ Len(chain') = Len(chain) + 1 /\ chain'[Len(chain) + 1] = b
        /\ \A i \in 1 .. Len(chain) : chain'[i] = chain[i]
    BY <2>0, <3>1, SMT
  <3>6. ASSUME NEW i \in 1 .. Len(chain') PROVE Traced(chain'[i], BaseHeight + i)
    <4>1. CASE i \in 1 .. Len(chain)
      BY <3>5, <4>1 DEF ChainTraced
    <4>2. CASE i \notin 1 .. Len(chain)
      <5>1. i = Len(chain) + 1 /\ BaseHeight + i = Height + 1
        BY <2>0, <3>5, <4>2, SMT
      <5> QED BY <3>4, <3>5, <5>1
    <4> QED BY <4>1, <4>2
  <3> QED BY <3>1, <3>6 DEF ChainTraced
<2>6. CASE DisconnectEnd
  <3>1. chain # <<>>
    BY <2>6, UndoFacts DEF DisconnectEnd
  <3>2. /\ pc' = "idle" /\ chain' = SubSeq(chain, 1, Len(chain) - 1)
        /\ Len(chain) - 1 \in 0 .. Len(chain)
    <4>1. Len(chain) - 1 \in 0 .. Len(chain)
      BY <2>0, <3>1, SMT
    <4> QED BY <2>6, <4>1 DEF DisconnectEnd
  <3>3. Len(chain') = Len(chain) - 1 /\ \A i \in 1 .. Len(chain) - 1 : chain'[i] = chain[i]
    BY <2>0, <3>2, FrontFacts
  <3>4. \A i \in 1 .. Len(chain') : i \in 1 .. Len(chain) /\ chain'[i] = chain[i]
    BY <2>0, <3>3, SMT
  <3>5. \A i \in 1 .. Len(chain') : Traced(chain'[i], BaseHeight + i)
    BY <3>4 DEF ChainTraced
  <3> QED BY <3>2, <3>5 DEF ChainTraced
<2>7. CASE ConnectInvalid \/ DisconnectBegin \/ DisconnectTx \/ DisconnectName
  <3>1. chain' = chain /\ pc' # "connect"
    BY <2>0, <2>7 DEF ConnectInvalid, DisconnectBegin, DisconnectTx, DisconnectName, Fail
  <3> QED BY <2>1, <3>1
<2>8. CASE UNCHANGED vars
  BY <2>2, <2>8 DEF vars
<2> QED BY <2>3, <2>4, <2>5, <2>6, <2>7, <2>8 DEF Next
<1>1. PoolInit => ChainTraced
  <2>1. Len(<<>>) = 0
    OBVIOUS
  <2> QED BY <2>1, SMT DEF PoolInit, Init, ChainTraced
<1>2. IInv /\ IInv' /\ ChainTraced /\ [PoolNext]_allVars => ChainTraced'
  BY PoolStepIsChainStep, <1>ChainTracedStep
<1> QED BY <1>1, <1>2, ChainInv, PTL DEF PoolSpec

-----------------------------------------------------------------------------
(* The entries.                                                            *)

(* What CheckNameTransaction asks of a transaction whatever the chain is.  *)
EntryOK(t) ==
  /\ AtMostOne(NameIns(t)) /\ AtMostOne(NameOuts(t))
  /\ IF t \notin NamecoinTx THEN NameIns(t) = {} /\ NameOuts(t) = {}
     ELSE \E out \in NameOuts(t) :
            /\ nValue[out] >= MinNameCoinAmount[BaseHeight + 1]
            /\ out \notin Malformed
            /\ \/ nameOp[out].op = "NEW" /\ NameIns(t) = {}
               \/ /\ nameOp[out].op = "UPDATE"
                  /\ \E in \in NameIns(t) : isAnyUpdate(in) /\ nameOp[in].name = nameOp[out].name
               \/ /\ nameOp[out].op = "FIRSTUPDATE"
                  /\ \E in \in NameIns(t) :
                       /\ nameOp[in].op = "NEW" /\ nameOp[in].rand = nameOp[out].rand
                       /\ nameOp[in].name = nameOp[out].name

(* The inputs of the entries T are unspent coins, or outputs of T or of    *)
(* the disconnected transactions Q.                                        *)
InputsThere(T, Q, coins) ==
  \A t \in T : \A o \in vin[t] : coins[o] # Spent \/ \E u \in T \cup Q : o \in vout[u]

NoConflicts(T) == \A t, u \in T : t # u => vin[t] \cap vin[u] = {}

RegistrationsOK(T, ns, h) == \A t \in T : \A n \in Registered(t) : Free(ns, n, h)

(* The entries T over the database db, for a block at height h, while the  *)
(* transactions Q are out of the chain and not back in the mempool yet.    *)
EntriesOK(T, Q, db, h) ==
  /\ T \subseteq Tx
  /\ \A t \in T : EntryOK(t)
  /\ InputsThere(T, Q, db.coins)
  /\ NoConflicts(T)
  /\ RegistrationsOK(T, db.names, h)

(* The invariant of the mempool's entries, at every point of a step.       *)
PoolInv ==
  /\ disconnectpool \in Seq(Tx)
  /\ step = "none" => pc = "idle" /\ disconnectpool = <<>> /\ ~poolFailed
  /\ ~poolFailed => EntriesOK(pool.mapTx, Range(disconnectpool), tip, Height + 1)

(* The amount a name has to lock does not change any more.                 *)
AmountSettled ==
  \A h \in BaseHeight + 1 .. MaxHeight + 1 : MinNameCoinAmount[h] = MinNameCoinAmount[BaseHeight + 1]

(* The entries of the mempool are in order in every state, also in the     *)
(* middle of a reorganisation, when what they spend may be a transaction   *)
(* of a disconnected block.                                                *)
THEOREM PoolInvHolds == AmountSettled /\ PoolSpec => []PoolInv
(* What CheckNameTransaction accepted passes what it asks whatever the     *)
(* chain is, and its registration is of a free name.                       *)
<1>EntryAccepted.
  ASSUME AmountSettled, NEW h \in BaseHeight + 1 .. MaxHeight + 1, NEW db, NEW t \in Tx,
         CheckNameTransaction(db, t, h, TRUE)
  PROVE  EntryOK(t) /\ \A n \in Registered(t) : Free(db.names, n, h)
<2> USE <1>EntryAccepted
<2>1. MinNameCoinAmount[h] = MinNameCoinAmount[BaseHeight + 1]
  BY DEF AmountSettled
<2>2. AtMostOne(NameIns(t)) /\ AtMostOne(NameOuts(t))
  BY DEF CheckNameTransaction
<2>3. CASE t \notin NamecoinTx
  BY <2>2, <2>3 DEF CheckNameTransaction, EntryOK, Registered, OpNames
<2>4. CASE t \in NamecoinTx
  <3>1. PICK out \in NameOuts(t) :
          /\ nValue[out] >= MinNameCoinAmount[h]
          /\ out \notin Malformed
          /\ \/ nameOp[out].op = "NEW" /\ NameIns(t) = {}
             \/ UpdateAllowed(db, t, out, h)
             \/ FirstUpdateAllowed(db, t, out, h, TRUE)
    BY <2>4 DEF CheckNameTransaction
  <3>2. \/ nameOp[out].op = "NEW" /\ NameIns(t) = {}
        \/ /\ nameOp[out].op = "UPDATE"
           /\ \E in \in NameIns(t) : isAnyUpdate(in) /\ nameOp[in].name = nameOp[out].name
        \/ /\ nameOp[out].op = "FIRSTUPDATE"
           /\ \E in \in NameIns(t) :
                /\ nameOp[in].op = "NEW" /\ nameOp[in].rand = nameOp[out].rand
                /\ nameOp[in].name = nameOp[out].name
    BY <3>1 DEF UpdateAllowed, FirstUpdateAllowed
  <3>3. nValue[out] >= MinNameCoinAmount[BaseHeight + 1]
    BY <2>1, <3>1
  <3>4. EntryOK(t)
    BY <2>2, <2>4, <3>1, <3>2, <3>3 DEF EntryOK
  <3>5. ASSUME NEW n \in Registered(t) PROVE Free(db.names, n, h)
    <4>1. PICK o \in vout[t] : nameOp[o].op = "FIRSTUPDATE" /\ nameOp[o].name = n
      BY DEF Registered, OpNames
    <4>2. o = out
      BY <2>2, <4>1 DEF NameOuts, isNameOp, AtMostOne
    <4>3. FirstUpdateAllowed(db, t, out, h, TRUE)
      BY <3>1, <4>1, <4>2 DEF UpdateAllowed
    <4> QED BY <4>1, <4>2, <4>3 DEF FirstUpdateAllowed, Free, GetName
  <3> QED BY <3>4, <3>5
<2> QED BY <2>3, <2>4
(* removeRecursive takes the entries of S, and with a transaction of S or  *)
(* one it takes, the entries that spend its outputs.                       *)
<1>DescendantsClosed.
  ASSUME NEW p, NEW S
  PROVE  /\ S \cap p.mapTx \subseteq WithDescendants(p, S)
         /\ \A t \in S \cup WithDescendants(p, S), u \in p.mapTx :
              vin[u] \cap vout[t] # {} => u \in WithDescendants(p, S)
<2> USE <1>DescendantsClosed
<2> DEFINE closed == {D \in SUBSET p.mapTx : S \cap p.mapTx \subseteq D /\ Children(p, S \cup D) \subseteq D}
           W == {u \in p.mapTx : \A D \in closed : u \in D}
<2>1. W = WithDescendants(p, S)
  BY DEF WithDescendants
<2>2. S \cap p.mapTx \subseteq W
  OBVIOUS
<2>3. ASSUME NEW t \in S \cup W, NEW u \in p.mapTx, vin[u] \cap vout[t] # {} PROVE u \in W
  <3>1. SUFFICES ASSUME NEW D \in closed PROVE u \in D
    OBVIOUS
  <3>2. t \in S \cup D /\ Children(p, S \cup D) \subseteq D
    OBVIOUS
  <3>3. u \in Children(p, S \cup D)
    BY <2>3, <3>2 DEF Children
  <3> QED BY <3>2, <3>3
<2> HIDE DEF W
<2> QED BY <2>1, <2>2, <2>3
(* Removing transactions with their descendants leaves no entry without    *)
(* inputs, also if some of them were still to come back.                   *)
<1>DropEntries.
  ASSUME NEW p, NEW S, NEW Q, NEW Q1, NEW db, NEW h,
         EntriesOK(p.mapTx, Q, db, h), Q \ S \subseteq Q1
  PROVE  EntriesOK(remove(p, WithDescendants(p, S)).mapTx, Q1, db, h)
<2> USE <1>DropEntries
<2> DEFINE W == WithDescendants(p, S)
           T == p.mapTx \ W
<2>1. remove(p, W).mapTx = T
  BY DEF remove
<2>2. /\ S \cap p.mapTx \subseteq W
      /\ \A t \in S \cup W, u \in p.mapTx : vin[u] \cap vout[t] # {} => u \in W
  BY <1>DescendantsClosed
<2> HIDE DEF W
<2>3. ASSUME NEW t \in T, NEW o \in vin[t], db.coins[o] = Spent
      PROVE  \E u \in T \cup Q1 : o \in vout[u]
  <3>1. PICK u \in p.mapTx \cup Q : o \in vout[u]
    BY <2>3 DEF EntriesOK, InputsThere
  <3>2. u \notin S \cup W
    BY <2>2, <3>1
  <3>3. u \in T \cup Q1
    BY <3>1, <3>2
  <3> QED BY <3>1, <3>3
<2>4. InputsThere(T, Q1, db.coins)
  BY <2>3 DEF InputsThere
<2>5. EntriesOK(T, Q1, db, h)
  BY <2>4 DEF EntriesOK, NoConflicts, RegistrationsOK
<2> QED BY <2>1, <2>5 DEF W
(* What PreChecks accepts goes well with what FinalizeSubpackage leaves of *)
(* the mempool; it may be one of those that were to come back.             *)
<1>AddEntry.
  ASSUME IInv, AmountSettled, NEW p, NEW t \in Tx, NEW Q, NEW Q1, Q \ {t} \subseteq Q1,
         EntriesOK(p.mapTx, Q, tip, Height + 1), PreChecks(p, t)
  PROVE  EntriesOK(Accepted(p, t).mapTx, Q1, tip, Height + 1)
<2> USE <1>AddEntry
<2> DEFINE S == SpendConflicts(p, t)
           W == WithDescendants(p, S)
           R == remove(p, W).mapTx
           T == R \cup {t}
           h == Height + 1
<2>0. R = p.mapTx \ W /\ Accepted(p, t).mapTx = T
  BY DEF Accepted, addUnchecked, remove
<2>1. EntriesOK(R, Q, tip, h)
  BY <1>DropEntries
<2>2. EntryOK(t) /\ \A n \in Registered(t) : Free(tip.names, n, h)
  <3>1. h \in BaseHeight + 1 .. MaxHeight + 1
    BY IInvFacts, ParamsAssumption, SMT
  <3>2. CheckNameTransaction(PoolView(p), t, h, TRUE) /\ PoolView(p).names = tip.names
    BY DEF PreChecks, PoolView
  <3> HIDE DEF h
  <3> QED BY <3>1, <3>2, <1>EntryAccepted
<2>3. S \cap p.mapTx \subseteq W
  BY <1>DescendantsClosed
<2>4. ASSUME NEW u \in R PROVE vin[u] \cap vin[t] = {}
  BY <2>0, <2>3 DEF SpendConflicts
<2>5. ASSUME NEW o \in vin[t], tip.coins[o] = Spent
      PROVE  \E u \in T \cup Q1 : o \in vout[u]
  <3>1. PoolView(p).coins[o] # Spent /\ o \in OutPoint
    BY CatalogueAssumption DEF PreChecks, CheckNameTransaction
  <3>2. PICK u \in p.mapTx : o \in vout[u]
    BY <2>5, <3>1 DEF PoolView, PoolCoins
  <3>3. u \notin W
    BY <3>2 DEF PreChecks
  <3> QED BY <2>0, <3>2, <3>3
<2> HIDE DEF R, W, h, S
<2>6. ASSUME NEW u \in R, NEW o \in vin[u], tip.coins[o] = Spent
      PROVE  \E w \in T \cup Q1 : o \in vout[w]
  <3>1. PICK w \in R \cup Q : o \in vout[w]
    BY <2>1, <2>6 DEF EntriesOK, InputsThere
  <3> QED BY <3>1
<2>7. InputsThere(T, Q1, tip.coins)
  BY <2>5, <2>6 DEF InputsThere
<2>8. NoConflicts(T)
  BY <2>1, <2>4 DEF EntriesOK, NoConflicts
<2>9. RegistrationsOK(T, tip.names, h)
  BY <2>1, <2>2 DEF EntriesOK, RegistrationsOK
<2>10. EntriesOK(T, Q1, tip, h)
  BY <2>1, <2>2, <2>7, <2>8, <2>9 DEF EntriesOK
<2> QED BY <2>0, <2>10 DEF h
(* A name that has expired at one height has expired at the next.          *)
<1>FreeStaysFree.
  ASSUME NEW ns \in NamesType, NEW n \in Name, NEW h \in 1 .. MaxHeight, Free(ns, n, h)
  PROVE  Free(ns, n, h + 1)
<2> USE <1>FreeStaysFree
<2>1. SUFFICES ASSUME ns.data[n] # NoData PROVE isExpired(ns.data[n].height, h + 1)
  BY DEF Free
<2>2. ns.data[n].height \in 1 .. MaxHeight
  BY <2>1 DEF NamesType, NameData
<2>3. h + 1 \in 1 .. MaxHeight + 1 /\ h + 1 - 1 = h
  BY ParamsAssumption, SMT
<2>4. isExpired(ns.data[n].height, h)
  BY <2>1 DEF Free
<2> QED BY <2>2, <2>3, <2>4, ExpireRangeExact, SMT
(* removeForBlock: what stays in the mempool fits the block's view.        *)
<1>BlockEntries.
  ASSUME NEW p, MapsOK(p), NEW Q, NEW Q1, NEW b, NEW h \in 1 .. MaxHeight,
         Before(b).names \in NamesType, TxsOf(b) \subseteq Tx, Traced(b, h),
         EntriesOK(p.mapTx, Q, Before(b), h), Q \ TxsOf(b) \subseteq Q1
  PROVE  EntriesOK(removeForBlock(p, TxsOf(b)).mapTx, Q1, Applied(b), h + 1)
<2> USE <1>BlockEntries
<2> DEFINE txs == TxsOf(b)
           rest == remove(p, p.mapTx \cap txs)
           B == BlockConflicts(p, txs)
           W == WithDescendants(rest, B)
           T == rest.mapTx \ W
<2>1. rest.mapTx = p.mapTx \ txs /\ removeForBlock(p, txs).mapTx = T
  BY DEF removeForBlock, remove
<2>2. /\ B \cap rest.mapTx \subseteq W
      /\ \A t \in B \cup W, u \in rest.mapTx : vin[u] \cap vout[t] # {} => u \in W
  BY <1>DescendantsClosed
<2> HIDE DEF W, rest
<2>3. ASSUME NEW t \in T PROVE t \in p.mapTx /\ t \notin txs /\ t \notin B /\ t \in Tx
  BY <2>1, <2>2 DEF MapsOK
<2>4. ASSUME NEW t \in T, NEW u \in txs PROVE vin[t] \cap vin[u] = {}
  BY <2>3 DEF BlockConflicts
<2>5. ASSUME NEW t \in T, NEW o \in vin[t], Applied(b).coins[o] = Spent
      PROVE  \E u \in T \cup Q1 : o \in vout[u]
  <3>1. o \in OutPoint /\ ~ \E u \in txs : o \in vin[u]
    BY <2>3, <2>4, CatalogueAssumption
  <3>2. Before(b).coins[o] = Spent /\ ~ \E u \in txs : o \in vout[u]
    BY <2>5, <3>1 DEF Traced
  <3>3. PICK u \in p.mapTx \cup Q : o \in vout[u]
    BY <2>3, <3>2 DEF EntriesOK, InputsThere
  <3>4. u \notin txs
    BY <3>2, <3>3
  <3>5. u \in p.mapTx => u \in T
    BY <2>1, <2>2, <3>3, <3>4
  <3> QED BY <3>3, <3>4, <3>5
<2>6. InputsThere(T, Q1, Applied(b).coins)
  BY <2>5 DEF InputsThere
<2>7. ASSUME NEW t \in T, NEW n \in Registered(t) PROVE Free(Applied(b).names, n, h + 1)
  <3>1. n \in Name /\ Free(Before(b).names, n, h)
    BY <2>3, KeysType DEF EntriesOK, RegistrationsOK
  <3>2. p.mapNameRegs[n] = t
    BY <2>3, <3>1 DEF MapsOK
  <3>3. ~ \E u \in txs : n \in Registered(u)
    BY <2>3, <3>2 DEF BlockConflicts
  <3>4. Applied(b).names.data[n] = Before(b).names.data[n]
    BY <3>1, <3>3 DEF Traced
  <3>5. Free(Before(b).names, n, h + 1)
    BY <3>1, <1>FreeStaysFree
  <3> QED BY <3>4, <3>5 DEF Free
<2>8. EntriesOK(T, Q1, Applied(b), h + 1)
  <3>1. T \subseteq p.mapTx
    BY <2>3
  <3> HIDE DEF T
  <3> QED BY <2>6, <2>7, <3>1 DEF EntriesOK, NoConflicts, RegistrationsOK
<2> QED BY <2>1, <2>8
(* Of the entries that pass, only an update of its name spends a name's    *)
(* coin.                                                                   *)
<1>SpenderUpdates.
  ASSUME NEW t \in Tx, EntryOK(t), NEW o \in vin[t], isAnyUpdate(o)
  PROVE  nameOp[o].name \in Updated(t)
<2> USE <1>SpenderUpdates
<2>1. o \in NameIns(t) /\ nameOp[o].op # "NEW"
  BY DEF NameIns, isAnyUpdate, isNameOp
<2>2. \A in \in NameIns(t) : in = o
  BY <2>1 DEF EntryOK, AtMostOne
<2>3. t \in NamecoinTx
  BY <2>1 DEF EntryOK
<2>4. PICK out \in NameOuts(t) : nameOp[out].op = "UPDATE" /\ nameOp[o].name = nameOp[out].name
  BY <2>1, <2>2, <2>3 DEF EntryOK
<2> QED BY <2>3, <2>4 DEF Updated, OpNames, NameOuts
(* removeExpireConflicts: what stays in the mempool fits the coins that    *)
(* ExpireNames leaves.                                                     *)
<1>ExpireEntries.
  ASSUME NEW p, MapsOK(p), NEW Q, NEW db \in DBType, NEW h, NEW k, NEW l, CoinsMatchNames(db, l),
         EntriesOK(p.mapTx, Q, db, h),
         \A n \in ExpiringNames(db.names, k) : db.names.data[n] # NoData
  PROVE  EntriesOK(removeExpireConflicts(p, ExpiringNames(db.names, k)).mapTx, Q,
                   [coins |-> ExpireCoins(db, k), names |-> db.names], h)
<2> USE <1>ExpireEntries
<2> DEFINE E == ExpiringNames(db.names, k)
           S == UNION {p.updates[n] : n \in E}
           T == remove(p, WithDescendants(p, S)).mapTx
           new == [coins |-> ExpireCoins(db, k), names |-> db.names]
<2>0. removeExpireConflicts(p, E).mapTx = T
  BY DEF removeExpireConflicts
<2>1. EntriesOK(T, Q, db, h)
  BY <1>DropEntries
<2>2. T = p.mapTx \ WithDescendants(p, S) /\ S \cap p.mapTx \subseteq WithDescendants(p, S)
  BY <1>DescendantsClosed DEF remove
<2>3. E \subseteq Name
  BY DEF ExpiringNames
<2> HIDE DEF T, E
<2>4. ASSUME NEW t \in T, NEW n \in E PROVE n \notin Updated(t)
  <3>1. t \in p.mapTx /\ t \notin S
    BY <2>2
  <3>2. t \notin p.updates[n]
    BY <3>1
  <3> QED BY <2>3, <3>1, <3>2, SMT DEF MapsOK
<2>5. ASSUME NEW t \in T, NEW o \in vin[t], db.coins[o] # Spent
      PROVE  new.coins[o] # Spent
  <3>1. t \in Tx /\ o \in OutPoint /\ EntryOK(t)
    BY <2>1, CatalogueAssumption DEF EntriesOK
  <3>2. ASSUME NEW n \in E, o = GetName(db.names, n).out PROVE FALSE
    <4>1. isAnyUpdate(o) /\ nameOp[o].name = n
      BY <2>3, <3>2 DEF CoinsMatchNames, GetName, E
    <4> QED BY <2>4, <3>1, <4>1, <1>SpenderUpdates
  <3>3. new.coins[o] = db.coins[o]
    BY <3>1, <3>2 DEF ExpireCoins, E
  <3> QED BY <2>5, <3>3
<2>6. InputsThere(T, Q, new.coins)
  BY <2>1, <2>5 DEF EntriesOK, InputsThere
<2>7. EntriesOK(T, Q, new, h)
  BY <2>1, <2>6 DEF EntriesOK
<2> QED BY <2>0, <2>7 DEF E
(* removeUnexpireConflicts: what stays in the mempool fits the state       *)
(* before the block, with the block's transactions waiting to come back.   *)
<1>UnblockEntries.
  ASSUME NEW p, MapsOK(p), NEW Q, NEW Q1, NEW b, NEW h \in Nat, h < MaxHeight,
         Applied(b) \in DBType, IndexOK(Applied(b).names), Traced(b, h + 1),
         b.vexpired = ExpireUndo(Applied(b), h + 2), Q \cup TxsOf(b) \subseteq Q1,
         NEW db, db = [coins |-> ExpireCoins(Applied(b), h + 2), names |-> Applied(b).names],
         EntriesOK(p.mapTx, Q, db, h + 2)
  PROVE  EntriesOK(removeUnexpireConflicts(p, {c.name : c \in b.vexpired}).mapTx, Q1, Before(b), h + 1)
<2> USE <1>UnblockEntries
<2> DEFINE U == {c.name : c \in b.vexpired}
           S == {p.mapNameRegs[n] : n \in U} \ {NoTx}
           T == remove(p, WithDescendants(p, S)).mapTx
<2>0. removeUnexpireConflicts(p, U).mapTx = T
  BY DEF removeUnexpireConflicts
<2>1. EntriesOK(T, Q, db, h + 2)
  BY <1>DropEntries
<2>2. T = p.mapTx \ WithDescendants(p, S) /\ S \cap p.mapTx \subseteq WithDescendants(p, S)
  BY <1>DescendantsClosed DEF remove
<2>3. U = ExpiringNames(Applied(b).names, h + 2)
  <3> DEFINE E == ExpiringNames(Applied(b).names, h + 2)
             Coin(n) == [name |-> n, height |-> Applied(b).coins[GetName(Applied(b).names, n).out]]
  <3>1. b.vexpired = {Coin(n) : n \in E}
    BY DEF ExpireUndo
  <3>2. \A n : Coin(n).name = n
    OBVIOUS
  <3> HIDE DEF E, Coin
  <3>3. U = E
    BY <3>1, <3>2, SMT
  <3> QED BY <3>3 DEF E
<2> HIDE DEF T, U
<2>4. ASSUME NEW t \in T, NEW o \in vin[t], Before(b).coins[o] = Spent
      PROVE  \E u \in T \cup Q1 : o \in vout[u]
  <3>1. t \in Tx /\ o \in OutPoint
    BY <2>1, CatalogueAssumption DEF EntriesOK
  <3>2. CASE db.coins[o] # Spent
    <4>1. Applied(b).coins[o] # Spent
      BY <3>1, <3>2 DEF ExpireCoins
    <4>2. PICK u \in TxsOf(b) : o \in vout[u]
      BY <2>4, <3>1, <4>1 DEF Traced
    <4> QED BY <4>2
  <3>3. CASE db.coins[o] = Spent
    BY <2>1, <3>3 DEF EntriesOK, InputsThere
  <3> QED BY <3>2, <3>3
<2>5. InputsThere(T, Q1, Before(b).coins)
  BY <2>4 DEF InputsThere
<2>6. ASSUME NEW t \in T, NEW n \in Registered(t) PROVE Free(Before(b).names, n, h + 1)
  <3>1. t \in Tx /\ n \in Name /\ t \in p.mapTx
    BY <2>1, <2>2, KeysType DEF EntriesOK
  <3>2. p.mapNameRegs[n] = t /\ t # NoTx
    BY <3>1, OrderAssumption DEF MapsOK
  <3>3. n \notin U
    BY <2>2, <3>1, <3>2
  <3> DEFINE data == Applied(b).names.data[n]
  <3>4. data = NoData \/ isExpired(data.height, h + 2)
    BY <2>1 DEF EntriesOK, RegistrationsOK, Free
  <3>5. data = NoData \/ isExpired(data.height, h + 1)
    BY <2>3, <3>1, <3>3, <3>4, ExpiringNamesExact
  <3>6. ~isExpired(h + 1, h + 1)
    <4>1. h + 1 \in 1 .. MaxHeight
      BY ParamsAssumption, SMT
    <4> QED BY <4>1, NewNotExpired
  <3>7. data = Before(b).names.data[n]
    BY <3>1, <3>5, <3>6 DEF Traced
  <3> QED BY <3>5, <3>7 DEF Free
<2>7. EntriesOK(T, Q1, Before(b), h + 1)
  BY <2>1, <2>5, <2>6 DEF EntriesOK, RegistrationsOK
<2> QED BY <2>0, <2>7 DEF U
(* The mempool is set to new, or an assertion has failed.                  *)
<1>SetPoolIs.
  ASSUME NEW new, NEW asserts, SetPool(new, asserts)
  PROVE  pool' = new \/ poolFailed'
BY <1>SetPoolIs DEF SetPool
(* ConnectTip keeps the entries in order.                                  *)
<1>ConnectEndEntries.
  ASSUME IInv, IInv', ChainTraced, MapsOK(pool), PoolInv, StepConnectEnd, ~poolFailed'
  PROVE  EntriesOK(pool'.mapTx, Range(disconnectpool'), tip', Height' + 1)
<2> USE <1>ConnectEndEntries
<2> DEFINE txs == TxsOf(block)
           expired == ExpiringNames(view.names, Height + 2)
           kept == removeForBlock(pool, txs)
           Q == Range(disconnectpool)
           Q1 == Range(Unmined(disconnectpool, txs))
<2>0. /\ ~failed' /\ ~poolFailed /\ disconnectpool \in Seq(Tx)
      /\ EntriesOK(pool.mapTx, Q, tip, Height + 1) /\ chain \in Seq(BlockType) /\ Height \in Nat
  BY IInvFacts DEF IInv, TypeOK, PoolInv, StepConnectEnd
<2>1. /\ pc = "connect"
      /\ tip' = [coins |-> ExpireCoins(view, Height + 2), names |-> view.names]
      /\ \E b : chain' = Append(chain, b)
  BY <2>0 DEF StepConnectEnd, ConnectEnd, Fail
<2>2. /\ SetPool(removeExpireConflicts(kept, expired), ExpireConflictsAsserts(kept, expired))
      /\ disconnectpool' = Unmined(disconnectpool, txs)
  BY DEF StepConnectEnd
<2>3. pool' = removeExpireConflicts(kept, expired)
  BY <2>2, <1>SetPoolIs
<2>4. Height' = Height + 1
  <3>1. Len(chain') = Len(chain) + 1
    BY <2>0, <2>1, SMT
  <3> QED BY <3>1, IInvFacts, SMT DEF Height
<2>5. /\ block \in BlockType /\ Before(block) = tip /\ Applied(block) = view /\ Height < MaxHeight
      /\ DBOK(view, Connected(Len(chain)) \cup txs, Height, Height + 1)
      /\ tip \in DBType /\ view \in DBType /\ Traced(block, Height + 1)
  BY <2>1 DEF IInv, TypeOK, ChainTraced
<2>6. Q \ txs \subseteq Q1
  BY <2>0, UnminedFacts
<2>7. MapsOK(kept)
  <3> DEFINE rest == remove(pool, pool.mapTx \cap txs)
  <3>1. MapsOK(rest)
    BY RemoveMaps
  <3> HIDE DEF rest
  <3>2. MapsOK(remove(rest, WithDescendants(rest, BlockConflicts(pool, txs))))
    BY <3>1, DescendantsInPool, RemoveMaps
  <3> QED BY <3>2 DEF removeForBlock, rest
<2>8. EntriesOK(kept.mapTx, Q1, view, Height + 1 + 1)
  <3>1. Height + 1 \in 1 .. MaxHeight
    BY <2>0, <2>5, ParamsAssumption, SMT
  <3>2. Before(block).names \in NamesType /\ txs \subseteq Tx
    BY <2>5, BlockTxs DEF DBType
  <3>3. EntriesOK(pool.mapTx, Q, Before(block), Height + 1)
    BY <2>0, <2>5
  <3> HIDE DEF Q, Q1
  <3>4. EntriesOK(kept.mapTx, Q1, Applied(block), Height + 1 + 1)
    BY <2>5, <2>6, <3>1, <3>2, <3>3, <1>BlockEntries
  <3> QED BY <2>5, <3>4
<2>9. \A n \in expired : view.names.data[n] # NoData
  <3>1. IndexOK(view.names) /\ expired \subseteq Name
    BY <2>5 DEF DBOK, ExpiringNames
  <3> QED BY <2>0, <2>5, <3>1, ExpiringNamesExact
<2>10. CoinsMatchNames(view, Height)
  BY <2>5 DEF DBOK
<2> HIDE DEF kept, Q, Q1
<2>11. EntriesOK(removeExpireConflicts(kept, expired).mapTx, Q1,
                 [coins |-> ExpireCoins(view, Height + 2), names |-> view.names], Height + 1 + 1)
  BY <2>5, <2>7, <2>8, <2>9, <2>10, <1>ExpireEntries
<2>12. Q1 = Range(disconnectpool') /\ Height' + 1 = Height + 1 + 1
  BY <2>0, <2>2, <2>4 DEF Q1
<2> QED BY <2>1, <2>3, <2>11, <2>12
(* DisconnectTip keeps the entries in order.                               *)
<1>DisconnectEndEntries.
  ASSUME IInv, ChainTraced, MapsOK(pool), PoolInv, StepDisconnectEnd, ~poolFailed'
  PROVE  EntriesOK(pool'.mapTx, Range(disconnectpool'), tip', Height' + 1)
<2> USE <1>DisconnectEndEntries
<2>0. PICK L \in Nat : L = Len(chain)
  BY IInvFacts
<2> DEFINE b == chain[L]
           queue == AddTransactionsFromBlock(disconnectpool, b.vtx)
           unexpired == {c.name : c \in b.vexpired}
           kept == removeUnexpireConflicts(pool, unexpired)
           Q == Range(disconnectpool)
<2>1. /\ ~poolFailed /\ disconnectpool \in Seq(Tx) /\ EntriesOK(pool.mapTx, Q, tip, Height + 1)
      /\ chain \in Seq(BlockType) /\ ChainOK
  BY DEF IInv, TypeOK, PoolInv, StepDisconnectEnd
<2>2. PICK k \in 0 .. Len(queue) :
        /\ disconnectpool' = SubSeq(queue, k + 1, Len(queue))
        /\ SetPool(remove(kept, WithDescendants(kept, Range(SubSeq(queue, 1, k)))), QueueAsserts(queue))
  BY <2>0 DEF StepDisconnectEnd
<2>3. /\ pc = "undo coins" /\ block.vtx = <<>> /\ block.vnameundo = <<>>
      /\ tip' = view /\ chain' = SubSeq(chain, 1, L - 1)
  BY <2>0 DEF StepDisconnectEnd, DisconnectEnd
<2>4. tip' = Before(b)
  BY <2>0, <2>3, UndoneIsBefore
<2>5. L >= 1 /\ L \in 1 .. L /\ L - 1 \in 0 .. L
  <3>1. chain # <<>>
    BY <2>3, UndoFacts
  <3> QED BY <2>0, <2>1, <3>1, SMT
<2>6. PICK h \in Nat : /\ h < MaxHeight /\ h + 1 = Height /\ h + 2 = Height + 1 /\ Height' + 1 = h + 1
                       /\ BaseHeight + L = h + 1
  <3>1. /\ Height = BaseHeight + L /\ Height \in Nat /\ Height <= MaxHeight /\ BaseHeight \in Nat
        /\ BaseHeight >= 1
    BY <2>0, IInvFacts
  <3>2. Len(chain') = L - 1
    BY <2>0, <2>1, <2>3, <2>5, FrontFacts
  <3>3. Height' = BaseHeight + (L - 1)
    BY <3>2 DEF Height
  <3>4. /\ Height - 1 \in Nat /\ Height - 1 < MaxHeight /\ (Height - 1) + 1 = Height
        /\ (Height - 1) + 2 = Height + 1 /\ Height' + 1 = (Height - 1) + 1
        /\ BaseHeight + L = (Height - 1) + 1
    BY <2>5, <3>1, <3>3, ParamsAssumption, SMT
  <3> QED BY <3>4
<2>7. /\ BlockOK(b, Height) /\ DBOK(Applied(b), Connected(L), h, h + 1)
      /\ b.vexpired = ExpireUndo(Applied(b), h + 2)
      /\ tip = [coins |-> ExpireCoins(Applied(b), h + 2), names |-> Applied(b).names]
  <3>1. ChainBlockOK(L)
    BY <2>0, <2>1, <2>5 DEF ChainOK
  <3>2. BaseHeight + L - 1 = h /\ BaseHeight + L + 1 = h + 2 /\ BaseHeight + L = Height
    BY <2>5, <2>6, BaseAssumption, SMT
  <3>3. After(L) = tip
    BY <2>0 DEF After
  <3> QED BY <2>6, <3>1, <3>2, <3>3, SMT DEF ChainBlockOK
<2>8. b \in BlockType /\ b.vtx \in Seq(Tx) /\ TxsOf(b) = {b.vtx[i] : i \in 1 .. Len(b.vtx)}
  <3>1. b \in BlockType
    BY <2>0, <2>1, <2>5, SMT
  <3> HIDE DEF b
  <3> QED BY <3>1, BlockTxs DEF TxsOf
<2>9. Applied(b) \in DBType /\ IndexOK(Applied(b).names)
  <3> HIDE DEF b
  <3> QED BY <2>7, <2>8, BlockEnds DEF DBOK
<2>10. Traced(b, h + 1)
  BY <2>0, <2>5, <2>6 DEF ChainTraced
<2> HIDE DEF b
<2>11. queue \in Seq(Tx) /\ Q \cup TxsOf(b) \subseteq Range(queue)
  <3>1. disconnectpool \in Seq(Tx) /\ b.vtx \in Seq(Tx)
    BY <2>1, <2>8
  <3>2. queue \in Seq(Tx) /\ Range(queue) = Q \cup {b.vtx[i] : i \in 1 .. Len(b.vtx)}
    BY <3>1, AddedQueue
  <3> QED BY <2>8, <3>2
<2> HIDE DEF queue, Q
<2>12. EntriesOK(kept.mapTx, Range(queue), Before(b), h + 1)
  <3>1. EntriesOK(pool.mapTx, Q, tip, h + 2)
    BY <2>1, <2>6
  <3> QED BY <2>6, <2>7, <2>9, <2>10, <2>11, <3>1, <1>UnblockEntries
<2> HIDE DEF kept
<2>13. Range(queue) \ Range(SubSeq(queue, 1, k)) \subseteq Range(disconnectpool')
  BY <2>2, <2>11, SplitRange
<2>14. EntriesOK(remove(kept, WithDescendants(kept, Range(SubSeq(queue, 1, k)))).mapTx,
                 Range(disconnectpool'), Before(b), h + 1)
  BY <2>12, <2>13, <1>DropEntries
<2>15. pool' = remove(kept, WithDescendants(kept, Range(SubSeq(queue, 1, k))))
  BY <2>2, <1>SetPoolIs
<2> QED BY <2>4, <2>6, <2>14, <2>15
(* Every step keeps the entries in order, at any point of a                *)
(* reorganisation.                                                         *)
<1>PoolInvStep.
  ASSUME AmountSettled, IInv, IInv', OnceInv, QueueOK, ChainTraced, MapsOK(pool), PoolInv,
         [PoolNext]_allVars
  PROVE  PoolInv'
<2> USE <1>PoolInvStep
<2> DEFINE Ok == EntriesOK(pool.mapTx, Range(disconnectpool), tip, Height + 1)
           Frame == UNCHANGED <<tip, chain>>
<2>0. disconnectpool \in Seq(Tx) /\ (~poolFailed => Ok)
  BY DEF PoolInv
<2>1. ASSUME Frame PROVE tip' = tip /\ chain' = chain /\ Height' = Height
  BY <2>1 DEF Height
<2>2. ASSUME Frame, UNCHANGED <<pool, disconnectpool>>, ~poolFailed PROVE Ok'
  <3>1. /\ tip' = tip /\ Height' = Height /\ pool' = pool /\ disconnectpool' = disconnectpool /\ Ok
    BY <2>0, <2>1, <2>2
  <3> QED BY <3>1
<2>3. ASSUME NEW t \in Tx, AcceptToMemoryPool(t) PROVE PoolInv'
  <3>1. /\ step = "none" /\ ~poolFailed /\ PreChecks(pool, t)
        /\ tip' = tip /\ chain' = chain /\ pc' = pc
        /\ disconnectpool' = disconnectpool /\ step' = step
    BY <2>3 DEF AcceptToMemoryPool, vars
  <3>2. PICK victims : SetPool(LimitMempoolSize(Accepted(pool, t), victims), AcceptAsserts(pool, t))
    BY <2>3 DEF AcceptToMemoryPool
  <3>3. ~poolFailed'
    <4>1. ~StepConnectEnd
      BY <3>1 DEF PoolInv, StepConnectEnd, ConnectEnd
    <4> QED BY <3>1, <4>1, PoolStep
  <3>4. pool' = LimitMempoolSize(Accepted(pool, t), victims)
    BY <3>2, <3>3, <1>SetPoolIs
  <3> DEFINE Q == Range(disconnectpool)
             p == Accepted(pool, t)
  <3>5. EntriesOK(p.mapTx, Q, tip, Height + 1)
    BY <2>0, <3>1, <1>AddEntry
  <3> HIDE DEF Q, p
  <3>6. EntriesOK(remove(p, WithDescendants(p, victims)).mapTx, Q, tip, Height + 1)
    BY <3>5, <1>DropEntries
  <3>7. EntriesOK(pool'.mapTx, Q, tip, Height + 1)
    BY <3>4, <3>6 DEF LimitMempoolSize, p
  <3>8. Ok'
    BY <2>1, <3>1, <3>7 DEF Q
  <3>9. pc = "idle" /\ disconnectpool = <<>>
    BY <3>1 DEF PoolInv
  <3> HIDE DEF Ok
  <3> QED BY <2>0, <3>1, <3>3, <3>8, <3>9 DEF PoolInv, Ok
<2>4. CASE StepDisconnectBegin \/ StepConnectBegin \/ StepConnectInvalid \/ StepInside
  <3>1. /\ UNCHANGED <<pool, disconnectpool, poolFailed>> /\ ~poolFailed
    BY <2>4 DEF StepDisconnectBegin, StepConnectBegin, StepConnectInvalid, StepInside, poolVars
  <3>2. ~failed' /\ ~failed
    BY DEF IInv
  <3>3. Frame
    BY <2>4, <3>2 DEF StepDisconnectBegin, StepConnectBegin, StepConnectInvalid, StepInside,
       DisconnectBegin, ConnectBegin, ConnectInvalid, ConnectTx, DisconnectTx, DisconnectName, Fail
  <3>4. step' # "none"
    <4>1. CASE StepDisconnectBegin \/ StepConnectBegin \/ StepConnectInvalid
      BY <4>1 DEF StepDisconnectBegin, StepConnectBegin, StepConnectInvalid
    <4>2. CASE StepInside
      <5>1. pc # "idle" /\ step' = step
        BY <4>2 DEF StepInside, ConnectTx, DisconnectTx, DisconnectName, poolVars
      <5> QED BY <5>1 DEF PoolInv
    <4> QED BY <2>4, <4>1, <4>2
  <3>5. Ok'
    BY <2>2, <3>1, <3>3
  <3> HIDE DEF Ok
  <3> QED BY <2>0, <3>1, <3>4, <3>5 DEF PoolInv, Ok
<2>5. CASE StepConnectEnd
  <3>1. pc = "connect" /\ step' = step
    BY <2>5 DEF StepConnectEnd, ConnectEnd
  <3>2. step' # "none"
    BY <3>1 DEF PoolInv
  <3>3. disconnectpool' \in Seq(Tx)
    <4>1. disconnectpool' = Unmined(disconnectpool, TxsOf(block))
      BY <2>5 DEF StepConnectEnd
    <4> QED BY <2>0, <4>1, UnminedFacts
  <3>4. ~poolFailed' => Ok'
    BY <2>5, <1>ConnectEndEntries
  <3> HIDE DEF Ok
  <3> QED BY <3>2, <3>3, <3>4 DEF PoolInv, Ok
<2>6. CASE StepDisconnectEnd
  <3>1. pc = "undo coins" /\ step' = step
    BY <2>6 DEF StepDisconnectEnd, DisconnectEnd
  <3>2. step' # "none"
    BY <3>1 DEF PoolInv
  <3>3. disconnectpool' \in Seq(Tx)
    <4> DEFINE b == chain[Len(chain)]
               queue == AddTransactionsFromBlock(disconnectpool, b.vtx)
    <4>1. PICK k \in 0 .. Len(queue) : disconnectpool' = SubSeq(queue, k + 1, Len(queue))
      BY <2>6 DEF StepDisconnectEnd
    <4>2. b \in BlockType
      <5>1. chain # <<>> /\ chain \in Seq(BlockType)
        BY <3>1, UndoFacts
      <5>2. Len(chain) \in 1 .. Len(chain)
        BY <5>1, SMT
      <5> QED BY <5>1, <5>2, SMT
    <4> HIDE DEF b
    <4>3. queue \in Seq(Tx)
      BY <2>0, <4>2, BlockTxs, AddedQueue
    <4> HIDE DEF queue
    <4> QED BY <4>1, <4>3, SplitRange
  <3>4. ~poolFailed' => Ok'
    BY <2>6, <1>DisconnectEndEntries
  <3> HIDE DEF Ok
  <3> QED BY <3>2, <3>3, <3>4 DEF PoolInv, Ok
<2>7. CASE Resurrect
  <3>1. /\ ~poolFailed /\ disconnectpool # <<>> /\ disconnectpool' = SubSeq(disconnectpool, 1, Len(disconnectpool) - 1)
        /\ step' = "finish" /\ tip' = tip /\ chain' = chain
    BY <2>7 DEF Resurrect, vars
  <3>2. PICK t \in Tx :
          /\ t = disconnectpool[Len(disconnectpool)]
          /\ \/ PreChecks(pool, t) /\ SetPool(Accepted(pool, t), AcceptAsserts(pool, t))
             \/ SetPool(remove(pool, WithDescendants(pool, {t})), TRUE)
    BY <2>7 DEF Resurrect
  <3> DEFINE Q1 == Range(disconnectpool')
  <3>3. disconnectpool' \in Seq(Tx) /\ Range(disconnectpool) \ {t} \subseteq Q1
    BY <2>0, <3>1, <3>2, LastTaken
  <3> HIDE DEF Q1
  <3>4. ASSUME ~poolFailed', PreChecks(pool, t), SetPool(Accepted(pool, t), AcceptAsserts(pool, t))
        PROVE  EntriesOK(pool'.mapTx, Q1, tip, Height + 1)
    <4>1. pool' = Accepted(pool, t)
      BY <3>4, <1>SetPoolIs
    <4>2. EntriesOK(Accepted(pool, t).mapTx, Q1, tip, Height + 1)
      BY <2>0, <3>1, <3>3, <3>4, <1>AddEntry
    <4> QED BY <4>1, <4>2
  <3>5. ASSUME ~poolFailed', SetPool(remove(pool, WithDescendants(pool, {t})), TRUE)
        PROVE  EntriesOK(pool'.mapTx, Q1, tip, Height + 1)
    <4>1. pool' = remove(pool, WithDescendants(pool, {t}))
      BY <3>5, <1>SetPoolIs
    <4>2. EntriesOK(remove(pool, WithDescendants(pool, {t})).mapTx, Q1, tip, Height + 1)
      BY <2>0, <3>1, <3>3, <1>DropEntries
    <4> QED BY <4>1, <4>2
  <3>6. ~poolFailed' => Ok'
    BY <2>1, <3>1, <3>2, <3>4, <3>5 DEF Q1
  <3> HIDE DEF Ok
  <3> QED BY <3>1, <3>3, <3>6 DEF PoolInv, Ok
<2>8. CASE StepEnd
  <3>1. /\ ~poolFailed /\ disconnectpool = <<>> /\ disconnectpool' = disconnectpool
        /\ pc = "idle" /\ pc' = pc /\ tip' = tip /\ chain' = chain
    BY <2>8 DEF StepEnd, vars
  <3>2. PICK victims : SetPool(LimitMempoolSize(pool, victims), TRUE)
    BY <2>8 DEF StepEnd
  <3>3. ~poolFailed'
    <4>1. ~StepConnectEnd
      BY <3>1 DEF StepConnectEnd, ConnectEnd
    <4> QED BY <3>1, <4>1, PoolStep
  <3>4. pool' = remove(pool, WithDescendants(pool, victims))
    BY <3>2, <3>3, <1>SetPoolIs DEF LimitMempoolSize
  <3> DEFINE Q == Range(disconnectpool)
  <3>5. EntriesOK(pool.mapTx, Q, tip, Height + 1)
    BY <2>0, <3>1
  <3> HIDE DEF Q
  <3>6. EntriesOK(remove(pool, WithDescendants(pool, victims)).mapTx, Q, tip, Height + 1)
    BY <3>5, <1>DropEntries
  <3>7. Ok'
    BY <2>1, <3>1, <3>4, <3>6 DEF Q
  <3> HIDE DEF Ok
  <3> QED BY <2>0, <3>1, <3>3, <3>7 DEF PoolInv, Ok
<2>9. CASE UNCHANGED allVars
  <3>1. /\ tip' = tip /\ chain' = chain /\ pc' = pc /\ pool' = pool /\ step' = step
        /\ disconnectpool' = disconnectpool /\ poolFailed' = poolFailed
    BY <2>9 DEF allVars, vars, poolVars
  <3>2. ~poolFailed => Ok'
    BY <2>2, <3>1
  <3> HIDE DEF Ok
  <3> QED BY <3>1, <3>2 DEF PoolInv, Ok
<2> QED BY <2>3, <2>4, <2>5, <2>6, <2>7, <2>8, <2>9 DEF PoolNext
<1> SUFFICES ASSUME AmountSettled PROVE PoolSpec => []PoolInv
  OBVIOUS
<1>1. PoolInit => PoolInv
  <2> SUFFICES ASSUME PoolInit PROVE PoolInv
    OBVIOUS
  <2>1. disconnectpool = <<>> /\ pool.mapTx = {} /\ pc = "idle" /\ ~poolFailed
    BY DEF PoolInit, Init, EmptyPool
  <2>2. EntriesOK(pool.mapTx, Range(disconnectpool), tip, Height + 1)
    BY <2>1 DEF EntriesOK, InputsThere, NoConflicts, RegistrationsOK
  <2> QED BY <2>1, <2>2, SMT DEF PoolInv
<1>2. IInv /\ IInv' /\ OnceInv /\ QueueOK /\ ChainTraced /\ MapsOK(pool) /\ PoolInv
        /\ [PoolNext]_allVars => PoolInv'
  BY <1>PoolInvStep
<1> QED BY <1>1, <1>2, ChainInv, QueueInv, TracedInv, MapsInv, PTL DEF PoolSpec

(* Between two steps of the chain nothing is waiting to come back.         *)
LEMMA SettledEntries ==
  ASSUME PoolInv, step = "none"
  PROVE  EntriesOK(pool.mapTx, {}, tip, Height + 1)
<1>1. disconnectpool = <<>> /\ ~poolFailed
  BY DEF PoolInv
<1>2. Range(<<>>) = {}
  BY SMT DEF Range
<1> QED BY <1>1, <1>2 DEF PoolInv

(* CTxMemPool::check succeeds between any two steps of the chain, whatever *)
(* was accepted, replaced, mined, expired and disconnected before: the     *)
(* inputs of every entry are there, no two entries spend the same coin,    *)
(* and every entry passes the name checks for the next block, so that a    *)
(* pending registration is of a free name and no update is left behind by  *)
(* an expired name.  The height at which the locked amount changed must be *)
(* behind the first tip.                                                   *)
THEOREM PoolInputsAlwaysValid == AmountSettled /\ PoolSpec => []PoolInputsValid
(* And conversely: with its inputs there, CheckNameTransaction accepts it. *)
<1>EntryPasses.
  ASSUME IInv, AmountSettled, NEW p, NEW t \in Tx, EntryOK(t),
         \A o \in vin[t] : PoolView(p).coins[o] # Spent,
         \A n \in Registered(t) : Free(tip.names, n, Height + 1)
  PROVE  CheckNameTransaction(PoolView(p), t, Height + 1, TRUE)
<2> USE <1>EntryPasses
<2> DEFINE db == PoolView(p)
           h == Height + 1
<2>0. Height \in Nat /\ Height <= MaxHeight /\ Height >= BaseHeight /\ BaseHeight \in Nat
  BY IInvFacts, SMT
<2>1. MinNameCoinAmount[h] = MinNameCoinAmount[BaseHeight + 1]
  <3>1. h \in BaseHeight + 1 .. MaxHeight + 1
    BY <2>0, ParamsAssumption, SMT
  <3> HIDE DEF h
  <3> QED BY <3>1 DEF AmountSettled
<2>2. db.names = tip.names
  BY DEF PoolView
<2>3. \A o \in OutPoint : db.coins[o] = MEMPOOL_HEIGHT \/ db.coins[o] = tip.coins[o]
  BY DEF PoolView, PoolCoins
<2>4. CoinsMatchNames(tip, Height) /\ tip \in DBType
  BY DEF IInv, DBOK, TypeOK
<2> HIDE DEF db
<2>5. AtMostOne(NameIns(t)) /\ AtMostOne(NameOuts(t)) /\ \A o \in vin[t] : db.coins[o] # Spent
  BY DEF EntryOK, db
<2>6. CASE t \notin NamecoinTx
  BY <2>5, <2>6 DEF EntryOK, CheckNameTransaction, db
<2>7. CASE t \in NamecoinTx
  <3>1. PICK out \in NameOuts(t) :
          /\ nValue[out] >= MinNameCoinAmount[BaseHeight + 1]
          /\ out \notin Malformed
          /\ \/ nameOp[out].op = "NEW" /\ NameIns(t) = {}
             \/ /\ nameOp[out].op = "UPDATE"
                /\ \E in \in NameIns(t) : isAnyUpdate(in) /\ nameOp[in].name = nameOp[out].name
             \/ /\ nameOp[out].op = "FIRSTUPDATE"
                /\ \E in \in NameIns(t) :
                     /\ nameOp[in].op = "NEW" /\ nameOp[in].rand = nameOp[out].rand
                     /\ nameOp[in].name = nameOp[out].name
    BY <2>7 DEF EntryOK
  <3>2. ASSUME nameOp[out].op = "UPDATE", NEW in \in NameIns(t), isAnyUpdate(in),
               nameOp[in].name = nameOp[out].name
        PROVE  UpdateAllowed(db, t, out, h)
    <4>1. in \in vin[t] /\ in \in OutPoint /\ db.coins[in] # Spent
      BY <2>5, CatalogueAssumption DEF NameIns
    <4>2. CASE db.coins[in] = MEMPOOL_HEIGHT
      BY <3>2, <4>2 DEF UpdateAllowed
    <4>3. CASE db.coins[in] # MEMPOOL_HEIGHT
      <5>1. tip.coins[in] # Spent
        BY <2>3, <4>1, <4>3
      <5>2. /\ tip.names.data[nameOp[in].name] = [height |-> tip.coins[in], out |-> in]
            /\ ~isExpired(tip.names.data[nameOp[in].name].height, h)
        BY <2>4, <3>2, <4>1, <5>1 DEF CoinsMatchNames
      <5>3. tip.coins[in] \in CoinHeight
        BY <2>4, <4>1 DEF DBType, CoinsType
      <5>4. tip.names.data[nameOp[in].name] # NoData
        BY <4>1, <5>1, <5>2, <5>3, DataOfCoin
      <5> HIDE DEF h
      <5> QED BY <2>2, <3>2, <5>2, <5>4 DEF UpdateAllowed, GetName
    <4> QED BY <4>2, <4>3
  <3>3. ASSUME nameOp[out].op = "FIRSTUPDATE", NEW in \in NameIns(t), nameOp[in].op = "NEW",
               nameOp[in].rand = nameOp[out].rand, nameOp[in].name = nameOp[out].name
        PROVE  FirstUpdateAllowed(db, t, out, h, TRUE)
    <4>1. nameOp[out].name \in Registered(t)
      BY <2>7, <3>3 DEF Registered, OpNames, NameOuts
    <4>2. Free(tip.names, nameOp[out].name, h)
      BY <4>1
    <4> HIDE DEF h
    <4> QED BY <2>2, <3>3, <4>2 DEF FirstUpdateAllowed, GetName, Free
  <3>4. \/ nameOp[out].op = "NEW" /\ NameIns(t) = {}
        \/ UpdateAllowed(db, t, out, h)
        \/ FirstUpdateAllowed(db, t, out, h, TRUE)
    BY <3>1, <3>2, <3>3
  <3>5. nValue[out] >= MinNameCoinAmount[h]
    BY <2>1, <3>1
  <3> HIDE DEF h
  <3>6. CheckNameTransaction(db, t, h, TRUE)
    BY <2>5, <2>7, <3>1, <3>4, <3>5 DEF CheckNameTransaction
  <3> QED BY <3>6 DEF db, h
<2> QED BY <2>6, <2>7
<1> SUFFICES ASSUME AmountSettled PROVE PoolSpec => []PoolInputsValid
  OBVIOUS
<1>1. ASSUME IInv, PoolInv, step = "none" PROVE PoolInputsValid
  <2>1. EntriesOK(pool.mapTx, {}, tip, Height + 1)
    BY <1>1, SettledEntries
  <2>2. ASSUME NEW t \in pool.mapTx
        PROVE  /\ CheckNameTransaction(PoolView(pool), t, Height + 1, TRUE)
               /\ CheckNameAsserts(PoolView(pool), t, TRUE)
    <3>1. t \in Tx /\ EntryOK(t) /\ \A n \in Registered(t) : Free(tip.names, n, Height + 1)
      BY <2>1 DEF EntriesOK, RegistrationsOK
    <3>2. ASSUME NEW o \in vin[t] PROVE PoolView(pool).coins[o] # Spent
      <4>1. o \in OutPoint /\ MEMPOOL_HEIGHT # Spent
        BY <3>1, CatalogueAssumption, ParamsAssumption, SMT DEF Spent
      <4>2. tip.coins[o] # Spent \/ \E u \in pool.mapTx : o \in vout[u]
        BY <2>1 DEF EntriesOK, InputsThere
      <4> QED BY <4>1, <4>2 DEF PoolView, PoolCoins
    <3>3. CheckNameTransaction(PoolView(pool), t, Height + 1, TRUE)
      BY <1>1, <3>1, <3>2, <1>EntryPasses
    <3> QED BY <1>1, <3>1, <3>3, AcceptedNameAsserts
  <2> QED BY <2>1, <2>2 DEF PoolInputsValid, EntriesOK, NoConflicts
<1>2. IInv /\ PoolInv => PoolInputsValid
  BY <1>1 DEF PoolInputsValid
<1> QED BY <1>2, ChainInv, PoolInvHolds, PTL
=============================================================================
