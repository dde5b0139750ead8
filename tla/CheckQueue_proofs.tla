------------------------- MODULE CheckQueue_proofs --------------------------
(* CCheckQueue, for any threads, batch size and bounds: Complete returns   *)
(* what the checks of its control gave, no more and no less.               *)
EXTENDS CheckQueue, FiniteSetTheorems, TLAPS

(* Most leaves are first-order, so Zenon is the default prover; a leaf that  *)
(* needs arithmetic, records or function application says SMT.              *)
USE Zenon

Place == {"idle", "adding", "notify_one", "notify_all", "loop", "locked", "waiting", "woken", "execute", "exited"}

QueueType ==
  /\ queue \in Seq(Outcome) /\ added \in Seq(Outcome) /\ m_result \in Outcome
  /\ pc \in [Thread -> Place]
  /\ vChecks \in [Thread -> Seq(Outcome)]
  /\ local_result \in [Thread -> Outcome] /\ do_work \in [Thread -> BOOLEAN]
  /\ control \in Master \cup {nullopt}

(* The checks in the hands of the threads, the threads that sleep in Loop, *)
(* and those that have been counted in it.                                 *)
Held == {p \in Thread \X Nat : p[2] \in 1..Len(vChecks[p[1]])}
Idle == {t \in Thread : pc[t] \in {"waiting", "woken"}}
InLoop == {t \in Thread : \/ pc[t] \in {"locked", "waiting", "woken", "execute", "exited"}
                          \/ pc[t] = "loop" /\ vChecks[t] # <<>>}

(* nTodo, nIdle and nTotal are what they are meant to count.               *)
TodoCount == IsFiniteSet(Held) /\ nTodo = Len(queue) + Cardinality(Held)
IdleCount == IsFiniteSet(Idle) /\ nIdle = Cardinality(Idle)
TotalCount == IsFiniteSet(InLoop) /\ nTotal = Cardinality(InLoop)

(* A batch is with a thread from when it is taken until it is accounted    *)
(* for; it has been run, unless an error was known before.                 *)
BatchOK(t) ==
  /\ vChecks[t] # <<>> => pc[t] \in {"execute", "loop"}
  /\ pc[t] = "execute" => vChecks[t] # <<>> /\ (do_work[t] \/ m_result # nullopt)
  /\ pc[t] = "loop" /\ vChecks[t] # <<>> => m_result # nullopt \/ local_result[t] = Run(vChecks[t])

(* Only the holder of m_control_mutex is at work; without one there is     *)
(* nothing to do and no result.                                            *)
OneControl ==
  /\ \A t \in Master : pc[t] # "idle" => control = t
  /\ control = nullopt => m_result = nullopt /\ nTodo = 0

(* The checks that are not accounted for.                                  *)
Pending == Range(queue) \cup UNION {Range(vChecks[t]) : t \in Thread}

(* An error of this control is the result, or it is pending.               *)
ErrorsKept ==
  /\ Pending \subseteq Range(added)
  /\ m_result # nullopt => m_result \in Range(added)
  /\ control # nullopt /\ m_result = nullopt => Range(added) \ {nullopt} \subseteq Pending

CheckInv ==
  /\ QueueType /\ TodoCount /\ IdleCount /\ TotalCount
  /\ \A t \in Thread : BatchOK(t)
  /\ OneControl /\ ErrorsKept /\ CompleteFaithful

-----------------------------------------------------------------------------
(* A set of naturals has a least element.                                  *)
LEMMA LeastNat ==
  ASSUME NEW H \in SUBSET Nat, H # {}
  PROVE  \E n \in H : \A m \in H : n <= m
<1>1. \E n \in H : \A m \in H : ~(<<m, n>> \in OpToRel(<, Nat))
  BY NatLessThanWellFounded, WFMin
<1>2. ASSUME NEW m \in Nat, NEW n \in Nat, m < n PROVE <<m, n>> \in OpToRel(<, Nat)
  BY <1>2 DEF OpToRel
<1>3. \E n \in H : \A m \in H : ~(m < n)
  BY <1>1, <1>2
<1> QED BY <1>3, SMT

(* The checks of a batch give nullopt if all of them do, and else the      *)
(* error of one of them.                                                   *)
LEMMA RunFinds ==
  ASSUME NEW checks \in Seq(Outcome)
  PROVE  /\ Run(checks) \in Outcome
         /\ Run(checks) = nullopt => Range(checks) \subseteq {nullopt}
         /\ Run(checks) # nullopt => Run(checks) \in Range(checks)
<1> DEFINE failing == {i \in DOMAIN checks : checks[i] # nullopt}
<1>1. CASE failing = {}
  BY <1>1 DEF Run, Range, Outcome
<1>2. CASE failing # {}
  <2>1. failing \in SUBSET Nat /\ failing \subseteq DOMAIN checks
    BY SMT
  <2>2. Min(failing) \in failing
    BY <1>2, <2>1, LeastNat DEF Min
  <2>3. Run(checks) = checks[Min(failing)]
    BY <1>2 DEF Run
  <2> HIDE DEF failing
  <2>4. Min(failing) \in DOMAIN checks
    BY <2>1, <2>2
  <2>5. checks[Min(failing)] # nullopt
    BY <2>2 DEF failing
  <2> QED BY <2>3, <2>4, <2>5, SMT DEF Range
<1> QED BY <1>1, <1>2

(* A batch has at least one check and no more than the queue.              *)
LEMMA NowInQueue ==
  ASSUME queue \in Seq(Outcome), queue # <<>>, nTotal \in Nat, nIdle \in Nat
  PROVE  Now \in 1..Len(queue)
<1> DEFINE n == Len(queue)
           d == nTotal + nIdle + 1
           q == n \div d
<1>1. n \in Nat /\ n >= 1 /\ d \in Nat /\ d >= 1
  BY SMT
<1> HIDE DEF n, d
<1>2. q \in Nat /\ q <= n
  <2>1. q \in Int /\ d * q <= n /\ n < d * q + d
    BY <1>1, SMT
  <2> HIDE DEF q
  <2>2. q >= 0
    <3> SUFFICES ASSUME q <= -1 PROVE FALSE
      BY <2>1, SMT
    <3>1. d * (q + 1) <= 0
      BY <1>1, <2>1, SMT
    <3> QED BY <1>1, <2>1, <3>1, SMT
  <2>3. (d - 1) * q >= 0
    BY <1>1, <2>1, <2>2, SMT
  <2> QED BY <1>1, <2>1, <2>2, <2>3, SMT
<1> HIDE DEF q
<1> DEFINE m == Min({nBatchSize, q})
<1>3. m \in Nat /\ m <= q
  <2>1. nBatchSize \in Nat
    BY QueueAssumption
  <2>2. \E x \in {nBatchSize, q} : \A y \in {nBatchSize, q} : x <= y
    BY <1>2, <2>1, SMT
  <2>3. m \in {nBatchSize, q} /\ \A y \in {nBatchSize, q} : m <= y
    BY <2>2 DEF Min
  <2> QED BY <1>2, <2>1, <2>3
<1> HIDE DEF m
<1>4. Max({1, m}) \in Nat /\ Max({1, m}) >= 1 /\ (Max({1, m}) = 1 \/ Max({1, m}) = m)
  <2>1. \E x \in {1, m} : \A y \in {1, m} : x >= y
    BY <1>3, SMT
  <2>2. Max({1, m}) \in {1, m} /\ \A y \in {1, m} : Max({1, m}) >= y
    BY <2>1 DEF Max
  <2> QED BY <1>3, <2>2, SMT
<1> QED BY <1>1, <1>2, <1>3, <1>4, SMT DEF Now, n, d, q, m

-----------------------------------------------------------------------------
(* The checks in the hands of one thread are as many as its batch.         *)
LEMMA BatchCount ==
  ASSUME NEW t, NEW n \in Nat
  PROVE  IsFiniteSet({t} \X (1..n)) /\ Cardinality({t} \X (1..n)) = n
<1>1. IsFiniteSet({t}) /\ Cardinality({t}) = 1
  BY FS_Singleton
<1>2. IsFiniteSet(1..n) /\ Cardinality(1..n) = n
  BY FS_Interval, SMT
<1>3. /\ IsFiniteSet({t} \X (1..n))
      /\ Cardinality({t} \X (1..n)) = Cardinality({t}) * Cardinality(1..n)
  BY <1>1, <1>2, FS_Product
<1> QED BY <1>1, <1>2, <1>3, SMT

(* The elements of a sequence.                                             *)
LEMMA RangeFacts ==
  ASSUME NEW q \in Seq(Outcome), NEW x
  PROVE  x \in Range(q) <=> \E i \in 1..Len(q) : q[i] = x
BY SMT DEF Range

(* The elements of two sequences one behind the other.                     *)
LEMMA ConcatRange ==
  ASSUME NEW q \in Seq(Outcome), NEW r \in Seq(Outcome)
  PROVE  Range(q \o r) = Range(q) \cup Range(r) /\ q \o r \in Seq(Outcome) /\ Len(q \o r) = Len(q) + Len(r)
<1> DEFINE c == q \o r
<1>1. /\ c \in Seq(Outcome) /\ Len(c) = Len(q) + Len(r) /\ Len(q) \in Nat /\ Len(r) \in Nat
      /\ \A i \in 1..Len(q) : c[i] = q[i]
      /\ \A i \in 1..Len(r) : c[Len(q) + i] = r[i]
  BY SMT
<1> HIDE DEF c
<1>2. ASSUME NEW i \in 1..Len(c) PROVE c[i] \in Range(q) \/ c[i] \in Range(r)
  <2>1. CASE i \in 1..Len(q)
    BY <1>1, <2>1, RangeFacts
  <2>2. CASE i \notin 1..Len(q)
    <3>1. i - Len(q) \in 1..Len(r) /\ Len(q) + (i - Len(q)) = i
      BY <1>1, <2>2, SMT
    <3> QED BY ZenonT(30), <1>1, <3>1, RangeFacts
  <2> QED BY <2>1, <2>2
<1>3. ASSUME NEW i \in 1..Len(q) PROVE q[i] \in Range(c)
  <2>1. i \in 1..Len(c) /\ c[i] = q[i]
    BY <1>1, SMT
  <2> QED BY <1>1, <2>1, RangeFacts
<1>4. ASSUME NEW i \in 1..Len(r) PROVE r[i] \in Range(c)
  <2>1. Len(q) + i \in 1..Len(c) /\ c[Len(q) + i] = r[i]
    BY <1>1, SMT
  <2> QED BY <1>1, <2>1, RangeFacts
<1>5. Range(c) = Range(q) \cup Range(r)
  <2>1. ASSUME NEW x \in Range(c) PROVE x \in Range(q) \/ x \in Range(r)
    BY <1>1, <1>2, RangeFacts, SMT
  <2>2. ASSUME NEW x \in Range(q) PROVE x \in Range(c)
    BY <1>3, RangeFacts
  <2>3. ASSUME NEW x \in Range(r) PROVE x \in Range(c)
    BY <1>4, RangeFacts
  <2> QED BY <2>1, <2>2, <2>3
<1> QED BY <1>1, <1>5 DEF c

(* The end of the queue and the rest of it.                                *)
Rest(q, n) == SubSeq(q, 1, Len(q) - n)
Batch(q, n) == SubSeq(q, Len(q) - n + 1, Len(q))

(* Every check is in one of them.                                          *)
LEMMA SplitQueue ==
  ASSUME NEW q \in Seq(Outcome), NEW n \in 1..Len(q)
  PROVE  /\ Rest(q, n) \in Seq(Outcome) /\ Len(Rest(q, n)) = Len(q) - n
         /\ Batch(q, n) \in Seq(Outcome) /\ Len(Batch(q, n)) = n
         /\ Range(q) = Range(Rest(q, n)) \cup Range(Batch(q, n))
<1> DEFINE L == Len(q)
           rest == Rest(q, n)
           batch == Batch(q, n)
<1>1. L \in Nat /\ n \in Nat /\ n >= 1 /\ n <= L
  BY SMT
<1>2. rest \in Seq(Outcome) /\ Len(rest) = L - n /\ \A i \in 1..(L - n) : rest[i] = q[i]
  BY SMT DEF Rest
<1>3. batch \in Seq(Outcome) /\ Len(batch) = n /\ \A i \in 1..n : batch[i] = q[L - n + i]
  BY <1>1, SMT DEF Batch
<1> HIDE DEF L, rest, batch
<1>4. ASSUME NEW i \in 1..L PROVE q[i] \in Range(rest) \/ q[i] \in Range(batch)
  <2>1. CASE i <= L - n
    <3>1. i \in 1..(L - n)
      BY <1>1, <2>1, SMT
    <3> QED BY <1>2, <3>1, RangeFacts
  <2>2. CASE i > L - n
    <3>1. i - (L - n) \in 1..n /\ L - n + (i - (L - n)) = i
      BY <1>1, <2>2, SMT
    <3> QED BY <1>3, <3>1, RangeFacts
  <2> QED BY <1>1, <2>1, <2>2, SMT
<1>5. ASSUME NEW i \in 1..(L - n) PROVE rest[i] \in Range(q)
  <2>1. i \in 1..L
    BY <1>1, SMT
  <2> QED BY <1>2, <2>1, RangeFacts DEF L
<1>6. ASSUME NEW i \in 1..n PROVE batch[i] \in Range(q)
  <2>1. L - n + i \in 1..L
    BY <1>1, SMT
  <2> QED BY <1>3, <2>1, RangeFacts DEF L
<1>7. Range(q) = Range(rest) \cup Range(batch)
  <2>1. ASSUME NEW x \in Range(q) PROVE x \in Range(rest) \/ x \in Range(batch)
    BY <1>4, RangeFacts, SMT DEF L
  <2>2. ASSUME NEW x \in Range(rest) PROVE x \in Range(q)
    BY <1>2, <1>5, RangeFacts, SMT
  <2>3. ASSUME NEW x \in Range(batch) PROVE x \in Range(q)
    BY <1>3, <1>6, RangeFacts, SMT
  <2> QED BY <2>1, <2>2, <2>3
<1> QED BY <1>2, <1>3, <1>7 DEF L, rest, batch

(* A thread takes n checks from the queue: what is not accounted for stays *)
(* the same.                                                               *)
LEMMA TakeCount ==
  ASSUME QueueType, TodoCount, NEW t \in Thread, vChecks[t] = <<>>, NEW n \in 1..Len(queue),
         vChecks' = [vChecks EXCEPT ![t] = SubSeq(queue, Len(queue) - n + 1, Len(queue))],
         queue' = SubSeq(queue, 1, Len(queue) - n), nTodo' = nTodo
  PROVE  /\ TodoCount' /\ Pending' = Pending /\ queue' \in Seq(Outcome) /\ vChecks' \in [Thread -> Seq(Outcome)]
         /\ vChecks'[t] # <<>> /\ \A s \in Thread \ {t} : vChecks'[s] = vChecks[s]
<1> DEFINE L == Len(queue)
           batch == Batch(queue, n)
<1>1. queue \in Seq(Outcome) /\ L \in Nat /\ n \in Nat /\ n >= 1 /\ n <= L /\ vChecks \in [Thread -> Seq(Outcome)]
  BY SMT DEF QueueType
<1>2. /\ queue' \in Seq(Outcome) /\ Len(queue') = L - n
      /\ batch \in Seq(Outcome) /\ Len(batch) = n
      /\ Range(queue) = Range(queue') \cup Range(batch)
  <2>1. queue' = Rest(queue, n)
    BY DEF Rest
  <2> QED BY <1>1, <2>1, SplitQueue
<1>4. vChecks'[t] = batch /\ \A s \in Thread \ {t} : vChecks'[s] = vChecks[s]
  BY <1>1 DEF Batch
<1> HIDE DEF batch, L
<1>5. vChecks' \in [Thread -> Seq(Outcome)] /\ batch # <<>>
  <2>1. vChecks' = [vChecks EXCEPT ![t] = batch]
    BY DEF batch, Batch
  <2>2. vChecks' \in [Thread -> Seq(Outcome)]
    BY <1>1, <1>2, <2>1
  <2>3. batch # <<>>
    BY <1>1, <1>2, SMT
  <2> QED BY <2>2, <2>3
<1>6. Pending' = Pending
  <2>1. Range(vChecks[t]) = {}
    BY SMT DEF Range
  <2>2. \A x : (\E s \in Thread : x \in Range(vChecks'[s]))
                 <=> (\E s \in Thread : x \in Range(vChecks[s])) \/ x \in Range(batch)
    <3> DEFINE A(s) == Range(vChecks[s])
               B(s) == Range(vChecks'[s])
    <3>1. A(t) = {} /\ B(t) = Range(batch) /\ \A s \in Thread \ {t} : B(s) = A(s)
      BY <1>4, <2>1
    <3> HIDE DEF A, B
    <3>2. \A x : (\E s \in Thread : x \in B(s)) <=> (\E s \in Thread : x \in A(s)) \/ x \in Range(batch)
      BY <3>1
    <3> QED BY <3>2 DEF A, B
  <2>3. \A x : x \in Pending <=> x \in Range(queue) \/ \E s \in Thread : x \in Range(vChecks[s])
    BY DEF Pending
  <2>4. \A x : x \in Pending' <=> x \in Range(queue') \/ \E s \in Thread : x \in Range(vChecks'[s])
    BY DEF Pending
  <2>5. \A x : x \in Pending' <=> x \in Pending
    BY <1>2, <2>2, <2>3, <2>4
  <2> QED BY <2>5
<1>7. Held' = Held \cup ({t} \X (1..n)) /\ Held \cap ({t} \X (1..n)) = {}
  <2>1. \A i \in 1..n : i \in Nat
    BY <1>1, SMT
  <2>2. Len(vChecks'[t]) = n /\ Len(vChecks[t]) = 0
    BY <1>2, <1>4
  <2>3. ASSUME NEW p \in Thread \X Nat PROVE p \in Held' <=> p \in Held \cup ({t} \X (1..n))
    <3>1. PICK s \in Thread, i \in Nat : p = <<s, i>>
      BY SMT
    <3>2. CASE s = t
      BY <2>2, <3>1, <3>2, SMT DEF Held
    <3>3. CASE s # t
      BY <1>4, <3>1, <3>3 DEF Held
    <3> QED BY <3>2, <3>3
  <2>4. Held \subseteq Thread \X Nat /\ Held' \subseteq Thread \X Nat /\ {t} \X (1..n) \subseteq Thread \X Nat
    BY <2>1 DEF Held
  <2>5. Held \cap ({t} \X (1..n)) = {}
    BY <2>2, SMT DEF Held
  <2> QED BY <2>3, <2>4, <2>5
<1>8. IsFiniteSet({t} \X (1..n)) /\ Cardinality({t} \X (1..n)) = n
  BY <1>1, BatchCount
<1>9. TodoCount'
  <2> DEFINE B == {t} \X (1..n)
  <2> HIDE DEF B
  <2>1. /\ IsFiniteSet(Held \cup B)
        /\ Cardinality(Held \cup B) = Cardinality(Held) + Cardinality(B) - Cardinality(Held \cap B)
    BY <1>8, FS_Union DEF TodoCount, B
  <2>2. Cardinality(Held \cap B) = 0 /\ Cardinality(B) = n /\ Cardinality(Held) \in Nat
    BY <1>7, <1>8, FS_EmptySet, FS_CardinalityType DEF B, TodoCount
  <2>3. Held' = Held \cup B
    BY <1>7 DEF B
  <2>4. Cardinality(Held') = Cardinality(Held) + n /\ IsFiniteSet(Held')
    BY <1>1, <2>1, <2>2, <2>3, SMT
  <2> QED BY <1>1, <1>2, <2>2, <2>4, SMT DEF TodoCount, L
<1> QED BY <1>2, <1>4, <1>5, <1>6, <1>9

(* A thread accounts for its batch.                                        *)
LEMMA AccountCount ==
  ASSUME QueueType, TodoCount, NEW t \in Thread, vChecks' = [vChecks EXCEPT ![t] = <<>>], queue' = queue,
         nTodo' = nTodo - Len(vChecks[t])
  PROVE  /\ TodoCount' /\ vChecks' \in [Thread -> Seq(Outcome)]
         /\ Pending' \subseteq Pending /\ Pending \subseteq Pending' \cup Range(vChecks[t])
<1> DEFINE n == Len(vChecks[t])
           B == {t} \X (1..n)
<1>1. vChecks \in [Thread -> Seq(Outcome)] /\ n \in Nat /\ Len(queue) \in Nat
  BY SMT DEF QueueType
<1>2. /\ vChecks' \in [Thread -> Seq(Outcome)] /\ vChecks'[t] = <<>>
      /\ \A s \in Thread \ {t} : vChecks'[s] = vChecks[s]
  BY <1>1, SMT
<1>3. Pending' \subseteq Pending /\ Pending \subseteq Pending' \cup Range(vChecks[t])
  <2>1. Range(<<>>) = {}
    BY SMT DEF Range
  <2> QED BY <1>2, <2>1, SMT DEF Pending
<1>4. Held' = Held \ B /\ B \subseteq Held
  <2>1. \A i \in 1..n : i \in Nat
    BY <1>1, SMT
  <2>2. ASSUME NEW p \in Thread \X Nat PROVE p \in Held' <=> p \in Held \ B
    <3>1. PICK s \in Thread, i \in Nat : p = <<s, i>>
      BY SMT
    <3>2. CASE s = t
      BY <1>2, <3>1, <3>2, SMT DEF Held
    <3>3. CASE s # t
      BY <1>2, <3>1, <3>3 DEF Held
    <3> QED BY <3>2, <3>3
  <2>3. Held \subseteq Thread \X Nat /\ Held' \subseteq Thread \X Nat
    BY DEF Held
  <2>4. B \subseteq Held
    BY <2>1 DEF Held
  <2> QED BY <2>2, <2>3, <2>4
<1>5. IsFiniteSet(B) /\ Cardinality(B) = n
  BY <1>1, BatchCount
<1> HIDE DEF B, n
<1>6. TodoCount'
  <2>1. IsFiniteSet(Held \ B) /\ Cardinality(Held \ B) = Cardinality(Held) - Cardinality(Held \cap B)
    BY FS_Difference DEF TodoCount
  <2>2. Held \cap B = B
    BY <1>4
  <2>3. Cardinality(Held') = Cardinality(Held) - n /\ IsFiniteSet(Held')
    BY <1>4, <1>5, <2>1, <2>2
  <2>4. Cardinality(Held) \in Nat
    BY FS_CardinalityType DEF TodoCount
  <2> QED BY <1>1, <2>3, <2>4, SMT DEF TodoCount, n
<1> QED BY <1>2, <1>3, <1>6

(* When nTodo is 0, no thread has a check and the queue is empty.          *)
LEMMA NothingPending ==
  ASSUME QueueType, TodoCount, nTodo = 0
  PROVE  /\ queue = <<>> /\ Pending = {}
         /\ \A t \in Thread : vChecks[t] = <<>>
<1>1. /\ queue \in Seq(Outcome) /\ Len(queue) \in Nat /\ Cardinality(Held) \in Nat /\ IsFiniteSet(Held)
      /\ vChecks \in [Thread -> Seq(Outcome)]
  BY FS_CardinalityType, SMT DEF TodoCount, QueueType
<1>2. Len(queue) = 0 /\ Cardinality(Held) = 0
  BY <1>1, SMT DEF TodoCount
<1>3. Held = {} /\ queue = <<>>
  BY <1>1, <1>2, FS_EmptySet, SMT
<1>4. ASSUME NEW t \in Thread PROVE vChecks[t] = <<>>
  <2>1. vChecks[t] \in Seq(Outcome)
    BY <1>1
  <2>2. <<t, 1>> \notin Held
    BY <1>3
  <2>3. ~(1 \in 1..Len(vChecks[t]))
    BY <2>2 DEF Held
  <2> QED BY <2>1, <2>3, SMT
<1>5. Pending = {}
  BY <1>3, <1>4, SMT DEF Pending, Range
<1> QED BY <1>3, <1>4, <1>5

(* One thread enters or leaves a set of threads that is counted.           *)
LEMMA CountMoves ==
  ASSUME NEW S, NEW R, NEW x, IsFiniteSet(S), R \ {x} = S \ {x}, NEW m,
         \/ (x \in S <=> x \in R) /\ m = Cardinality(S)
         \/ x \notin S /\ x \in R /\ m = Cardinality(S) + 1
         \/ x \in S /\ x \notin R /\ m = Cardinality(S) - 1
  PROVE  IsFiniteSet(R) /\ m = Cardinality(R)
<1>1. CASE (x \in S <=> x \in R) /\ m = Cardinality(S)
  <2>1. R = S
    BY <1>1, SMT
  <2> QED BY <1>1, <2>1
<1>2. CASE x \notin S /\ x \in R /\ m = Cardinality(S) + 1
  <2>1. R = S \cup {x}
    BY <1>2
  <2> QED BY <1>2, <2>1, FS_AddElement
<1>3. CASE x \in S /\ x \notin R /\ m = Cardinality(S) - 1
  <2>1. R = S \ {x}
    BY <1>3
  <2> QED BY <1>3, <2>1, FS_RemoveElement
<1> QED BY <1>1, <1>2, <1>3

-----------------------------------------------------------------------------
(* A step of thread t wakes up other threads at most.                      *)
Moved(t, next) ==
  /\ pc' \in [Thread -> Place] /\ pc'[t] = next
  /\ \A s \in Thread \ {t} : pc'[s] = pc[s] \/ (pc[s] = "waiting" /\ pc'[s] = "woken")

(* Goto and the notifications are such steps.                              *)
LEMMA MoveFacts ==
  ASSUME QueueType, NEW t \in Thread, NEW next \in Place
  PROVE  /\ Goto(t, next) => Moved(t, next)
         /\ \A S \in SUBSET Thread : NotifyOne(S, t, next) /\ pc[t] # "waiting" => Moved(t, next)
         /\ \A S \in SUBSET Thread : pc' = [Woken(S) EXCEPT ![t] = next] => Moved(t, next)
<1>1. pc \in [Thread -> Place] /\ "woken" \in Place
  BY DEF QueueType, Place
<1>2. Goto(t, next) => Moved(t, next)
  BY <1>1 DEF Goto, Moved
<1>3. ASSUME NEW S \in SUBSET Thread, NotifyOne(S, t, next), pc[t] # "waiting" PROVE Moved(t, next)
  <2>1. CASE Goto(t, next)
    BY <1>2, <2>1
  <2>2. CASE \E w \in Waiting(S) : pc' = [pc EXCEPT ![t] = next, ![w] = "woken"]
    <3>1. PICK w \in Waiting(S) : pc' = [pc EXCEPT ![t] = next, ![w] = "woken"]
      BY <2>2
    <3>2. w \in Thread /\ w # t /\ pc[w] = "waiting"
      BY <1>3, <3>1 DEF Waiting
    <3> QED BY <1>1, <3>1, <3>2 DEF Moved
  <2> QED BY <1>3, <2>1, <2>2 DEF NotifyOne
<1>4. ASSUME NEW S \in SUBSET Thread, pc' = [Woken(S) EXCEPT ![t] = next] PROVE Moved(t, next)
  BY <1>1, <1>4 DEF Woken, Waiting, Moved
<1> QED BY <1>2, <1>3, <1>4

(* What a step of t leaves of the other threads.                           *)
LEMMA OthersKept ==
  ASSUME CheckInv, NEW t \in Thread, NEW next, Moved(t, next),
         \A s \in Thread \ {t} : /\ vChecks'[s] = vChecks[s]
                                 /\ local_result'[s] = local_result[s] /\ do_work'[s] = do_work[s],
         m_result # nullopt => m_result' # nullopt
  PROVE  /\ \A s \in Thread \ {t} : BatchOK(s)'
         /\ Idle' \ {t} = Idle \ {t}
         /\ InLoop' \ {t} = InLoop \ {t}
<1>1. ASSUME NEW s \in Thread \ {t} PROVE BatchOK(s)'
  <2>1. BatchOK(s)
    BY DEF CheckInv
  <2>2. vChecks'[s] = vChecks[s] /\ local_result'[s] = local_result[s] /\ do_work'[s] = do_work[s]
    OBVIOUS
  <2>3. pc'[s] = pc[s] \/ (pc[s] = "waiting" /\ pc'[s] = "woken")
    BY DEF Moved
  <2> QED BY <2>1, <2>2, <2>3 DEF BatchOK
<1>2. Idle' \ {t} = Idle \ {t}
  BY DEF Idle, Moved
<1>3. InLoop' \ {t} = InLoop \ {t}
  <2>1. ASSUME NEW s \in Thread \ {t} PROVE s \in InLoop' <=> s \in InLoop
    BY DEF InLoop, Moved
  <2> QED BY <2>1 DEF InLoop
<1> QED BY <1>1, <1>2, <1>3

(* The counters of the threads after a step of t.                          *)
LEMMA ThreadCounts ==
  ASSUME IdleCount, TotalCount, NEW t \in Thread, Idle' \ {t} = Idle \ {t}, InLoop' \ {t} = InLoop \ {t},
         \/ (t \in Idle <=> t \in Idle') /\ nIdle' = nIdle
         \/ t \notin Idle /\ t \in Idle' /\ nIdle' = nIdle + 1
         \/ t \in Idle /\ t \notin Idle' /\ nIdle' = nIdle - 1,
         \/ (t \in InLoop <=> t \in InLoop') /\ nTotal' = nTotal
         \/ t \notin InLoop /\ t \in InLoop' /\ nTotal' = nTotal + 1
         \/ t \in InLoop /\ t \notin InLoop' /\ nTotal' = nTotal - 1
  PROVE  IdleCount' /\ TotalCount'
<1>1. IsFiniteSet(Idle') /\ nIdle' = Cardinality(Idle')
  <2> DEFINE S == Idle
             R == Idle'
  <2>1. IsFiniteSet(S) /\ nIdle = Cardinality(S) /\ R \ {t} = S \ {t}
    BY DEF IdleCount
  <2> HIDE DEF S, R
  <2>2. \/ (t \in S <=> t \in R) /\ nIdle' = nIdle
        \/ t \notin S /\ t \in R /\ nIdle' = nIdle + 1
        \/ t \in S /\ t \notin R /\ nIdle' = nIdle - 1
    BY DEF S, R
  <2>3. \A m : \/ (t \in S <=> t \in R) /\ m = Cardinality(S)
               \/ t \notin S /\ t \in R /\ m = Cardinality(S) + 1
               \/ t \in S /\ t \notin R /\ m = Cardinality(S) - 1
               => IsFiniteSet(R) /\ m = Cardinality(R)
    BY <2>1, CountMoves
  <2>4. IsFiniteSet(R) /\ nIdle' = Cardinality(R)
    BY <2>1, <2>2, <2>3
  <2> QED BY <2>4 DEF R
<1>2. IsFiniteSet(InLoop') /\ nTotal' = Cardinality(InLoop')
  <2> DEFINE S == InLoop
             R == InLoop'
  <2>1. IsFiniteSet(S) /\ nTotal = Cardinality(S) /\ R \ {t} = S \ {t}
    BY DEF TotalCount
  <2> HIDE DEF S, R
  <2>2. \/ (t \in S <=> t \in R) /\ nTotal' = nTotal
        \/ t \notin S /\ t \in R /\ nTotal' = nTotal + 1
        \/ t \in S /\ t \notin R /\ nTotal' = nTotal - 1
    BY DEF S, R
  <2>3. \A m : \/ (t \in S <=> t \in R) /\ m = Cardinality(S)
               \/ t \notin S /\ t \in R /\ m = Cardinality(S) + 1
               \/ t \in S /\ t \notin R /\ m = Cardinality(S) - 1
               => IsFiniteSet(R) /\ m = Cardinality(R)
    BY <2>1, CountMoves
  <2>4. IsFiniteSet(R) /\ nTotal' = Cardinality(R)
    BY <2>1, <2>2, <2>3
  <2> QED BY <2>4 DEF R
<1> QED BY <1>1, <1>2 DEF IdleCount, TotalCount

-----------------------------------------------------------------------------
(* The steps.                                                              *)

(* Steps that only move threads and count those that sleep: AddNotifies,   *)
(* Complete, Wait, WakeUp, a spurious wakeup, Exit.                        *)
LEMMA ThreadStep ==
  ASSUME CheckInv, NEW t \in Thread, NEW next, Moved(t, next), next \notin {"idle", "execute"},
         pc[t] \notin {"idle", "execute", "loop"},
         pc[t] \in {"locked", "waiting", "woken", "exited"} <=> next \in {"locked", "waiting", "woken", "exited"},
         UNCHANGED <<queue, nTotal, m_result, nTodo, loopVars, control, added, answer>>,
         \/ (pc[t] \in {"waiting", "woken"} <=> next \in {"waiting", "woken"}) /\ nIdle' = nIdle
         \/ pc[t] \notin {"waiting", "woken"} /\ next \in {"waiting", "woken"} /\ nIdle' = nIdle + 1
         \/ pc[t] \in {"waiting", "woken"} /\ next \notin {"waiting", "woken"} /\ nIdle' = nIdle - 1
  PROVE  CheckInv'
<1> USE DEF loopVars
<1>1. pc'[t] = next /\ BatchOK(t) /\ vChecks[t] = <<>>
  BY DEF CheckInv, BatchOK, Moved
<1>2. /\ \A s \in Thread \ {t} : BatchOK(s)'
      /\ Idle' \ {t} = Idle \ {t} /\ InLoop' \ {t} = InLoop \ {t}
  BY OthersKept
<1>3. BatchOK(t)'
  BY <1>1 DEF BatchOK
<1>4. QueueType' /\ TodoCount' /\ ErrorsKept' /\ CompleteFaithful'
  BY SMT DEF CheckInv, QueueType, TodoCount, Held, ErrorsKept, Pending, CompleteFaithful, Moved
<1>5. IdleCount' /\ TotalCount'
  <2>1. (t \in Idle <=> pc[t] \in {"waiting", "woken"}) /\ (t \in Idle' <=> next \in {"waiting", "woken"})
    BY <1>1 DEF Idle
  <2>2. t \in InLoop <=> t \in InLoop'
    BY <1>1 DEF InLoop
  <2>3. IdleCount /\ TotalCount
    BY DEF CheckInv
  <2> QED BY <1>2, <2>1, <2>2, <2>3, ThreadCounts
<1>6. OneControl'
  <2>1. ASSUME NEW s \in Master, pc'[s] # "idle" PROVE control = s
    <3>1. s \in Thread /\ pc[s] # "idle"
      BY <2>1 DEF Moved, Thread
    <3> QED BY <3>1 DEF CheckInv, OneControl
  <2> QED BY <2>1 DEF CheckInv, OneControl
<1> QED BY <1>2, <1>3, <1>4, <1>5, <1>6 DEF CheckInv

(* A new control finds the queue empty and no result.                      *)
LEMMA NewControlOK ==
  ASSUME CheckInv, NEW t \in Master, NewControl(t)
  PROVE  CheckInv'
<1> USE DEF loopVars, queueVars
<1>1. /\ t \in Thread /\ pc[t] = "idle" /\ control = nullopt /\ control' = t /\ added' = <<>> /\ Goto(t, "adding")
      /\ UNCHANGED <<queueVars, loopVars, answer>> /\ t # nullopt
  BY QueueAssumption DEF NewControl, Thread
<1>2. Moved(t, "adding")
  BY <1>1, MoveFacts DEF CheckInv, Place
<1>3. pc'[t] = "adding" /\ BatchOK(t) /\ vChecks[t] = <<>>
  BY <1>1, <1>2 DEF CheckInv, BatchOK, Moved
<1>4. /\ \A s \in Thread \ {t} : BatchOK(s)'
      /\ Idle' \ {t} = Idle \ {t} /\ InLoop' \ {t} = InLoop \ {t}
  BY <1>1, <1>2, OthersKept
<1>5. BatchOK(t)'
  BY <1>1, <1>3 DEF BatchOK
<1>6. QueueType' /\ TodoCount' /\ CompleteFaithful'
  BY <1>1, <1>2, SMT DEF CheckInv, QueueType, TodoCount, Held, CompleteFaithful, Moved
<1>7. IdleCount' /\ TotalCount'
  <2>1. (t \notin Idle /\ t \notin Idle') /\ (t \notin InLoop /\ t \notin InLoop')
    BY <1>1, <1>3 DEF Idle, InLoop
  <2>2. IdleCount /\ TotalCount
    BY DEF CheckInv
  <2> QED BY <1>1, <1>4, <2>1, <2>2, ThreadCounts
<1>8. OneControl'
  <2>1. ASSUME NEW s \in Master, s # t PROVE pc'[s] = "idle"
    <3>1. s \in Thread /\ pc[s] = "idle"
      BY <1>1, QueueAssumption DEF CheckInv, OneControl, Thread
    <3> QED BY <1>2, <2>1, <3>1 DEF Moved
  <2> QED BY <1>1, <2>1 DEF OneControl
<1>9. m_result = nullopt /\ Pending = {}
  <2>1. m_result = nullopt /\ nTodo = 0 /\ queue \in Seq(Outcome) /\ vChecks \in [Thread -> Seq(Outcome)]
    BY <1>1 DEF CheckInv, OneControl, QueueType
  <2> QED BY <2>1, NothingPending DEF CheckInv
<1>10. ErrorsKept'
  <2>1. Pending' = {} /\ Range(added') = {} /\ m_result' = nullopt
    BY <1>1, <1>9, SMT DEF Pending, Range
  <2> QED BY <2>1 DEF ErrorsKept
<1> QED BY <1>4, <1>5, <1>6, <1>7, <1>8, <1>10 DEF CheckInv

(* Add puts checks on the queue and counts them.                           *)
LEMMA AddOK ==
  ASSUME CheckInv, NEW t \in Master, NEW m \in 0 .. MaxAdded,
         NEW checks \in [1 .. m -> Outcome], Add(t, checks)
  PROVE  CheckInv'
<1> USE DEF loopVars
<1> DEFINE next == IF Len(checks) = 1 THEN "notify_one" ELSE "notify_all"
<1>1. checks \in Seq(Outcome) /\ Len(checks) \in Nat
  <2>1. m \in Nat
    BY QueueAssumption, SMT
  <2> QED BY <2>1, SMT
<1>2. /\ t \in Thread /\ pc[t] = "adding" /\ Goto(t, next) /\ next \in {"notify_one", "notify_all"}
      /\ queue' = queue \o checks /\ nTodo' = nTodo + Len(checks) /\ added' = added \o checks
      /\ UNCHANGED <<nIdle, nTotal, m_result, loopVars, control, answer>>
  BY DEF Add, Thread
<1> HIDE DEF next
<1>3. queue \in Seq(Outcome) /\ added \in Seq(Outcome) /\ Len(queue) \in Nat
  BY SMT DEF CheckInv, QueueType
<1>4. /\ Range(queue') = Range(queue) \cup Range(checks) /\ queue' \in Seq(Outcome)
      /\ Len(queue') = Len(queue) + Len(checks)
      /\ Range(added') = Range(added) \cup Range(checks) /\ added' \in Seq(Outcome)
  BY <1>1, <1>2, <1>3, ConcatRange
<1>5. Moved(t, next)
  BY <1>2, MoveFacts DEF CheckInv, Place
<1>6. pc'[t] = next /\ BatchOK(t) /\ vChecks[t] = <<>>
  BY <1>2, <1>5 DEF CheckInv, BatchOK, Moved
<1>7. /\ \A s \in Thread \ {t} : BatchOK(s)'
      /\ Idle' \ {t} = Idle \ {t} /\ InLoop' \ {t} = InLoop \ {t}
  BY <1>2, <1>5, OthersKept
<1>8. BatchOK(t)'
  BY <1>2, <1>6 DEF BatchOK
<1>9. QueueType' /\ CompleteFaithful'
  BY <1>2, <1>4, <1>5 DEF CheckInv, QueueType, CompleteFaithful, Moved
<1>10. TodoCount'
  <2>1. Held' = Held /\ Cardinality(Held) \in Nat
    BY <1>2, FS_CardinalityType DEF CheckInv, TodoCount, Held
  <2>2. IsFiniteSet(Held) /\ nTodo = Len(queue) + Cardinality(Held)
    BY DEF CheckInv, TodoCount
  <2>3. IsFiniteSet(Held') /\ Cardinality(Held') = Cardinality(Held)
    BY <2>1, <2>2
  <2>4. nTodo' = nTodo + Len(checks) /\ Len(queue') = Len(queue) + Len(checks)
    BY <1>2, <1>4
  <2>5. Len(checks) \in Nat /\ Len(queue) \in Nat /\ Cardinality(Held) \in Nat
    BY <1>1, <1>3, <2>1
  <2>6. nTodo' = Len(queue') + Cardinality(Held)
    BY <2>2, <2>4, <2>5, SMT
  <2> QED BY <2>3, <2>6 DEF TodoCount
<1>11. IdleCount' /\ TotalCount'
  <2>1. (t \notin Idle /\ t \notin Idle') /\ (t \notin InLoop /\ t \notin InLoop')
    BY <1>2, <1>6 DEF Idle, InLoop
  <2>2. IdleCount /\ TotalCount
    BY DEF CheckInv
  <2> QED BY <1>2, <1>7, <2>1, <2>2, ThreadCounts
<1>12. OneControl'
  <2>1. ASSUME NEW s \in Master, pc'[s] # "idle" PROVE control = s
    <3>1. s \in Thread /\ pc[s] # "idle"
      BY <1>2, <1>5, <2>1 DEF Moved, Thread
    <3> QED BY <3>1 DEF CheckInv, OneControl
  <2>2. control = t /\ t # nullopt
    BY <1>2, QueueAssumption DEF CheckInv, OneControl
  <2> QED BY <1>2, <2>1, <2>2 DEF OneControl
<1>13. ErrorsKept'
  <2>1. Pending' = Pending \cup Range(checks)
    BY <1>2, <1>4 DEF Pending
  <2> QED BY <1>2, <1>4, <2>1 DEF CheckInv, ErrorsKept
<1> QED BY <1>7, <1>8, <1>9, <1>10, <1>11, <1>12, <1>13 DEF CheckInv

(* A batch moves from the queue to the thread.                             *)
LEMMA TakeBatchOK ==
  ASSUME CheckInv, NEW t \in Thread, TakeBatch(t)
  PROVE  CheckInv'
<1>1. /\ pc[t] = "locked" /\ queue # <<>> /\ Goto(t, "execute")
      /\ vChecks' = [vChecks EXCEPT ![t] = SubSeq(queue, Len(queue) - Now + 1, Len(queue))]
      /\ queue' = SubSeq(queue, 1, Len(queue) - Now)
      /\ do_work' = [do_work EXCEPT ![t] = (m_result = nullopt)]
      /\ UNCHANGED <<nIdle, nTotal, m_result, nTodo, local_result, control, added, answer>>
  BY DEF TakeBatch, controlVars
<1>2. Now \in 1..Len(queue)
  BY <1>1, NowInQueue, FS_CardinalityType DEF CheckInv, QueueType, IdleCount, TotalCount
<1>3. QueueType /\ TodoCount /\ vChecks[t] = <<>>
  BY <1>1 DEF CheckInv, BatchOK
<1>4. /\ TodoCount' /\ Pending' = Pending /\ queue' \in Seq(Outcome) /\ vChecks' \in [Thread -> Seq(Outcome)]
      /\ vChecks'[t] # <<>> /\ \A s \in Thread \ {t} : vChecks'[s] = vChecks[s]
  <2> DEFINE n == Now
  <2> HIDE DEF n
  <2>1. /\ n \in 1..Len(queue)
        /\ vChecks' = [vChecks EXCEPT ![t] = SubSeq(queue, Len(queue) - n + 1, Len(queue))]
        /\ queue' = SubSeq(queue, 1, Len(queue) - n) /\ nTodo' = nTodo
    BY <1>1, <1>2 DEF n
  <2> QED BY <1>3, <2>1, TakeCount
<1>5. Moved(t, "execute")
  BY <1>1, <1>3, MoveFacts DEF Place
<1>6. /\ do_work' \in [Thread -> BOOLEAN] /\ (do_work'[t] <=> m_result = nullopt)
      /\ \A s \in Thread \ {t} : do_work'[s] = do_work[s]
  BY <1>1, <1>3 DEF QueueType
<1>7. /\ \A s \in Thread \ {t} : BatchOK(s)'
      /\ Idle' \ {t} = Idle \ {t} /\ InLoop' \ {t} = InLoop \ {t}
  BY <1>1, <1>4, <1>5, <1>6, OthersKept
<1>8. BatchOK(t)'
  BY <1>1, <1>4, <1>5, <1>6 DEF BatchOK, Moved
<1>9. QueueType' /\ CompleteFaithful' /\ ErrorsKept'
  BY <1>1, <1>4, <1>5, <1>6 DEF CheckInv, QueueType, CompleteFaithful, ErrorsKept, Moved
<1>10. IdleCount' /\ TotalCount'
  <2>0. pc'[t] = "execute"
    BY <1>5 DEF Moved
  <2>1. (t \notin Idle /\ t \notin Idle') /\ (t \in InLoop /\ t \in InLoop')
    BY <1>1, <2>0 DEF Idle, InLoop
  <2>2. IdleCount /\ TotalCount
    BY DEF CheckInv
  <2> QED BY <1>1, <1>7, <2>1, <2>2, ThreadCounts
<1>11. OneControl'
  <2>1. ASSUME NEW s \in Master, pc'[s] # "idle" PROVE control = s
    <3>1. s \in Thread /\ pc[s] # "idle"
      BY <1>1, <1>5, <2>1 DEF Moved, Thread
    <3> QED BY <3>1 DEF CheckInv, OneControl
  <2> QED BY <1>1, <2>1 DEF CheckInv, OneControl
<1> QED BY <1>4, <1>7, <1>8, <1>9, <1>10, <1>11 DEF CheckInv

(* The checks of a batch are run, unless an error is known.                *)
LEMMA ExecuteOK ==
  ASSUME CheckInv, NEW t \in Thread, Execute(t)
  PROVE  CheckInv'
<1>1. /\ pc[t] = "execute" /\ Goto(t, "loop")
      /\ local_result' = IF do_work[t] THEN [local_result EXCEPT ![t] = Run(vChecks[t])] ELSE local_result
      /\ UNCHANGED <<queue, nIdle, nTotal, m_result, nTodo, vChecks, do_work, control, added, answer>>
  BY DEF Execute, queueVars, controlVars
<1>2. QueueType /\ BatchOK(t) /\ vChecks[t] \in Seq(Outcome)
  BY DEF CheckInv, QueueType
<1>3. Run(vChecks[t]) \in Outcome
  BY <1>2, RunFinds
<1>4. /\ local_result' \in [Thread -> Outcome] /\ (do_work[t] => local_result'[t] = Run(vChecks[t]))
      /\ \A s \in Thread \ {t} : local_result'[s] = local_result[s]
  <2>1. CASE do_work[t]
    <3>1. local_result' = [local_result EXCEPT ![t] = Run(vChecks[t])]
      BY <1>1, <2>1
    <3> QED BY <1>2, <1>3, <3>1 DEF QueueType
  <2>2. CASE ~do_work[t]
    BY <1>1, <1>2, <2>2 DEF QueueType
  <2> QED BY <2>1, <2>2
<1>5. Moved(t, "loop")
  BY <1>1, <1>2, MoveFacts DEF Place
<1>6. /\ \A s \in Thread \ {t} : BatchOK(s)'
      /\ Idle' \ {t} = Idle \ {t} /\ InLoop' \ {t} = InLoop \ {t}
  BY <1>1, <1>4, <1>5, OthersKept
<1>7. BatchOK(t)'
  <2>1. vChecks[t] # <<>> /\ (do_work[t] \/ m_result # nullopt)
    BY <1>1, <1>2 DEF BatchOK
  <2> QED BY <1>1, <1>4, <1>5, <2>1 DEF BatchOK, Moved
<1>8. QueueType' /\ TodoCount' /\ CompleteFaithful' /\ ErrorsKept'
  BY <1>1, <1>4, <1>5, SMT DEF CheckInv, QueueType, TodoCount, Held, CompleteFaithful, ErrorsKept, Pending, Moved
<1>9. IdleCount' /\ TotalCount'
  <2>1. (t \notin Idle /\ t \notin Idle') /\ (t \in InLoop /\ t \in InLoop')
    BY <1>1, <1>2, <1>5 DEF Idle, InLoop, Moved, BatchOK
  <2>2. IdleCount /\ TotalCount
    BY DEF CheckInv
  <2> QED BY ZenonT(30), <1>1, <1>6, <2>1, <2>2, ThreadCounts
<1>10. OneControl'
  <2>1. ASSUME NEW s \in Master, pc'[s] # "idle" PROVE control = s
    <3>1. s \in Thread /\ pc[s] # "idle"
      BY <1>1, <1>5, <2>1 DEF Moved, Thread
    <3> QED BY <3>1 DEF CheckInv, OneControl
  <2> QED BY <1>1, <2>1 DEF CheckInv, OneControl
<1> QED BY <1>6, <1>7, <1>8, <1>9, <1>10 DEF CheckInv

(* The clean-up accounts for the batch of the thread: its error becomes    *)
(* the result, unless there is one.                                        *)
LEMMA CleanUpOK ==
  ASSUME CheckInv, NEW t \in Thread, CleanUp(t)
  PROVE  CheckInv'
<1>1. /\ pc[t] = "loop" /\ vChecks' = [vChecks EXCEPT ![t] = <<>>]
      /\ UNCHANGED <<queue, nIdle, do_work, control, added, answer>>
  BY DEF CleanUp, controlVars
<1>2. QueueType /\ TodoCount /\ BatchOK(t) /\ vChecks[t] \in Seq(Outcome) /\ local_result[t] \in Outcome
      /\ Len(vChecks[t]) \in Nat
  BY SMT DEF CheckInv, QueueType
<1>3. Moved(t, "locked")
  <2>1. Goto(t, "locked") \/ NotifyOne(Master, t, "locked")
    BY DEF CleanUp
  <2>2. Master \in SUBSET Thread /\ "locked" \in Place
    BY DEF Thread, Place
  <2> QED BY <1>1, <1>2, <2>1, <2>2, MoveFacts
<1>4. nTodo' = nTodo - Len(vChecks[t])
  <2>1. CASE nNow(t) = 0
    <3>1. nTodo \in Nat
      BY <1>2, FS_CardinalityType, SMT DEF QueueType, TodoCount
    <3> QED BY <2>1, <3>1, SMT DEF CleanUp, nNow
  <2>2. CASE nNow(t) # 0
    BY <2>2 DEF CleanUp, Unfinished, nNow
  <2> QED BY <2>1, <2>2
<1>5. /\ TodoCount' /\ vChecks' \in [Thread -> Seq(Outcome)]
      /\ Pending' \subseteq Pending /\ Pending \subseteq Pending' \cup Range(vChecks[t])
  BY ZenonT(30), <1>1, <1>2, <1>4, AccountCount
<1>6. vChecks'[t] = <<>> /\ \A s \in Thread \ {t} : vChecks'[s] = vChecks[s]
  BY <1>1, <1>2 DEF QueueType
<1>7. /\ local_result' \in [Thread -> Outcome] /\ \A s \in Thread \ {t} : local_result'[s] = local_result[s]
      /\ \/ m_result' = m_result /\ (vChecks[t] = <<>> \/ m_result # nullopt \/ local_result[t] = nullopt)
         \/ vChecks[t] # <<>> /\ m_result = nullopt /\ m_result' = local_result[t] /\ local_result[t] # nullopt
  <2>1. CASE nNow(t) = 0
    BY <1>2, <2>1, SMT DEF CleanUp, nNow, QueueType
  <2>2. CASE nNow(t) # 0 /\ local_result[t] # nullopt /\ m_result = nullopt
    <3>1. m_result' = local_result[t] /\ local_result' = [local_result EXCEPT ![t] = nullopt]
      BY <2>2 DEF CleanUp
    <3> QED BY <1>2, <2>2, <3>1, SMT DEF QueueType, nNow, Outcome
  <2>3. CASE nNow(t) # 0 /\ ~(local_result[t] # nullopt /\ m_result = nullopt)
    <3>1. UNCHANGED <<m_result, local_result>>
      BY <2>3 DEF CleanUp
    <3> QED BY <1>2, <2>3, <3>1 DEF QueueType
  <2> QED BY <2>1, <2>2, <2>3
<1>8. vChecks[t] # <<>> /\ m_result = nullopt => local_result[t] = Run(vChecks[t])
  BY <1>1, <1>2 DEF BatchOK
<1>9. /\ \A s \in Thread \ {t} : BatchOK(s)'
      /\ Idle' \ {t} = Idle \ {t} /\ InLoop' \ {t} = InLoop \ {t}
  <2>1. m_result # nullopt => m_result' # nullopt
    BY <1>7
  <2> QED BY <1>1, <1>3, <1>6, <1>7, <2>1, OthersKept
<1>10. BatchOK(t)'
  BY <1>3, <1>6 DEF BatchOK, Moved
<1>11. QueueType' /\ CompleteFaithful'
  BY ZenonT(30), <1>1, <1>2, <1>3, <1>5, <1>7 DEF CheckInv, QueueType, CompleteFaithful, Moved
<1>12. IdleCount' /\ TotalCount'
  <2>0. pc'[t] = "locked"
    BY <1>3 DEF Moved
  <2>1. t \notin Idle /\ t \notin Idle' /\ t \in InLoop' /\ (t \in InLoop <=> vChecks[t] # <<>>)
    BY <1>1, <2>0 DEF Idle, InLoop
  <2>2. nTotal' = IF vChecks[t] = <<>> THEN nTotal + 1 ELSE nTotal
    BY <1>2, SMT DEF CleanUp, nNow
  <2>3. IdleCount /\ TotalCount
    BY DEF CheckInv
  <2> QED BY <1>1, <1>9, <2>1, <2>2, <2>3, ThreadCounts
<1>13. OneControl'
  <2>1. ASSUME NEW s \in Master, pc'[s] # "idle" PROVE control = s
    <3>1. s \in Thread /\ pc[s] # "idle"
      BY <1>1, <1>3, <2>1 DEF Moved, Thread
    <3> QED BY <3>1 DEF CheckInv, OneControl
  <2>2. ASSUME control = nullopt PROVE m_result' = nullopt /\ nTodo' = 0
    <3>1. m_result = nullopt /\ nTodo = 0
      BY <2>2 DEF CheckInv, OneControl
    <3>2. vChecks[t] = <<>>
      BY <1>2, <3>1, NothingPending
    <3>3. Len(vChecks[t]) = 0
      BY <3>2, SMT
    <3>4. nTodo' = 0
      BY <1>4, <3>1, <3>3, SMT
    <3>5. m_result' = nullopt
      BY <1>7, <3>1, <3>2
    <3> QED BY <3>4, <3>5
  <2> QED BY <1>1, <2>1, <2>2 DEF OneControl
<1>14. ErrorsKept'
  <2>1. ErrorsKept /\ Range(vChecks[t]) \subseteq Pending
    BY DEF CheckInv, Pending
  <2>2. CASE m_result' = m_result /\ (vChecks[t] = <<>> \/ m_result # nullopt \/ local_result[t] = nullopt)
    <3>1. m_result = nullopt => Range(vChecks[t]) \subseteq {nullopt}
      <4>1. CASE vChecks[t] = <<>>
        BY <4>1, SMT DEF Range
      <4>2. CASE vChecks[t] # <<>>
        BY <1>2, <1>8, <2>2, <4>2, RunFinds
      <4> QED BY <4>1, <4>2
    <3> QED BY <1>1, <1>5, <2>1, <2>2, <3>1 DEF ErrorsKept
  <2>3. CASE vChecks[t] # <<>> /\ m_result = nullopt /\ m_result' = local_result[t] /\ local_result[t] # nullopt
    <3>1. m_result' \in Range(vChecks[t]) /\ m_result' # nullopt
      BY <1>2, <1>8, <2>3, RunFinds
    <3> QED BY <1>1, <1>5, <2>1, <3>1 DEF ErrorsKept
  <2> QED BY <1>7, <2>2, <2>3
<1> QED BY <1>5, <1>9, <1>10, <1>11, <1>12, <1>13, <1>14 DEF CheckInv

(* Complete returns when all checks are accounted for, with the error of   *)
(* one of them if there is one.                                            *)
LEMMA ReturnOK ==
  ASSUME CheckInv, NEW t \in Thread, Return(t)
  PROVE  CheckInv'
<1>1. /\ pc[t] = "locked" /\ t \in Master /\ nTodo = 0 /\ nTotal' = nTotal - 1
      /\ answer' = [ret |-> m_result, checks |-> added] /\ m_result' = nullopt
      /\ local_result' = [local_result EXCEPT ![t] = nullopt] /\ control' = nullopt /\ Goto(t, "idle")
      /\ UNCHANGED <<queue, nIdle, nTodo, vChecks, do_work, added>>
  BY DEF Return
<1>2. QueueType /\ TodoCount /\ OneControl /\ ErrorsKept
  BY DEF CheckInv
<1>3. queue = <<>> /\ Pending = {} /\ \A s \in Thread : vChecks[s] = <<>>
  BY <1>1, <1>2, NothingPending
<1>4. Moved(t, "idle")
  BY <1>1, <1>2, MoveFacts DEF Place
<1>5. control = t /\ t # nullopt
  BY <1>1, <1>2, QueueAssumption DEF OneControl
<1>6. \A s \in Thread : BatchOK(s)'
  <2> SUFFICES ASSUME NEW s \in Thread PROVE BatchOK(s)'
    OBVIOUS
  <2>1. pc[s] # "execute"
    BY <1>3 DEF CheckInv, BatchOK
  <2>2. pc'[s] # "execute"
    BY <1>4, <2>1 DEF Moved
  <2> QED BY <1>1, <1>3, <2>2 DEF BatchOK
<1>7. QueueType'
  BY <1>1, <1>2, <1>4 DEF QueueType, Moved, Outcome
<1>8. TodoCount'
  BY <1>1, <1>2 DEF TodoCount, Held
<1>9. IdleCount' /\ TotalCount'
  <2>1. Idle' \ {t} = Idle \ {t}
    BY <1>4 DEF Idle, Moved
  <2>2. InLoop' \ {t} = InLoop \ {t}
    <3>1. ASSUME NEW s \in Thread \ {t} PROVE s \in InLoop' <=> s \in InLoop
      BY <1>1, <1>4 DEF InLoop, Moved
    <3> QED BY <3>1 DEF InLoop
  <2>3. pc'[t] = "idle"
    BY <1>4 DEF Moved
  <2>4. (t \notin Idle /\ t \notin Idle') /\ (t \in InLoop /\ t \notin InLoop')
    BY <1>1, <2>3 DEF Idle, InLoop
  <2>5. IdleCount /\ TotalCount
    BY DEF CheckInv
  <2> QED BY <1>1, <2>1, <2>2, <2>4, <2>5, ThreadCounts
<1>10. OneControl'
  <2>1. ASSUME NEW s \in Master PROVE pc'[s] = "idle"
    <3>1. CASE s = t
      BY <1>4, <3>1 DEF Moved
    <3>2. CASE s # t
      <4>1. s \in Thread /\ pc[s] = "idle"
        BY <1>2, <1>5, <3>2 DEF OneControl, Thread
      <4> QED BY <1>4, <3>2, <4>1 DEF Moved
    <3> QED BY <3>1, <3>2
  <2> QED BY <1>1, <2>1 DEF OneControl
<1>11. ErrorsKept'
  <2>1. Pending' = Pending
    BY <1>1 DEF Pending
  <2> QED BY <1>1, <1>3, <2>1 DEF ErrorsKept
<1>12. CompleteFaithful'
  <2>1. /\ m_result # nullopt => m_result \in Range(added)
        /\ m_result = nullopt => Range(added) \subseteq {nullopt}
    BY <1>2, <1>3, <1>5 DEF ErrorsKept
  <2>2. answer'.ret = m_result /\ answer'.checks = added
    BY <1>1
  <2>3. m_result \in Range(added) /\ Range(added) \subseteq {nullopt} => m_result = nullopt
    OBVIOUS
  <2> QED BY <2>1, <2>2, <2>3 DEF CompleteFaithful
<1> QED BY <1>6, <1>7, <1>8, <1>9, <1>10, <1>11, <1>12 DEF CheckInv

(* The inductive invariant of the queue.                                   *)
LEMMA CheckInit == Init => CheckInv
<1> SUFFICES ASSUME Init PROVE CheckInv
  OBVIOUS
<1>1. QueueType
  BY SMT DEF Init, QueueType, Outcome, Place
<1>2. Held = {} /\ Idle = {} /\ InLoop = {} /\ Pending = {} /\ Range(<<>>) = {}
  BY SMT DEF Init, Held, Idle, InLoop, Pending, Range
<1>3. TodoCount /\ IdleCount /\ TotalCount
  BY <1>2, FS_EmptySet, SMT DEF Init, TodoCount, IdleCount, TotalCount
<1>4. \A t \in Thread : BatchOK(t)
  BY DEF Init, BatchOK
<1>5. OneControl
  BY QueueAssumption DEF Init, OneControl, Thread
<1>6. ErrorsKept /\ CompleteFaithful
  BY <1>2 DEF Init, ErrorsKept, CompleteFaithful
<1> QED BY <1>1, <1>3, <1>4, <1>5, <1>6 DEF CheckInv

(* Every step of a master, a worker and the destructor keeps it.           *)
LEMMA CheckStep == CheckInv /\ [Next]_vars => CheckInv'
<1> SUFFICES ASSUME CheckInv, [Next]_vars PROVE CheckInv'
  OBVIOUS
<1> USE DEF queueVars, controlVars
<1>1. QueueType
  BY DEF CheckInv
<1>2. ASSUME UNCHANGED <<queue, nIdle, nTotal, m_result, nTodo, loopVars, control, added, answer>>,
             pc' \in [Thread -> Place],
             \A s \in Thread : pc'[s] = pc[s] \/ (pc[s] = "waiting" /\ pc'[s] = "woken")
      PROVE  CheckInv'
  <2>1. QueueType' /\ TodoCount' /\ ErrorsKept' /\ CompleteFaithful'
    BY <1>2, SMT DEF CheckInv, QueueType, TodoCount, Held, ErrorsKept, Pending, CompleteFaithful, loopVars
  <2>2. Idle' = Idle
    BY <1>2 DEF Idle
  <2>3. InLoop' = InLoop
    <3>1. ASSUME NEW s \in Thread PROVE s \in InLoop' <=> s \in InLoop
      BY <1>2 DEF InLoop, loopVars
    <3> QED BY <3>1 DEF InLoop
  <2>4. IdleCount' /\ TotalCount'
    BY <1>2, <2>2, <2>3 DEF CheckInv, IdleCount, TotalCount
  <2>5. \A s \in Thread : BatchOK(s)'
    <3> SUFFICES ASSUME NEW s \in Thread PROVE BatchOK(s)'
      OBVIOUS
    <3>1. BatchOK(s) /\ (pc'[s] = pc[s] \/ (pc[s] = "waiting" /\ pc'[s] = "woken"))
      BY <1>2 DEF CheckInv
    <3> QED BY <1>2, <3>1 DEF BatchOK, loopVars
  <2>6. OneControl'
    <3>1. ASSUME NEW s \in Master, pc'[s] # "idle" PROVE control = s
      <4>1. s \in Thread /\ pc[s] # "idle"
        BY <1>2, <3>1 DEF Thread
      <4> QED BY <4>1 DEF CheckInv, OneControl
    <3> QED BY <1>2, <3>1 DEF CheckInv, OneControl
  <2> QED BY <2>1, <2>4, <2>5, <2>6 DEF CheckInv
<1>3. CASE UNCHANGED vars \/ Done \/ RequestStop \/ Join
  BY <1>1, <1>2, <1>3 DEF vars, Done, RequestStop, Join, QueueType
<1>4. CASE NotifyStop
  <2>1. pc' = Woken(Worker) /\ UNCHANGED <<queueVars, loopVars, controlVars>>
    BY <1>4 DEF NotifyStop
  <2>2. /\ pc' \in [Thread -> Place]
        /\ \A s \in Thread : pc'[s] = pc[s] \/ (pc[s] = "waiting" /\ pc'[s] = "woken")
    BY <1>1, <2>1 DEF Woken, Waiting, QueueType, Place
  <2> QED BY <1>2, <2>1, <2>2
<1>5. ASSUME NEW t \in Master, NewControl(t) PROVE CheckInv'
  BY <1>5, NewControlOK
<1>6. ASSUME NEW t \in Master, NEW m \in 0 .. MaxAdded, NEW checks \in [1 .. m -> Outcome],
             Add(t, checks)
      PROVE  CheckInv'
  BY <1>6, AddOK
<1>7. ASSUME NEW t \in Master, AddNotifies(t) \/ Complete(t) PROVE CheckInv'
  <2>1. /\ t \in Thread /\ pc[t] \in {"adding", "notify_one", "notify_all"} /\ Worker \in SUBSET Thread
        /\ UNCHANGED <<queueVars, loopVars, controlVars>>
    BY <1>7 DEF AddNotifies, Complete, Thread
  <2>2. CASE AddNotifies(t)
    <3>1. Moved(t, "adding")
      BY <1>1, <2>1, <2>2, MoveFacts DEF AddNotifies, Place
    <3> QED BY <2>1, <3>1, ThreadStep
  <2>3. CASE Complete(t)
    <3>1. Moved(t, "loop")
      BY <1>1, <2>1, <2>3, MoveFacts DEF Complete, Place
    <3> QED BY <2>1, <3>1, ThreadStep
  <2> QED BY <1>7, <2>2, <2>3
<1>8. ASSUME NEW t \in Thread, Wait(t) \/ SpuriousWakeup(t) \/ WakeUp(t) \/ Exit(t) PROVE CheckInv'
  <2>1. CASE Wait(t)
    <3>1. Moved(t, "waiting")
      BY <1>1, <2>1, MoveFacts DEF Wait, Place
    <3> QED BY <2>1, <3>1, ThreadStep DEF Wait
  <2>2. CASE SpuriousWakeup(t)
    <3>1. Moved(t, "woken")
      BY <1>1, <2>2, MoveFacts DEF SpuriousWakeup, Place
    <3> QED BY <2>2, <3>1, ThreadStep DEF SpuriousWakeup
  <2>3. CASE WakeUp(t)
    <3>1. Moved(t, "locked")
      BY <1>1, <2>3, MoveFacts DEF WakeUp, Place
    <3> QED BY <2>3, <3>1, ThreadStep DEF WakeUp
  <2>4. CASE Exit(t)
    <3>1. Moved(t, "exited")
      BY <1>1, <2>4, MoveFacts DEF Exit, Place
    <3> QED BY <2>4, <3>1, ThreadStep DEF Exit
  <2> QED BY <1>8, <2>1, <2>2, <2>3, <2>4
<1>9. ASSUME NEW t \in Thread, CleanUp(t) \/ Return(t) \/ TakeBatch(t) \/ Execute(t) PROVE CheckInv'
  BY <1>9, CleanUpOK, ReturnOK, TakeBatchOK, ExecuteOK
<1> QED BY <1>3, <1>4, <1>5, <1>6, <1>7, <1>8, <1>9 DEF Next, Loop

(* The inductive invariant: nTodo counts the checks in the queue and with  *)
(* the threads, every batch that was run without an error known before has *)
(* left its outcome, and every error is the result or pending.             *)
THEOREM CheckInvHolds == Spec => []CheckInv
BY CheckInit, CheckStep, PTL DEF Spec

(* With any number of workers and masters, any batch size and any checks,  *)
(* Complete returns nullopt exactly if every check added under its control *)
(* gave nullopt, and else the error of one of these checks.                *)
THEOREM CompleteAlwaysFaithful == Spec => []CompleteFaithful
<1>1. CheckInv => CompleteFaithful
  BY DEF CheckInv
<1> QED BY <1>1, CheckInvHolds, PTL

(* nTodo, nIdle and nTotal, which Complete waits for and the batch size is *)
(* computed from, never go below zero: they count what they are meant to.  *)
THEOREM CountersExact == Spec => [](TodoCount /\ IdleCount /\ TotalCount)
<1>1. CheckInv => TodoCount /\ IdleCount /\ TotalCount
  BY DEF CheckInv
<1> QED BY <1>1, CheckInvHolds, PTL
=============================================================================
