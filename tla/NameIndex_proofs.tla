-------------------------- MODULE NameIndex_proofs --------------------------
(* The name-hash index, for any tree of blocks and any bounds: what its    *)
(* best block promises, in memory and on disk, is in the index, and the    *)
(* best block on disk is known to every later start.                       *)
EXTENDS NameIndex, WellFoundedInduction, TLAPS

(* Most leaves are first-order, so Zenon is the default prover; a leaf that  *)
(* needs arithmetic, records or function application says SMT.              *)
USE Zenon

BlockOrNull == Block \cup {null}

Syncing == {"loop", "process", "commit", "write", "recheck"}

IndexType ==
  /\ m_chain \in BlockOrNull /\ m_last_flushed_block \in BlockOrNull /\ coinsDB \in BlockOrNull
  /\ m_best_block_index \in BlockOrNull /\ bestDB \in BlockOrNull
  /\ m_synced \in BOOLEAN
  /\ pindex \in [sync : BlockOrNull, callback : BlockOrNull]
  /\ pc \in [sync : Syncing \cup {"none", "done"},
             callback : {"none", "process", "set", "commit", "write"}]
  /\ ret \in [sync : {"none", "loop", "recheck", "done"}, callback : {"none"}]

(* The block index holds the chains in memory and on disk.                 *)
BlocksKnown ==
  /\ Chain(coinsDB) \subseteq blockIndexDB
  /\ bestDB \in blockIndexDB \cup {null}
  /\ node = "down" => pc = [sync |-> "none", callback |-> "none"]
  /\ node # "down" => /\ blockIndexDB \subseteq m_block_index
                      /\ Chain(m_chain) \subseteq m_block_index
                      /\ Chain(m_last_flushed_block) \subseteq blockIndexDB

(* The two threads take turns: one works on the index until m_synced is    *)
(* set, the other from then on.  So the best block that Commit compared    *)
(* with the flushed chain is the one it writes.                            *)
TurnsTaken ==
  /\ pc.sync \in Syncing => ~m_synced
  /\ pc.callback # "none" => m_synced
  /\ (pc.sync = "write" \/ pc.callback = "write") => m_best_block_index \in blockIndexDB

Covered(b) == NamesOf(b) \subseteq hashDB

(* What each thread knows of the index where it is.                        *)
BlocksIndexed ==
  /\ Covered(m_best_block_index) /\ Covered(bestDB)
  /\ pc.sync \in Syncing \ {"process"} => Covered(pindex.sync)
  /\ pc.sync = "process" => pindex.sync \in Block /\ Covered(pprev[pindex.sync])
  /\ pc.callback = "process" => pindex.callback \in Block /\ Covered(pprev[pindex.callback])
  /\ pc.callback = "set" => Covered(pindex.callback)

IndexInv == IndexType /\ BlocksKnown /\ TurnsTaken /\ BlocksIndexed /\ fatal # "InitError"

-----------------------------------------------------------------------------
(* The tree.                                                               *)

(* A set of naturals has a least element.                                  *)
LEMMA LeastNat ==
  ASSUME NEW H \in SUBSET Nat, H # {}
  PROVE  \E n \in H : \A m \in H : n <= m
<1>1. \E n \in H : \A m \in H : ~(<<m, n>> \in OpToRel(<, Nat))
  BY NatLessThanWellFounded, WFMin
<1>2. ASSUME NEW m \in Nat, NEW n \in Nat, m < n PROVE <<m, n>> \in OpToRel(<, Nat)
  BY <1>2 DEF OpToRel
<1>3. \E n \in H : \A m \in H : ~(m < n)
  BY <1>1, <1>2
<1> QED BY <1>3, SMT

(* What genesis has, and a block has if its predecessor has it, every      *)
(* block has.                                                              *)
LEMMA TreeInduction ==
  ASSUME NEW S, genesis \in S,
         \A b \in Block \ {genesis} : pprev[b] \in S => b \in S
  PROVE  Block \subseteq S
<1> SUFFICES ASSUME Block \ S # {} PROVE FALSE
  OBVIOUS
<1> DEFINE H == {nHeight[b] : b \in Block \ S}
<1>1. H \in SUBSET Nat /\ H # {}
  BY TreeAssumption, SMT
<1>2. PICK n \in H : \A m \in H : n <= m
  BY <1>1, LeastNat
<1>3. PICK b \in Block \ S : nHeight[b] = n
  BY <1>2
<1>4. pprev[b] \in Block /\ nHeight[b] = nHeight[pprev[b]] + 1
  BY <1>3, TreeAssumption
<1>5. pprev[b] \in S
  <2>1. nHeight[pprev[b]] \in Nat /\ nHeight[pprev[b]] < n
    BY <1>3, <1>4, TreeAssumption, SMT
  <2>2. nHeight[pprev[b]] \notin H
    <3> HIDE DEF H
    <3>1. n \in Nat /\ (nHeight[pprev[b]] \in H => n <= nHeight[pprev[b]])
      BY <1>1, <1>2
    <3> QED BY <2>1, <3>1, SMT
  <2> QED BY <1>4, <2>2
<1> QED BY <1>3, <1>5

(* A block and genesis are on its chain, and every other block of the      *)
(* chain is lower.                                                         *)
LEMMA AncestorsBelow ==
  ASSUME NEW b \in Block
  PROVE  /\ b \in ancestors[b] /\ genesis \in ancestors[b] /\ ancestors[b] \subseteq Block
         /\ \A a \in ancestors[b] : a # b => nHeight[a] < nHeight[b]
<1> DEFINE S == {c \in Block : /\ genesis \in ancestors[c]
                               /\ \A a \in ancestors[c] : a # c => nHeight[a] < nHeight[c]}
<1>1. genesis \in S
  BY TreeAssumption
<1>2. ASSUME NEW c \in Block \ {genesis}, pprev[c] \in S PROVE c \in S
  <2>1. /\ ancestors[c] = {c} \cup ancestors[pprev[c]] /\ nHeight[c] = nHeight[pprev[c]] + 1
        /\ pprev[c] \in Block /\ nHeight[c] \in Nat /\ nHeight[pprev[c]] \in Nat
        /\ ancestors[c] \subseteq Block
    BY TreeAssumption
  <2>2. ASSUME NEW a \in ancestors[c], a # c PROVE nHeight[a] < nHeight[c]
    <3>1. a \in ancestors[pprev[c]] /\ nHeight[a] \in Nat
      BY <2>1, <2>2, TreeAssumption
    <3>2. nHeight[a] < nHeight[pprev[c]] \/ a = pprev[c]
      BY <1>2, <3>1
    <3> QED BY <2>1, <3>1, <3>2, SMT
  <2> QED BY <1>2, <2>1, <2>2
<1>3. b \in S
  BY <1>1, <1>2, TreeInduction
<1> QED BY <1>3, TreeAssumption, SMT

(* The chain of a block of the chain is part of the chain.                 *)
LEMMA AncestorsClosed ==
  ASSUME NEW b \in Block, NEW a \in ancestors[b]
  PROVE  ancestors[a] \subseteq ancestors[b]
<1> DEFINE S == {c \in Block : \A d \in ancestors[c] : ancestors[d] \subseteq ancestors[c]}
<1>1. genesis \in S
  BY TreeAssumption
<1>2. ASSUME NEW c \in Block \ {genesis}, pprev[c] \in S PROVE c \in S
  BY <1>2, TreeAssumption, SMT
<1>3. b \in S
  BY <1>1, <1>2, TreeInduction
<1> QED BY <1>3

(* Of two blocks of a chain, one is on the chain of the other.             *)
LEMMA AncestorsLinear ==
  ASSUME NEW b \in Block, NEW c \in ancestors[b], NEW d \in ancestors[b]
  PROVE  c \in ancestors[d] \/ d \in ancestors[c]
<1> DEFINE S == {x \in Block : \A y, z \in ancestors[x] : y \in ancestors[z] \/ z \in ancestors[y]}
<1>1. genesis \in S
  BY TreeAssumption
<1>2. ASSUME NEW x \in Block \ {genesis}, pprev[x] \in S PROVE x \in S
  BY <1>2, TreeAssumption, SMT
<1>3. b \in S
  BY <1>1, <1>2, TreeInduction
<1> QED BY <1>3

(* The chain of a block that is not part of another chain leaves it at     *)
(* some block.                                                             *)
LEMMA FirstNewBlock ==
  ASSUME NEW b \in Block, NEW p \in BlockOrNull, b \notin Chain(p)
  PROVE  \E c \in ancestors[b] \ Chain(p) : HasAncestor(p, pprev[c])
<1> DEFINE S == {x \in Block : x \notin Chain(p) =>
                   \E c \in ancestors[x] \ Chain(p) : HasAncestor(p, pprev[c])}
<1>1. genesis \in S
  BY TreeAssumption DEF HasAncestor
<1>2. ASSUME NEW x \in Block \ {genesis}, pprev[x] \in S PROVE x \in S
  <2>1. pprev[x] \in Block /\ ancestors[x] = {x} \cup ancestors[pprev[x]]
    BY TreeAssumption
  <2>2. CASE pprev[x] \in Chain(p)
    BY <2>1, <2>2 DEF HasAncestor
  <2>3. CASE pprev[x] \notin Chain(p)
    BY <1>2, <2>1, <2>3
  <2> QED BY <2>2, <2>3
<1>3. b \in S
  BY <1>1, <1>2, TreeInduction
<1> QED BY <1>3

(* The chain of an ancestor is part of the chain.                          *)
LEMMA ChainBelow ==
  ASSUME NEW p \in BlockOrNull, NEW q, HasAncestor(p, q)
  PROVE  Chain(q) \subseteq Chain(p)
BY AncestorsClosed DEF BlockOrNull, HasAncestor, Chain

(* A block adds itself to the chain of its predecessor.                    *)
LEMMA ChainOfBlock ==
  ASSUME NEW b \in Block
  PROVE  /\ pprev[b] \in BlockOrNull
         /\ Chain(b) = {b} \cup Chain(pprev[b])
BY TreeAssumption DEF BlockOrNull, Chain

(* The names of an indexed block's ancestors are indexed.                  *)
LEMMA CoveredBelow ==
  ASSUME NEW p \in BlockOrNull, NEW q, HasAncestor(p, q), Covered(p)
  PROVE  Covered(q)
BY ChainBelow DEF Covered, NamesOf

-----------------------------------------------------------------------------
(* The chain moves, is flushed, starts.                                    *)

(* AppInitMain finds the best block of the index in its block index.       *)
LEMMA StartOK ==
  ASSUME IndexInv, NEW wipe \in BOOLEAN, Start(wipe)
  PROVE  IndexInv'
<1>1. /\ node' = "up" /\ m_best_block_index' = bestDB
      /\ m_synced' \in BOOLEAN /\ UNCHANGED fatal
  BY DEF IndexInv, BlocksKnown, Start
<1>2. /\ coinsDB' \in {coinsDB, null} /\ m_chain' = coinsDB' /\ m_last_flushed_block' = coinsDB'
      /\ m_block_index' = blockIndexDB /\ UNCHANGED <<blockIndexDB, pc, ret, pindex, bestDB, hashDB>>
      /\ pc = [sync |-> "none", callback |-> "none"]
  BY DEF Start, threadVars, dbVars, IndexInv, BlocksKnown
<1>3. IndexType'
  BY <1>1, <1>2 DEF IndexInv, IndexType, BlockOrNull
<1>4. BlocksKnown'
  BY <1>1, <1>2 DEF IndexInv, BlocksKnown, Chain
<1>5. TurnsTaken'
  BY <1>1, <1>2 DEF TurnsTaken, Syncing
<1>6. BlocksIndexed'
  BY <1>1, <1>2 DEF IndexInv, BlocksIndexed, Covered, NamesOf, Chain, Syncing
<1> QED BY <1>1, <1>3, <1>4, <1>5, <1>6 DEF IndexInv

-----------------------------------------------------------------------------
(* The invariant.                                                          *)

(* The inductive invariant of the index and the block index below it.      *)
THEOREM IndexInvHolds == Spec => []IndexInv
(* NextSyncBlock is built on a block that is indexed.                      *)
<1>NextOnTop.
  ASSUME NEW p \in BlockOrNull, NEW tip \in BlockOrNull, NextSyncBlock(p, tip) # null
  PROVE  NextSyncBlock(p, tip) \in Block /\ HasAncestor(p, pprev[NextSyncBlock(p, tip)])
<2> USE <1>NextOnTop
<2> DEFINE new == Chain(tip) \ Chain(p)
<2>1. new # {} /\ tip \in Block
  BY DEF NextSyncBlock, Chain, BlockOrNull
<2>2. \E c \in new : HasAncestor(p, pprev[c])
  <3>1. Chain(tip) = ancestors[tip] /\ tip \in ancestors[tip]
    BY <2>1, TreeAssumption, AncestorsBelow DEF Chain
  <3>2. tip \notin Chain(p)
    BY <2>1, <3>1, ChainBelow DEF HasAncestor
  <3> QED BY <2>1, <3>1, <3>2, FirstNewBlock
<2>3. new \subseteq Block
  BY <2>1, TreeAssumption DEF Chain
<2> QED BY <2>1, <2>2, <2>3 DEF NextSyncBlock
(* CustomAppend of a block whose predecessor is indexed.                   *)
<1>CoveredAbove.
  ASSUME NEW b \in Block, Covered(pprev[b]), hashDB' = hashDB \cup names[b]
  PROVE  /\ NamesOf(b) \subseteq hashDB'
         /\ \A c : Covered(c) => NamesOf(c) \subseteq hashDB'
<2> USE <1>CoveredAbove
<2>1. NamesOf(b) = names[b] \cup NamesOf(pprev[b])
  BY ChainOfBlock, SMT DEF NamesOf
<2> QED BY <2>1 DEF Covered
(* A process that ends leaves nothing to promise in memory.                *)
<1>DownOK.
  ASSUME IndexInv, Down, UNCHANGED <<coinsDB, bestDB, hashDB>>, fatal' # "InitError",
         blockIndexDB' = blockIndexDB \/ (node # "down" /\ blockIndexDB' = m_block_index)
  PROVE  IndexInv'
<2> USE <1>DownOK
<2>1. IndexType'
  BY DEF IndexInv, IndexType, Down, BlockOrNull, Syncing
<2>2. BlocksKnown'
  BY DEF IndexInv, BlocksKnown, Down, Chain
<2>3. TurnsTaken'
  BY DEF TurnsTaken, Down, Syncing
<2>4. BlocksIndexed'
  <3>1. NamesOf(null) = {}
    BY DEF NamesOf, Chain
  <3> QED BY <3>1 DEF IndexInv, BlocksIndexed, Covered, Down, Syncing, NamesOf, Chain
<2> QED BY <2>1, <2>2, <2>3, <2>4 DEF IndexInv
(* Nothing of the index changes when the chain does.                       *)
<1>IndexFrame.
  ASSUME IndexInv, UNCHANGED <<indexVars, threadVars, dbVars, fatal>>,
         BlocksKnown', blockIndexDB \subseteq blockIndexDB',
         m_chain' \in BlockOrNull, m_last_flushed_block' \in BlockOrNull, coinsDB' \in BlockOrNull
  PROVE  IndexInv'
<2> USE <1>IndexFrame
<2> USE DEF indexVars, threadVars, dbVars
<2>1. IndexType'
  BY DEF IndexInv, IndexType
<2>2. TurnsTaken'
  BY DEF IndexInv, TurnsTaken
<2>3. BlocksIndexed'
  BY DEF IndexInv, BlocksIndexed, Covered, NamesOf, Chain
<2> QED BY <2>1, <2>2, <2>3 DEF IndexInv
(* ActivateBestChain, InvalidateBlock, FlushStateToDisk and Shutdown keep  *)
(* the block index ahead of the chains.                                    *)
<1>ChainMovesOK.
  ASSUME IndexInv,
         \/ \E b \in Block : ActivateBestChain(b)
         \/ InvalidateBlock \/ FlushStateToDisk \/ Shutdown
  PROVE  IndexInv'
<2> USE <1>ChainMovesOK
<2> USE DEF IndexInv, IndexType, BlocksKnown
<2>1. ASSUME NEW b \in Block, ActivateBestChain(b) PROVE IndexInv'
  <3>1. /\ node = "up" /\ UNCHANGED <<node, fatal, m_last_flushed_block, blockIndexDB, coinsDB>>
        /\ UNCHANGED <<indexVars, threadVars, dbVars>>
        /\ m_chain' = b /\ m_block_index' = m_block_index \cup ancestors[b]
    BY <2>1 DEF ActivateBestChain, MayMove
  <3>2. m_chain' \in BlockOrNull /\ Chain(b) = ancestors[b]
    BY <3>1, TreeAssumption DEF BlockOrNull, Chain
  <3>3. BlocksKnown'
    BY <3>1, <3>2 DEF threadVars, dbVars, Chain
  <3> QED BY <3>1, <3>2, <3>3, <1>IndexFrame
<2>2. CASE InvalidateBlock
  <3>1. /\ node = "up" /\ UNCHANGED <<node, fatal, m_block_index, m_last_flushed_block, blockIndexDB, coinsDB>>
        /\ UNCHANGED <<indexVars, threadVars, dbVars>>
        /\ m_chain \in Block /\ m_chain' = pprev[m_chain]
    BY <2>2 DEF InvalidateBlock, MayMove, BlockOrNull
  <3>2. m_chain' \in BlockOrNull /\ Chain(m_chain') \subseteq Chain(m_chain)
    BY <3>1, ChainOfBlock
  <3>3. BlocksKnown'
    BY <3>1, <3>2 DEF threadVars, dbVars, Chain
  <3> QED BY <3>1, <3>2, <3>3, <1>IndexFrame
<2>3. ASSUME node = "up", node' # "down", Flushed, UNCHANGED <<fatal, indexVars, threadVars, dbVars>>
      PROVE  IndexInv'
  <3>1. BlocksKnown' /\ blockIndexDB \subseteq blockIndexDB'
    BY <2>3 DEF Flushed, threadVars, dbVars, Chain
  <3> QED BY <2>3, <3>1, <1>IndexFrame DEF Flushed
<2>4. CASE FlushStateToDisk
  BY <2>3, <2>4 DEF FlushStateToDisk
<2>5. CASE Shutdown
  <3>1. CASE Flushed
    BY <2>3, <2>5, <3>1 DEF Shutdown
  <3>2. CASE UNCHANGED chainVars
    <4>1. BlocksKnown'
      BY <2>5, <3>2 DEF Shutdown, chainVars, threadVars, dbVars, Chain
    <4> QED BY <2>5, <3>2, <4>1, <1>IndexFrame DEF Shutdown, chainVars
  <3> QED BY <2>5, <3>1, <3>2 DEF Shutdown
<2> QED BY <2>1, <2>2, <2>4, <2>5
(* Commit writes the best block it has compared with the flushed chain.    *)
<1>CommitOK.
  ASSUME IndexInv, NEW t \in {"sync", "callback"}, CommitCheck(t) \/ CommitWrite(t)
  PROVE  IndexInv'
<2> USE <1>CommitOK
<2> USE DEF IndexInv, IndexType, Syncing
<2>1. CASE CommitCheck(t)
  <3>1. UNCHANGED <<node, fatal, chainVars, indexVars, pindex, dbVars>> /\ pc[t] = "commit"
    BY <2>1 DEF CommitCheck
  <3>2. node # "down"
    BY <3>1, SMT DEF BlocksKnown
  <3>3. CASE m_best_block_index \in Chain(m_last_flushed_block) /\ Goto(t, "write")
    <4>1. m_best_block_index \in blockIndexDB
      BY <3>2, <3>3 DEF BlocksKnown
    <4>2. IndexType'
      BY <3>1, <3>3 DEF Goto, chainVars, indexVars, dbVars
    <4>3. BlocksKnown'
      BY <3>1, <3>2 DEF BlocksKnown, chainVars, dbVars, Chain
    <4>4. TurnsTaken'
      BY <3>1, <3>3, <4>1 DEF TurnsTaken, Goto, chainVars, indexVars
    <4>5. BlocksIndexed'
      BY <3>1, <3>3 DEF BlocksIndexed, Goto, indexVars, dbVars, Covered, NamesOf, Chain
    <4> QED BY <3>1, <4>2, <4>3, <4>4, <4>5
  <3>4. CASE Return(t)
    <4>2. IndexType'
      BY <3>1, <3>4 DEF Return, chainVars, indexVars, dbVars
    <4>3. BlocksKnown'
      BY <3>1, <3>2 DEF BlocksKnown, chainVars, dbVars, Chain
    <4>4. TurnsTaken'
      BY <3>1, <3>4 DEF TurnsTaken, Return, chainVars, indexVars
    <4>5. BlocksIndexed'
      BY <3>1, <3>4 DEF BlocksIndexed, Return, indexVars, dbVars, Covered, NamesOf, Chain
    <4> QED BY <3>1, <4>2, <4>3, <4>4, <4>5
  <3> QED BY <2>1, <3>3, <3>4 DEF CommitCheck
<2>2. CASE CommitWrite(t)
  <3>1. /\ UNCHANGED <<node, fatal, chainVars, indexVars, pindex, hashDB>>
        /\ pc[t] = "write" /\ Return(t) /\ bestDB' = m_best_block_index
    BY <2>2 DEF CommitWrite
  <3>2. node # "down" /\ m_best_block_index \in blockIndexDB
    BY <3>1, SMT DEF BlocksKnown, TurnsTaken
  <3>3. IndexType'
    BY <3>1 DEF Return, chainVars, indexVars
  <3>4. BlocksKnown'
    BY <3>1, <3>2 DEF BlocksKnown, chainVars, Chain
  <3>5. TurnsTaken'
    BY <3>1 DEF TurnsTaken, Return, chainVars, indexVars
  <3>6. BlocksIndexed'
    BY <3>1 DEF BlocksIndexed, Return, indexVars, Covered, NamesOf, Chain
  <3> QED BY <3>1, <3>3, <3>4, <3>5, <3>6
<2> QED BY <2>1, <2>2
(* A step of a thread that leaves the chain and the disk alone.            *)
<1>ThreadFrame.
  ASSUME IndexInv, UNCHANGED <<node, fatal, chainVars, bestDB>>, node # "down",
         IndexType', TurnsTaken', BlocksIndexed'
  PROVE  IndexInv'
<2> USE <1>ThreadFrame
<2>1. BlocksKnown'
  BY DEF IndexInv, BlocksKnown, chainVars, Chain
<2> QED BY <2>1 DEF IndexInv
(* The way to the next block starts at an indexed block.                   *)
<1>AdvanceOK.
  ASSUME IndexInv, pc.sync \in {"loop", "recheck"},
         NextSyncBlock(pindex.sync, m_chain) # null, Advance(NextSyncBlock(pindex.sync, m_chain)),
         UNCHANGED <<node, fatal, chainVars, m_synced, bestDB, hashDB>>
  PROVE  IndexInv'
<2> USE <1>AdvanceOK
<2> USE DEF IndexInv, IndexType, Syncing
<2> DEFINE next == NextSyncBlock(pindex.sync, m_chain)
<2>1. next \in Block /\ HasAncestor(pindex.sync, pprev[next])
  BY <1>NextOnTop
<2> HIDE DEF next
<2>2. pprev[next] \in BlockOrNull /\ Covered(pprev[next])
  BY <2>1, ChainOfBlock, CoveredBelow DEF BlocksIndexed
<2>3. /\ m_best_block_index' \in {pprev[next], m_best_block_index}
      /\ pindex' = [pindex EXCEPT !.sync = next]
      /\ pc' = [pc EXCEPT !.sync = "process"] /\ ret' = ret
  BY DEF Advance, Goto, next
<2>4. node # "down"
  BY SMT DEF BlocksKnown
<2>5. IndexType'
  BY <2>1, <2>2, <2>3 DEF chainVars, BlockOrNull
<2>6. TurnsTaken'
  BY <2>3 DEF TurnsTaken
<2>7. BlocksIndexed'
  BY <2>1, <2>2, <2>3 DEF BlocksIndexed, Covered, NamesOf, Chain
<2> QED BY <2>4, <2>5, <2>6, <2>7, <1>ThreadFrame
(* The steps of Sync but Commit.                                           *)
<1>SyncOK.
  ASSUME IndexInv, StartBackgroundSync \/ SyncInterrupted \/ SyncNext \/ SyncRecheck \/ SyncProcess
  PROVE  IndexInv'
<2> USE <1>SyncOK
<2> USE DEF IndexInv, IndexType, Syncing
<2>1. CASE StartBackgroundSync
  <3>1. /\ UNCHANGED <<node, fatal, chainVars, indexVars, dbVars, ret>> /\ node # "down"
        /\ pc.sync = "none"
        /\ \/ pc' = [pc EXCEPT !.sync = "done"] /\ UNCHANGED pindex
           \/ /\ ~m_synced /\ pc' = [pc EXCEPT !.sync = "loop"]
              /\ pindex' = [pindex EXCEPT !.sync = m_best_block_index]
    BY <2>1 DEF StartBackgroundSync, Goto
  <3>2. IndexType'
    BY <3>1 DEF chainVars, indexVars, dbVars
  <3>3. TurnsTaken'
    BY <3>1 DEF TurnsTaken, chainVars, indexVars
  <3>4. BlocksIndexed'
    BY <3>1, SMT DEF BlocksIndexed, indexVars, dbVars, Covered, NamesOf, Chain
  <3> QED BY <3>1, <3>2, <3>3, <3>4, <1>ThreadFrame DEF dbVars
<2>2. ASSUME NEW next \in {"done", "recheck"}, pc.sync = "loop",
             m_best_block_index' = pindex.sync, CallCommit("sync", next),
             UNCHANGED <<node, fatal, chainVars, m_synced, pindex, dbVars>>
      PROVE  IndexInv'
  <3>1. node # "down"
    BY <2>2, SMT DEF BlocksKnown
  <3>2. IndexType'
    BY <2>2 DEF CallCommit, chainVars, dbVars
  <3>3. TurnsTaken'
    BY <2>2 DEF TurnsTaken, CallCommit
  <3>4. BlocksIndexed'
    BY <2>2 DEF BlocksIndexed, CallCommit, dbVars, Covered, NamesOf, Chain
  <3> QED BY <2>2, <3>1, <3>2, <3>3, <3>4, <1>ThreadFrame DEF dbVars
<2>3. CASE SyncInterrupted
  BY <2>2, <2>3 DEF SyncInterrupted
<2>4. CASE SyncNext
  <3>1. CASE NextSyncBlock(pindex.sync, m_chain) = null
    BY <2>2, <2>4, <3>1 DEF SyncNext
  <3>2. CASE NextSyncBlock(pindex.sync, m_chain) # null
    BY <2>4, <3>2, <1>AdvanceOK DEF SyncNext, dbVars
  <3> QED BY <3>1, <3>2
<2>5. CASE SyncRecheck
  <3>1. CASE NextSyncBlock(pindex.sync, m_chain) = null
    <4>1. /\ UNCHANGED <<node, fatal, chainVars, m_best_block_index, dbVars, ret>>
          /\ pc.sync = "recheck" /\ m_synced' = TRUE
          /\ pindex' = [pindex EXCEPT !.sync = null] /\ pc' = [pc EXCEPT !.sync = "done"]
      BY <2>5, <3>1 DEF SyncRecheck, Goto
    <4>2. node # "down"
      BY <4>1, SMT DEF BlocksKnown
    <4>3. IndexType'
      BY <4>1 DEF chainVars, dbVars, BlockOrNull
    <4>4. TurnsTaken'
      BY <4>1 DEF TurnsTaken, chainVars
    <4>5. BlocksIndexed'
      BY <4>1 DEF BlocksIndexed, dbVars, Covered, NamesOf, Chain
    <4> QED BY <4>1, <4>2, <4>3, <4>4, <4>5, <1>ThreadFrame DEF dbVars
  <3>2. CASE NextSyncBlock(pindex.sync, m_chain) # null
    BY <2>5, <3>2, <1>AdvanceOK DEF SyncRecheck, dbVars
  <3> QED BY <3>1, <3>2
<2>6. CASE SyncProcess
  <3>1. /\ UNCHANGED <<node, fatal, chainVars, m_synced, pindex, bestDB>> /\ pc.sync = "process"
        /\ hashDB' = hashDB \cup names[pindex.sync]
        /\ \/ pc' = [pc EXCEPT !.sync = "loop"] /\ UNCHANGED <<m_best_block_index, ret>>
           \/ /\ m_best_block_index' = pindex.sync
              /\ pc' = [pc EXCEPT !.sync = "commit"] /\ ret' = [ret EXCEPT !.sync = "loop"]
    BY <2>6 DEF SyncProcess, Goto, CallCommit
  <3>2. node # "down"
    BY <3>1, SMT DEF BlocksKnown
  <3>3. /\ NamesOf(pindex.sync) \subseteq hashDB'
        /\ \A c : Covered(c) => NamesOf(c) \subseteq hashDB'
    BY <3>1, <1>CoveredAbove DEF BlocksIndexed
  <3>4. IndexType'
    BY <3>1 DEF chainVars
  <3>5. TurnsTaken'
    BY <3>1 DEF TurnsTaken, chainVars
  <3>6. BlocksIndexed'
    BY <3>1, <3>3 DEF BlocksIndexed, TurnsTaken, Covered, NamesOf, Chain
  <3> QED BY <3>1, <3>2, <3>4, <3>5, <3>6, <1>ThreadFrame
<2> QED BY <2>1, <2>3, <2>4, <2>5, <2>6
(* What is left of the index alone keeps the invariant.                    *)
<1>NothingOfIndex.
  ASSUME IndexInv, UNCHANGED <<node, fatal, chainVars, m_synced, m_best_block_index, threadVars, dbVars>>
  PROVE  IndexInv'
BY <1>NothingOfIndex, SMT DEF IndexInv, IndexType, BlocksKnown, TurnsTaken, BlocksIndexed, Covered, NamesOf, Chain,
       chainVars, threadVars, dbVars
(* An error that is not that of Init ends the node.                        *)
<1>FailOK.
  ASSUME IndexInv, NEW reason, reason # "InitError", Fail(reason)
  PROVE  IndexInv'
BY <1>FailOK, <1>DownOK DEF Fail, dbVars
(* The handlers of the callbacks but Commit.                               *)
<1>CallbackOK.
  ASSUME IndexInv,
         BlockConnected \/ CallbackProcess \/ CallbackSetBest \/ ChainStateFlushed \/ PromiseKept
  PROVE  IndexInv'
<2> USE <1>CallbackOK
<2> USE DEF IndexInv, IndexType, Syncing
<2>1. ASSUME Ignore PROVE IndexInv'
  BY <2>1, <1>NothingOfIndex DEF Ignore, indexVars
<2>2. CASE BlockConnected
  <3>1. CASE Ignore
    BY <2>1, <3>1
  <3>2. ASSUME NEW reason \in {"FirstBlock", "RewindNull"}, Fail(reason) PROVE IndexInv'
    BY <3>2, <1>FailOK
  <3>3. ASSUME NEW b \in Block, m_synced, HasAncestor(m_best_block_index, pprev[b]),
               m_best_block_index' = pprev[b], pindex' = [pindex EXCEPT !.callback = b],
               Goto("callback", "process"), pc.callback = "none", node # "down",
               UNCHANGED <<node, fatal, chainVars, m_synced, dbVars>>
        PROVE  IndexInv'
    <4>1. pprev[b] \in BlockOrNull /\ Covered(pprev[b])
      BY <3>3, ChainOfBlock, CoveredBelow DEF BlocksIndexed
    <4>2. IndexType'
      BY <3>3, <4>1 DEF Goto, chainVars, dbVars, BlockOrNull
    <4>3. TurnsTaken'
      BY <3>3 DEF TurnsTaken, Goto
    <4>4. BlocksIndexed'
      BY <3>3, <4>1 DEF BlocksIndexed, TurnsTaken, Goto, dbVars, Covered, NamesOf, Chain
    <4> QED BY <3>3, <4>2, <4>3, <4>4, <1>ThreadFrame DEF dbVars
  <3> QED BY <2>2, <3>1, <3>2, <3>3 DEF BlockConnected, Handles
<2>3. CASE CallbackProcess
  <3>1. /\ UNCHANGED <<node, fatal, chainVars, indexVars, pindex, bestDB, ret>>
        /\ pc.callback = "process" /\ pc' = [pc EXCEPT !.callback = "set"]
        /\ hashDB' = hashDB \cup names[pindex.callback]
    BY <2>3 DEF CallbackProcess, Goto
  <3>2. node # "down"
    BY <3>1, SMT DEF BlocksKnown
  <3>3. /\ NamesOf(pindex.callback) \subseteq hashDB'
        /\ \A c : Covered(c) => NamesOf(c) \subseteq hashDB'
    BY <3>1, <1>CoveredAbove DEF BlocksIndexed
  <3>4. IndexType'
    BY <3>1 DEF chainVars, indexVars
  <3>5. TurnsTaken'
    BY <3>1 DEF TurnsTaken, chainVars, indexVars
  <3>6. BlocksIndexed'
    BY <3>1, <3>3 DEF BlocksIndexed, TurnsTaken, indexVars, Covered, NamesOf, Chain
  <3> QED BY <3>1, <3>2, <3>4, <3>5, <3>6, <1>ThreadFrame
<2>4. CASE CallbackSetBest
  <3>1. /\ UNCHANGED <<node, fatal, chainVars, m_synced, dbVars, ret>>
        /\ pc.callback = "set" /\ pc' = [pc EXCEPT !.callback = "none"]
        /\ m_best_block_index' = pindex.callback /\ pindex' = [pindex EXCEPT !.callback = null]
    BY <2>4 DEF CallbackSetBest, Goto
  <3>2. node # "down"
    BY <3>1, SMT DEF BlocksKnown
  <3>3. IndexType'
    BY <3>1 DEF chainVars, dbVars, BlockOrNull
  <3>4. TurnsTaken'
    BY <3>1 DEF TurnsTaken, chainVars
  <3>5. BlocksIndexed'
    BY <3>1 DEF BlocksIndexed, TurnsTaken, dbVars, Covered, NamesOf, Chain
  <3> QED BY <3>1, <3>2, <3>3, <3>4, <3>5, <1>ThreadFrame DEF dbVars
<2>5. CASE ChainStateFlushed
  <3>1. CASE Ignore
    BY <2>1, <3>1
  <3>2. ASSUME NEW reason \in {"Locator", "FlushedNull"}, Fail(reason) PROVE IndexInv'
    BY <3>2, <1>FailOK
  <3>3. ASSUME m_synced, CallCommit("callback", "none"), pc.callback = "none", node # "down",
               UNCHANGED <<node, fatal, chainVars, indexVars, pindex, dbVars>>
        PROVE  IndexInv'
    <4>1. IndexType'
      BY <3>3 DEF CallCommit, chainVars, indexVars, dbVars
    <4>2. TurnsTaken'
      BY <3>3 DEF TurnsTaken, CallCommit, chainVars, indexVars
    <4>3. BlocksIndexed'
      BY <3>3 DEF BlocksIndexed, CallCommit, indexVars, dbVars, Covered, NamesOf, Chain
    <4> QED BY <3>3, <4>1, <4>2, <4>3, <1>ThreadFrame DEF dbVars
  <3> QED BY <2>5, <3>1, <3>2, <3>3 DEF ChainStateFlushed, Handles
<2>6. CASE PromiseKept
  BY <2>6, <1>NothingOfIndex DEF PromiseKept, indexVars
<2> QED BY <2>2, <2>3, <2>4, <2>5, <2>6
(* The node is down, and the index is empty.                               *)
<1>IndexInit. Init => IndexInv
<2> SUFFICES ASSUME Init PROVE IndexInv
  OBVIOUS
<2>1. IndexType
  BY TreeAssumption DEF Init, IndexType, BlockOrNull, Syncing
<2>2. BlocksKnown
  BY DEF Init, BlocksKnown
<2>3. TurnsTaken
  BY DEF Init, TurnsTaken, Syncing
<2>4. BlocksIndexed
  BY DEF Init, BlocksIndexed, Covered, NamesOf, Chain, Syncing
<2> QED BY <2>1, <2>2, <2>3, <2>4 DEF Init, IndexInv
(* Every step of the chain, of Sync and of the callbacks keeps it.         *)
<1>IndexStep. IndexInv /\ [Next]_vars => IndexInv'
<2> SUFFICES ASSUME IndexInv, [Next]_vars PROVE IndexInv'
  OBVIOUS
<2>Stutter. CASE UNCHANGED vars
  BY <2>Stutter, <1>NothingOfIndex DEF vars, indexVars
<2>Start. CASE \E wipe \in BOOLEAN : Start(wipe)
  BY <2>Start, StartOK
<2>Chain. CASE (\E b \in Block : ActivateBestChain(b)) \/ InvalidateBlock \/ FlushStateToDisk \/ Shutdown
  BY <2>Chain, <1>ChainMovesOK
<2>Crash. CASE Crash
  BY <2>Crash, <1>DownOK DEF Crash, dbVars, IndexInv
<2>Sync. CASE StartBackgroundSync \/ Sync
  BY <2>Sync, <1>SyncOK, <1>CommitOK DEF Sync
<2>Callback. CASE Callback
  BY <2>Callback, <1>CallbackOK, <1>CommitOK DEF Callback
<2>Wait. CASE BlockUntilSyncedToCurrentChain
  <3>1. CASE Fail("CallerNull")
    BY <3>1, <1>FailOK
  <3>2. CASE UNCHANGED <<node, fatal, chainVars, indexVars, threadVars, dbVars, boundVars>>
    BY <3>2, <1>NothingOfIndex DEF indexVars
  <3> QED BY <2>Wait, <3>1, <3>2 DEF BlockUntilSyncedToCurrentChain
<2>Read. CASE FindNamePreimage \/ Interrupt
  BY <2>Read, <1>NothingOfIndex DEF FindNamePreimage, Interrupt, indexVars
<2>Stop. CASE Stop
  BY <2>Stop, <1>DownOK DEF Stop, dbVars, IndexInv
<2> QED BY <2>Stutter, <2>Start, <2>Chain, <2>Crash, <2>Sync, <2>Callback, <2>Wait, <2>Read, <2>Stop DEF Next
<1> QED BY <1>IndexInit, <1>IndexStep, PTL DEF Spec

(* In any tree of blocks, whatever Sync, the callbacks, reorganisations,   *)
(* flushes, crashes and restarts do, every name registered up to the best  *)
(* block of the index, in memory and in DB_BEST_BLOCK, has its entry.      *)
THEOREM NamesAlwaysIndexed == Spec => []NamesIndexed
<1>1. IndexInv => NamesIndexed
  BY DEF IndexInv, BlocksIndexed, Covered, NamesIndexed
<1> QED BY <1>1, IndexInvHolds, PTL

(* Commit never writes a DB_BEST_BLOCK that a crash can take out of the    *)
(* block index, so Init finds the best block at every start.               *)
THEOREM BestBlockSurvives == Spec => [](bestDB \in blockIndexDB \cup {null} /\ fatal # "InitError")
<1>1. IndexInv => bestDB \in blockIndexDB \cup {null} /\ fatal # "InitError"
  BY DEF IndexInv, BlocksKnown
<1> QED BY <1>1, IndexInvHolds, PTL

-----------------------------------------------------------------------------
(* The pending callbacks.                                                  *)

(* Two blocks of a chain at one height are the same.                       *)
LEMMA OneAtHeight ==
  ASSUME NEW b \in Block, NEW c \in ancestors[b], NEW d \in ancestors[b], nHeight[c] = nHeight[d]
  PROVE  c = d
<1>1. c \in Block /\ d \in Block /\ nHeight[c] \in Nat
  BY AncestorsBelow, TreeAssumption
<1>2. c \in ancestors[d] \/ d \in ancestors[c]
  BY AncestorsLinear
<1>3. ~(nHeight[c] < nHeight[d]) /\ ~(nHeight[d] < nHeight[c])
  BY <1>1, SMT
<1> QED BY <1>1, <1>2, <1>3, AncestorsBelow

(* GetAncestor finds a block at every height up to that of b.              *)
LEMMA GetAncestorFinds ==
  ASSUME NEW b \in Block, NEW h \in 0..nHeight[b]
  PROVE  GetAncestor(b, h) \in ancestors[b] /\ nHeight[GetAncestor(b, h)] = h
<1> DEFINE S == {x \in Block : \A k \in 0..nHeight[x] : \E a \in ancestors[x] : nHeight[a] = k}
<1>1. genesis \in S
  BY TreeAssumption, SMT
<1>2. ASSUME NEW x \in Block \ {genesis}, pprev[x] \in S PROVE x \in S
  <2>1. /\ ancestors[x] = {x} \cup ancestors[pprev[x]] /\ nHeight[x] = nHeight[pprev[x]] + 1
        /\ nHeight[pprev[x]] \in Nat
    BY TreeAssumption
  <2>2. ASSUME NEW k \in 0..nHeight[x] PROVE \E a \in ancestors[x] : nHeight[a] = k
    <3>1. k = nHeight[x] \/ k \in 0..nHeight[pprev[x]]
      BY <2>1, SMT
    <3> QED BY <1>2, <2>1, <3>1
  <2> QED BY <2>2
<1>3. b \in S
  BY <1>1, <1>2, TreeInduction
<1> QED BY <1>3 DEF GetAncestor

(* FindFork: nothing is shared, or its result and all below it.            *)
LEMMA FindForkFinds ==
  ASSUME NEW b \in Block, m_chain \in BlockOrNull, b \notin Chain(m_chain)
  PROVE  LET common == ancestors[b] \cap Chain(m_chain)
         IN \/ FindFork(b) = null /\ common = {}
            \/ FindFork(b) \in common /\ common = ancestors[FindFork(b)]
<1> DEFINE common == ancestors[b] \cap Chain(m_chain)
<1>1. CASE common = {}
  BY <1>1 DEF FindFork
<1>2. CASE common # {}
  <2>1. PICK c \in ancestors[b] \ Chain(m_chain) : HasAncestor(m_chain, pprev[c])
    BY FirstNewBlock
  <2>2. c \in Block /\ ancestors[c] \subseteq ancestors[b]
    BY AncestorsBelow, AncestorsClosed
  <2>3. ASSUME NEW d \in common PROVE d \in ancestors[c] \ {c}
    <3>1. d \in Block /\ d # null /\ d \in ancestors[d]
      BY AncestorsBelow, TreeAssumption, SMT
    <3>2. Chain(d) \subseteq Chain(m_chain)
      BY ChainBelow DEF HasAncestor
    <3>3. c \notin ancestors[d]
      BY <2>1, <3>1, <3>2 DEF Chain
    <3> QED BY <2>1, <3>1, <3>3, AncestorsLinear
  <2>4. c # genesis
    BY <1>2, <2>3, TreeAssumption
  <2>5. ancestors[c] = {c} \cup ancestors[pprev[c]] /\ pprev[c] \in Block
    BY <2>2, <2>4, TreeAssumption
  <2>6. pprev[c] \in common /\ common \subseteq ancestors[pprev[c]]
    BY <2>1, <2>2, <2>3, <2>5, AncestorsBelow, TreeAssumption DEF HasAncestor
  <2>7. FindFork(b) \in common /\ common \subseteq ancestors[FindFork(b)]
    BY <1>2, <2>6 DEF FindFork
  <2>8. ancestors[FindFork(b)] \subseteq common
    <3>1. FindFork(b) # null
      BY <2>7, AncestorsBelow, TreeAssumption, SMT
    <3>2. Chain(FindFork(b)) \subseteq Chain(m_chain)
      BY <2>7, ChainBelow DEF HasAncestor
    <3> QED BY <2>7, <3>1, <3>2, AncestorsClosed DEF Chain
  <2> QED BY <2>7, <2>8
<1> QED BY <1>1, <1>2

(* A way up from the chain of tip to b, block by block.                    *)
IsPath(path, tip, b) ==
  /\ path \in Seq(Block) /\ Len(path) >= 1
  /\ HasAncestor(tip, pprev[path[1]])
  /\ \A i \in 1..(Len(path) - 1) : path[i] = pprev[path[i + 1]]
  /\ path[Len(path)] = b
  /\ tip = null => path[1] = genesis

(* ActivateBestChainStep connects the blocks from the fork up to b, each   *)
(* on top of the one before.                                               *)
LEMMA ConnectPath ==
  ASSUME NEW b \in Block, m_chain \in BlockOrNull, b \notin Chain(m_chain)
  PROVE  IsPath(vpindexToConnect(b), m_chain, b)
<1> DEFINE fork == FindFork(b)
           nFork == IF fork = null THEN -1 ELSE nHeight[fork]
           n == nHeight[b] - nFork
           path == [i \in 1..n |-> GetAncestor(b, nFork + i)]
<1>1. vpindexToConnect(b) = path
  BY DEF vpindexToConnect
<1>2. /\ fork = null => m_chain = null
      /\ fork # null => fork \in Block /\ fork \in ancestors[b] /\ fork \in Chain(m_chain)
      /\ fork # b
  <2>1. m_chain # null => genesis \in ancestors[b] \cap Chain(m_chain)
    BY AncestorsBelow DEF Chain, BlockOrNull
  <2>2. ancestors[b] \subseteq Block
    BY AncestorsBelow
  <2> QED BY <2>1, <2>2, FindForkFinds, TreeAssumption, SMT
<1>3. nHeight[b] \in Nat /\ nFork \in Int /\ nFork >= -1 /\ nFork < nHeight[b]
  BY <1>2, AncestorsBelow, TreeAssumption, SMT
<1> HIDE DEF fork, nFork
<1>4. n \in Nat /\ n >= 1
  BY <1>3, SMT
<1> HIDE DEF n
<1>5. ASSUME NEW i \in 1..n
      PROVE  /\ path[i] = GetAncestor(b, nFork + i)
             /\ path[i] \in ancestors[b] /\ path[i] \in Block /\ nHeight[path[i]] = nFork + i
  <2>1. nFork + i \in 0..nHeight[b]
    BY <1>3, SMT DEF n
  <2> QED BY <2>1, GetAncestorFinds, AncestorsBelow
<1>6. path \in Seq(Block) /\ Len(path) = n
  BY <1>4, <1>5, SMT
<1> HIDE DEF path
<1>7. path[n] = b
  <2>1. nFork + n = nHeight[b] /\ n \in 1..n
    BY <1>3, <1>4, SMT DEF n
  <2> QED BY <1>5, <2>1, OneAtHeight, AncestorsBelow
<1>8. ASSUME NEW c \in ancestors[b], c # genesis
      PROVE  /\ pprev[c] \in ancestors[b] /\ nHeight[c] = nHeight[pprev[c]] + 1
             /\ nHeight[pprev[c]] \in Nat
  <2>1. c \in Block /\ ancestors[c] \subseteq ancestors[b]
    BY AncestorsBelow, AncestorsClosed
  <2> QED BY <1>8, <2>1, AncestorsBelow, TreeAssumption, SMT
<1>9. ASSUME NEW i \in 1..(n - 1) PROVE path[i] = pprev[path[i + 1]]
  <2>1. i \in 1..n /\ i + 1 \in 1..n /\ i >= 1
    BY <1>4, SMT
  <2>2. nHeight[path[i]] = nFork + i /\ nHeight[path[i + 1]] = nFork + (i + 1)
    BY <1>5, <2>1
  <2>3. path[i + 1] # genesis
    BY <1>3, <2>1, <2>2, TreeAssumption, SMT
  <2>4. path[i] \in ancestors[b] /\ path[i + 1] \in ancestors[b]
    BY <1>5, <2>1
  <2>5. pprev[path[i + 1]] \in ancestors[b]
        /\ nHeight[path[i + 1]] = nHeight[pprev[path[i + 1]]] + 1
        /\ nHeight[pprev[path[i + 1]]] \in Nat
    BY <1>8, <2>3, <2>4
  <2>6. nHeight[pprev[path[i + 1]]] = nHeight[path[i]]
    BY <1>3, <2>1, <2>2, <2>5, SMT
  <2> QED BY <2>4, <2>5, <2>6, OneAtHeight
<1>10. 1 \in 1..n /\ path[1] \in ancestors[b] /\ path[1] \in Block /\ nHeight[path[1]] = nFork + 1
  BY <1>4, <1>5, SMT
<1>11. CASE fork = null
  <2>1. path[1] = genesis
    <3>1. nHeight[path[1]] = 0
      BY <1>10, <1>11, SMT DEF nFork
    <3> QED BY <1>8, <1>10, <3>1, SMT
  <2> QED BY <1>1, <1>4, <1>6, <1>7, <1>9, <2>1, TreeAssumption DEF IsPath, HasAncestor
<1>12. CASE fork # null
  <2>1. nHeight[path[1]] = nHeight[fork] + 1 /\ nHeight[fork] \in Nat
    BY <1>2, <1>10, <1>12, TreeAssumption DEF nFork
  <2>2. path[1] # genesis
    BY <2>1, TreeAssumption, SMT
  <2>3. pprev[path[1]] = fork
    BY <1>2, <1>8, <1>10, <1>12, <2>1, <2>2, OneAtHeight, SMT
  <2>4. m_chain # null
    BY <1>2, <1>12 DEF Chain
  <2> QED BY <1>1, <1>2, <1>4, <1>6, <1>7, <1>9, <1>12, <2>3, <2>4 DEF IsPath, HasAncestor
<1> QED BY <1>11, <1>12

Event ==
  [event : {"BlockConnected", "ChainStateFlushed"}, block : Block] \cup [event : {"Promise"}, block : {null}]

ConnectsAt(q, i) == i \in 1..Len(q) /\ q[i].event = "BlockConnected"

(* From the block x, BlockConnected takes one of the blocks pending at i   *)
(* up to j.                                                                *)
Takes(q, x, i, j) == \E k \in i..j : ConnectsAt(q, k) /\ HasAncestor(x, pprev[q[k].block])

(* Up to j every pending block has the tip on its chain or is followed by  *)
(* one that is taken from it, so whoever takes one ends above the tip.     *)
Linked(q, tip, j) ==
  \A i \in 1..j : ConnectsAt(q, i) => HasAncestor(q[i].block, tip) \/ Takes(q, q[i].block, i + 1, j)

Reaches(q, x, tip, j) == HasAncestor(x, tip) \/ Takes(q, x, 1, j)

(* HasAncestor is transitive.                                              *)
LEMMA HasAncestorTrans ==
  ASSUME NEW x \in BlockOrNull, NEW y, NEW z, HasAncestor(x, y), HasAncestor(y, z)
  PROVE  HasAncestor(x, z)
BY ChainBelow DEF HasAncestor

(* Whether the tip is reached up to j depends on the callbacks up to j.    *)
LEMMA SamePrefix ==
  ASSUME NEW q \in Seq(Event), NEW r \in Seq(Event), NEW j \in Nat, j <= Len(q), j <= Len(r),
         \A i \in 1..j : r[i] = q[i], NEW tip
  PROVE  /\ Linked(q, tip, j) => Linked(r, tip, j)
         /\ \A x : Reaches(q, x, tip, j) => Reaches(r, x, tip, j)
<1>1. \A k \in 1..j : ConnectsAt(q, k) <=> ConnectsAt(r, k)
  BY SMT DEF ConnectsAt
<1>2. \A x : \A i \in Nat : i >= 1 => (Takes(q, x, i, j) => Takes(r, x, i, j))
  BY <1>1, SMT DEF Takes
<1> QED BY <1>1, <1>2, SMT DEF Linked, Reaches

(* A lower tip is reached as well.                                         *)
LEMMA LowerTip ==
  ASSUME NEW q \in Seq(Event), NEW j \in Nat, NEW tip, NEW low, HasAncestor(tip, low)
  PROVE  /\ Linked(q, tip, j) => Linked(q, low, j)
         /\ \A x \in BlockOrNull : Reaches(q, x, tip, j) => Reaches(q, x, low, j)
<1>1. \A i \in 1..j : ConnectsAt(q, i) => q[i].block \in BlockOrNull
  BY SMT DEF ConnectsAt, Event, BlockOrNull
<1> QED BY <1>1, HasAncestorTrans DEF Linked, Reaches

(* The first callback is handled and not taken.                            *)
LEMMA TailSkips ==
  ASSUME NEW q \in Seq(Event), q # <<>>, NEW j \in Nat, j < Len(q), NEW tip
  PROVE  /\ Linked(q, tip, j + 1) => Linked(Tail(q), tip, j)
         /\ \A x : Reaches(q, x, tip, j + 1) /\ ~(ConnectsAt(q, 1) /\ HasAncestor(x, pprev[q[1].block]))
                    => Reaches(Tail(q), x, tip, j)
<1> DEFINE r == Tail(q)
<1>1. r \in Seq(Event) /\ Len(r) = Len(q) - 1 /\ Len(q) \in Nat
  BY SMT
<1>2. \A i \in 1..Len(r) : r[i] = q[i + 1]
  BY <1>1, SMT
<1> HIDE DEF r
<1>3. \A i \in 1..j : ConnectsAt(r, i) <=> ConnectsAt(q, i + 1)
  BY <1>1, <1>2, SMT DEF ConnectsAt
<1>4. ASSUME NEW x, NEW i \in Nat, i >= 1, Takes(q, x, i + 1, j + 1) PROVE Takes(r, x, i, j)
  <2>1. PICK k \in (i + 1)..(j + 1) : ConnectsAt(q, k) /\ HasAncestor(x, pprev[q[k].block])
    BY <1>4 DEF Takes
  <2>2. k - 1 \in i..j /\ k - 1 \in 1..j /\ k - 1 \in 1..Len(r) /\ (k - 1) + 1 = k
    BY <1>1, <1>4, <2>1, SMT
  <2>3. ConnectsAt(r, k - 1) /\ r[k - 1] = q[k]
    BY <1>2, <1>3, <2>1, <2>2
  <2> QED BY <2>1, <2>2, <2>3 DEF Takes
<1>5. ASSUME Linked(q, tip, j + 1) PROVE Linked(r, tip, j)
  <2> SUFFICES ASSUME NEW i \in 1..j, ConnectsAt(r, i)
               PROVE  HasAncestor(r[i].block, tip) \/ Takes(r, r[i].block, i + 1, j)
    BY DEF Linked
  <2>1. i + 1 \in 1..(j + 1) /\ ConnectsAt(q, i + 1) /\ r[i] = q[i + 1] /\ i + 1 \in Nat /\ i + 1 >= 1
    BY <1>1, <1>2, <1>3, SMT
  <2> QED BY <1>4, <1>5, <2>1 DEF Linked
<1>6. ASSUME NEW x, Reaches(q, x, tip, j + 1), ~(ConnectsAt(q, 1) /\ HasAncestor(x, pprev[q[1].block]))
      PROVE  Reaches(r, x, tip, j)
  <2>1. CASE HasAncestor(x, tip)
    BY <2>1 DEF Reaches
  <2>2. CASE Takes(q, x, 1, j + 1)
    <3>1. Takes(q, x, 1 + 1, j + 1)
      BY <1>6, <2>2, SMT DEF Takes
    <3> QED BY <1>4, <3>1, SMT DEF Reaches
  <2> QED BY <1>6, <2>1, <2>2 DEF Reaches
<1> QED BY <1>5, <1>6 DEF r

(* The first callback is a block, and it is taken.                         *)
LEMMA TailTakes ==
  ASSUME NEW q \in Seq(Event), q # <<>>, NEW j \in Nat, j < Len(q), NEW tip,
         ConnectsAt(q, 1), Linked(q, tip, j + 1)
  PROVE  Reaches(Tail(q), q[1].block, tip, j)
<1>1. 1 \in 1..(j + 1)
  BY SMT
<1>2. HasAncestor(q[1].block, tip) \/ Takes(q, q[1].block, 1 + 1, j + 1)
  BY <1>1 DEF Linked
<1>3. CASE HasAncestor(q[1].block, tip)
  BY <1>3 DEF Reaches
<1>4. CASE Takes(q, q[1].block, 2, j + 1)
  <2>1. PICK k \in 2..(j + 1) : ConnectsAt(q, k) /\ HasAncestor(q[1].block, pprev[q[k].block])
    BY <1>4 DEF Takes
  <2>2. k - 1 \in 1..j /\ k - 1 \in 1..Len(Tail(q)) /\ Tail(q)[k - 1] = q[k]
    BY <2>1, SMT
  <2> QED BY <2>1, <2>2 DEF Takes, Reaches, ConnectsAt
<1> QED BY <1>2, <1>3, <1>4, SMT

(* A callback that is no block changes nothing.                            *)
LEMMA AppendOther ==
  ASSUME NEW q \in Seq(Event), NEW e \in Event, NEW tip
  PROVE  /\ Linked(q, tip, Len(q)) /\ e.event # "BlockConnected" => Linked(Append(q, e), tip, Len(q) + 1)
         /\ \A x : Reaches(q, x, tip, Len(q)) => Reaches(Append(q, e), x, tip, Len(q) + 1)
<1> DEFINE r == Append(q, e)
<1>1. r \in Seq(Event) /\ Len(r) = Len(q) + 1 /\ Len(q) \in Nat /\ r[Len(q) + 1] = e
  BY SMT
<1>2. \A i \in 1..Len(q) : r[i] = q[i]
  BY SMT
<1> HIDE DEF r
<1>3. \A i \in 1..Len(q) : ConnectsAt(r, i) <=> ConnectsAt(q, i)
  BY <1>1, <1>2, SMT DEF ConnectsAt
<1>4. ASSUME NEW x, NEW i \in Nat, i >= 1, Takes(q, x, i, Len(q)) PROVE Takes(r, x, i, Len(q) + 1)
  BY <1>1, <1>2, <1>3, <1>4, SMT DEF Takes
<1>5. ASSUME Linked(q, tip, Len(q)), e.event # "BlockConnected" PROVE Linked(r, tip, Len(q) + 1)
  <2> SUFFICES ASSUME NEW i \in 1..(Len(q) + 1), ConnectsAt(r, i)
               PROVE  HasAncestor(r[i].block, tip) \/ Takes(r, r[i].block, i + 1, Len(q) + 1)
    BY DEF Linked
  <2>1. i # Len(q) + 1
    BY <1>1, <1>5 DEF ConnectsAt
  <2>2. i \in 1..Len(q) /\ i + 1 \in Nat /\ i + 1 >= 1
    BY <1>1, <2>1, SMT
  <2> QED BY <1>2, <1>3, <1>4, <1>5, <2>2 DEF Linked
<1> QED BY <1>1, <1>4, <1>5, SMT DEF r, Reaches

(* What the queue r has that q has not: the blocks of path.                *)
PathAppended(q, r, path, tip, b) ==
  /\ r \in Seq(Event) /\ Len(r) = Len(q) + Len(path)
  /\ \A i \in 1..Len(q) : r[i] = q[i]
  /\ \A i \in 1..Len(path) : r[Len(q) + i] = Connected(path[i])
  /\ Linked(q, tip, Len(q)) => Linked(r, b, Len(r))
  /\ \A x \in BlockOrNull : Reaches(q, x, tip, Len(q)) => Reaches(r, x, b, Len(r))

(* The blocks of a way up from the tip lead every pending block above the  *)
(* old tip to the new one.                                                 *)
LEMMA AppendPath ==
  ASSUME NEW q \in Seq(Event), NEW tip \in BlockOrNull, NEW b \in Block, NEW path, IsPath(path, tip, b),
         NEW r, r = q \o [i \in DOMAIN path |-> Connected(path[i])]
  PROVE  PathAppended(q, r, path, tip, b)
<1> DEFINE n == Len(q)
           m == Len(path)
           new == [i \in DOMAIN path |-> Connected(path[i])]
<1>1. /\ path \in Seq(Block) /\ m \in Nat /\ m >= 1 /\ n \in Nat /\ DOMAIN path = 1..m
      /\ \A i \in 1..m : path[i] \in Block
  BY SMT DEF IsPath
<1>2. \A i \in 1..m : Connected(path[i]) \in Event
  BY <1>1 DEF Event, Connected
<1>3. new \in Seq(Event) /\ Len(new) = m /\ \A i \in 1..m : new[i] = Connected(path[i])
  BY <1>1, <1>2, SMT
<1> HIDE DEF new
<1>4. r \in Seq(Event) /\ Len(r) = n + m /\ \A i \in 1..n : r[i] = q[i]
  BY <1>1, <1>3, SMT DEF new
<1>5. \A i \in 1..m : r[n + i] = new[i]
  BY <1>1, <1>3, SMT DEF new
<1>6. \A i \in 1..m : r[n + i] = Connected(path[i]) /\ r[n + i].event = "BlockConnected"
                       /\ r[n + i].block = path[i] /\ n + i \in 1..Len(r) /\ ConnectsAt(r, n + i)
  BY <1>1, <1>3, <1>4, <1>5, SMT DEF Connected, ConnectsAt
<1> HIDE DEF n, m
<1>7. \A i \in 1..n : ConnectsAt(r, i) <=> ConnectsAt(q, i)
  BY <1>1, <1>4, SMT DEF ConnectsAt, n
<1>8. ASSUME NEW x \in BlockOrNull, NEW i \in 1..(n + 1), HasAncestor(x, tip) \/ Takes(q, x, i, n)
      PROVE  Takes(r, x, i, Len(r))
  <2>1. CASE HasAncestor(x, tip)
    <3>1. HasAncestor(x, pprev[path[1]])
      BY <2>1, HasAncestorTrans DEF IsPath
    <3>2. 1 \in 1..m /\ n + 1 \in i..Len(r)
      BY <1>1, <1>4, SMT
    <3> QED BY <1>6, <3>1, <3>2 DEF Takes
  <2>2. CASE Takes(q, x, i, n)
    <3>1. PICK k \in i..n : ConnectsAt(q, k) /\ HasAncestor(x, pprev[q[k].block])
      BY <2>2 DEF Takes
    <3>2. k \in 1..n /\ k \in i..Len(r)
      BY <1>1, <1>4, <3>1, SMT
    <3> QED BY <1>4, <1>7, <3>1, <3>2 DEF Takes
  <2> QED BY <1>8, <2>1, <2>2
<1>9. ASSUME Linked(q, tip, n) PROVE Linked(r, b, Len(r))
  <2> SUFFICES ASSUME NEW i \in 1..Len(r), ConnectsAt(r, i)
               PROVE  HasAncestor(r[i].block, b) \/ Takes(r, r[i].block, i + 1, Len(r))
    BY DEF Linked
  <2>1. CASE i <= n
    <3>1. i \in 1..n /\ i + 1 \in 1..(n + 1) /\ r[i] = q[i] /\ ConnectsAt(q, i)
      BY <1>1, <1>4, <1>7, <2>1, SMT
    <3>2. q[i].block \in BlockOrNull
      BY <3>1, SMT DEF ConnectsAt, Event, BlockOrNull
    <3>3. HasAncestor(q[i].block, tip) \/ Takes(q, q[i].block, i + 1, n)
      BY <1>9, <3>1 DEF Linked
    <3> QED BY <1>8, <3>1, <3>2, <3>3
  <2>2. CASE i = n + m
    <3>1. m \in 1..m /\ path[m] = b
      BY <1>1, SMT DEF IsPath, m
    <3>2. r[i].block = b
      BY <1>6, <2>2, <3>1
    <3> QED BY <3>2, AncestorsBelow, TreeAssumption DEF HasAncestor, Chain
  <2>3. CASE i > n /\ i < n + m
    <3> DEFINE k == i - n
    <3>1. k \in 1..(m - 1) /\ k \in 1..m /\ k + 1 \in 1..m /\ n + k = i /\ n + (k + 1) = i + 1
          /\ i + 1 \in (i + 1)..Len(r)
      BY <1>1, <1>4, <2>3, SMT
    <3>2. path[k] = pprev[path[k + 1]]
      BY <3>1 DEF IsPath, m
    <3>3. /\ r[i].block = path[k] /\ r[i + 1].block = path[k + 1] /\ ConnectsAt(r, i + 1)
          /\ path[k] \in Block
      BY <1>1, <1>6, <3>1
    <3>4. HasAncestor(path[k], pprev[path[k + 1]])
      BY <3>2, <3>3, AncestorsBelow, TreeAssumption DEF HasAncestor, Chain
    <3> HIDE DEF k
    <3> QED BY <3>1, <3>3, <3>4 DEF Takes
  <2> QED BY <1>1, <1>4, <2>1, <2>2, <2>3, SMT
<1>10. ASSUME NEW x \in BlockOrNull, Reaches(q, x, tip, n) PROVE Reaches(r, x, b, Len(r))
  BY <1>1, <1>8, <1>10, SMT DEF Reaches
<1> QED BY <1>4, <1>6, <1>9, <1>10 DEF n, m, PathAppended

-----------------------------------------------------------------------------
(* What the pending callbacks promise.                                     *)

(* The block that the callbacks have taken last.                           *)
Current == IF pc.callback \in {"process", "set"} THEN pindex.callback ELSE m_best_block_index

QueueType ==
  /\ signals \in Seq(Event)
  /\ reader \in {"none", "waiting", "synced"} /\ readTip \in BlockOrNull
  /\ \A i \in 1..Len(signals) : signals[i].event = "ChainStateFlushed" => signals[i].block \in m_block_index
  /\ node = "down" => signals = <<>> /\ reader = "none" /\ ~m_synced

(* The pending blocks lead the index to the tip.                           *)
TipReached ==
  /\ Linked(signals, m_chain, Len(signals))
  /\ m_synced => Reaches(signals, Current, m_chain, Len(signals))

(* An index that is synced without a block sees genesis first.             *)
GenesisFirst ==
  /\ pc.sync # "none" => m_chain # null
  /\ (pc.sync = "recheck" \/ (pc.sync \in {"commit", "write"} /\ ret.sync = "recheck"))
       => m_best_block_index = pindex.sync
  /\ m_synced /\ m_best_block_index = null /\ pc.callback = "none"
       => \/ signals = <<>> /\ m_chain = null
          \/ signals # <<>> /\ signals[1] = Connected(genesis)
  /\ pc.callback \in {"commit", "write"} => m_best_block_index # null
  /\ pc.callback \in {"process", "set"} => pindex.callback # null

(* The names up to the tip that the caller saw are indexed before its      *)
(* promise is kept.                                                        *)
PromiseOK(p) ==
  /\ reader = "waiting"
  /\ \A i \in 1..Len(signals) : signals[i].event = "Promise" => i = p
  /\ Linked(signals, readTip, p - 1)
  /\ Covered(readTip) \/ Reaches(signals, Current, readTip, p - 1)

CallerServed ==
  /\ reader = "synced" => Covered(readTip)
  /\ reader = "waiting" => m_synced
  /\ \A p \in 1..Len(signals) : signals[p].event = "Promise" => PromiseOK(p)

QueueInv == QueueType /\ TipReached /\ GenesisFirst /\ CallerServed /\ NoFatalError

(* Nothing is pending, and nobody waits, after the process has ended.      *)
LEMMA QueueDown ==
  ASSUME QueueInv, Down, fatal' = fatal \/ fatal' \in {"RewindNull", "CallerNull"}
  PROVE  QueueInv'
<1>1. /\ signals' = <<>> /\ reader' = "none" /\ readTip' = null /\ m_synced' = FALSE
      /\ m_chain' = null /\ pc' = [sync |-> "none", callback |-> "none"]
  BY DEF Down
<1>2. QueueType'
  BY <1>1, SMT DEF QueueType, BlockOrNull
<1>3. TipReached'
  BY <1>1, SMT DEF TipReached, Linked
<1>4. GenesisFirst'
  BY <1>1 DEF GenesisFirst
<1>5. CallerServed'
  BY <1>1, SMT DEF CallerServed
<1>6. NoFatalError'
  BY DEF QueueInv, NoFatalError
<1> QED BY <1>2, <1>3, <1>4, <1>5, <1>6 DEF QueueInv

(* A start finds nothing pending, and the index at the tip or not synced.  *)
LEMMA QueueStart ==
  ASSUME IndexInv, QueueInv, NEW wipe \in BOOLEAN, Start(wipe)
  PROVE  QueueInv'
<1>1. /\ node = "down" /\ signals = <<>> /\ reader = "none" /\ UNCHANGED <<signals, reader, readTip, pc, fatal>>
      /\ m_best_block_index' = bestDB /\ m_synced' = (bestDB = m_chain')
      /\ pc = [sync |-> "none", callback |-> "none"]
  BY DEF Start, QueueInv, QueueType, IndexInv, BlocksKnown, threadVars, readVars
<1>2. QueueType'
  BY <1>1, SMT DEF QueueInv, QueueType, Start
<1>3. TipReached'
  <2>1. CASE m_synced'
    <3>1. Current' = m_chain' /\ m_chain' \in BlockOrNull
      BY <1>1, <2>1, StartOK DEF Current, IndexInv, IndexType
    <3>2. HasAncestor(m_chain', m_chain')
      BY <3>1, AncestorsBelow DEF HasAncestor, Chain, BlockOrNull
    <3> QED BY <1>1, <3>1, <3>2, SMT DEF TipReached, Linked, Reaches
  <2>2. CASE ~m_synced'
    BY <1>1, <2>2, SMT DEF TipReached, Linked
  <2> QED BY <2>1, <2>2
<1>4. GenesisFirst'
  BY <1>1 DEF GenesisFirst
<1>5. CallerServed'
  BY <1>1, SMT DEF CallerServed
<1>6. NoFatalError'
  BY <1>1 DEF QueueInv, NoFatalError
<1> QED BY <1>2, <1>3, <1>4, <1>5, <1>6 DEF QueueInv

(* ActivateBestChain: the blocks connected lead to the new tip, and every  *)
(* promise is as far away as it was.                                       *)
LEMMA QueueActivate ==
  ASSUME IndexInv, QueueInv, NEW b \in Block, ActivateBestChain(b)
  PROVE  QueueInv'
<1> DEFINE path == vpindexToConnect(b)
<1>1. /\ node = "up" /\ b \notin Chain(m_chain) /\ m_chain' = b
      /\ m_block_index' = m_block_index \cup ancestors[b]
      /\ signals' = signals \o [i \in DOMAIN path |-> Connected(path[i])]
      /\ UNCHANGED <<node, fatal, m_synced, m_best_block_index, pc, ret, pindex, hashDB, reader, readTip>>
  BY DEF ActivateBestChain, MayMove, indexVars, threadVars, dbVars, readVars
<1>2. IsPath(path, m_chain, b) /\ m_chain \in BlockOrNull /\ Current \in BlockOrNull
  BY <1>1, ConnectPath DEF IndexInv, IndexType, Current
<1> HIDE DEF path
<1>3. Current' = Current
  BY <1>1 DEF Current
<1>4. signals \in Seq(Event)
  BY DEF QueueInv, QueueType
<1>5. /\ signals' \in Seq(Event) /\ Len(signals') = Len(signals) + Len(path) /\ Len(path) \in Nat /\ Len(path) >= 1
      /\ \A i \in 1..Len(signals) : signals'[i] = signals[i]
      /\ \A i \in 1..Len(path) : signals'[Len(signals) + i] = Connected(path[i])
      /\ Linked(signals', b, Len(signals'))
      /\ \A x \in BlockOrNull : Reaches(signals, x, m_chain, Len(signals)) => Reaches(signals', x, b, Len(signals'))
  <2>1. Len(path) \in Nat /\ Len(path) >= 1
    BY <1>2, SMT DEF IsPath
  <2>2. Linked(signals, m_chain, Len(signals)) /\ b \in Block
    BY DEF QueueInv, TipReached
  <2>3. PathAppended(signals, signals', path, m_chain, b)
    BY <1>1, <1>2, <1>4, AppendPath
  <2> QED BY <2>1, <2>2, <2>3 DEF PathAppended
<1>6. ASSUME NEW i \in 1..Len(signals'), signals'[i].event # "BlockConnected"
      PROVE  i \in 1..Len(signals) /\ signals'[i] = signals[i]
  <2>1. CASE i \in 1..Len(signals)
    BY <1>5, <2>1
  <2>2. CASE i \notin 1..Len(signals)
    <3> DEFINE k == i - Len(signals)
    <3>1. k \in 1..Len(path) /\ i = Len(signals) + k
      BY <1>4, <1>5, <2>2, SMT
    <3>2. signals'[i] = Connected(path[k])
      BY <1>5, <3>1
    <3> QED BY <1>6, <3>2, SMT DEF Connected
  <2> QED BY <2>1, <2>2
<1>7. QueueType'
  <2>1. ASSUME NEW i \in 1..Len(signals'), signals'[i].event = "ChainStateFlushed"
        PROVE  signals'[i].block \in m_block_index'
    BY <1>1, <1>6, <2>1 DEF QueueInv, QueueType
  <2> QED BY <1>1, <1>5, <2>1 DEF QueueInv, QueueType
<1>8. TipReached'
  BY <1>1, <1>2, <1>3, <1>5 DEF QueueInv, TipReached
<1>9. GenesisFirst'
  <2>1. b # null
    BY TreeAssumption
  <2>2. CASE m_synced /\ m_best_block_index = null /\ pc.callback = "none"
    <3>1. signals' # <<>>
      BY <1>4, <1>5, SMT
    <3>2. signals'[1] = Connected(genesis)
      <4>1. CASE signals = <<>> /\ m_chain = null
        BY <1>2, <1>5, <4>1, SMT DEF IsPath
      <4>2. CASE signals # <<>> /\ signals[1] = Connected(genesis)
        BY <1>4, <1>5, <4>2, SMT
      <4> QED BY <2>2, <4>1, <4>2 DEF QueueInv, GenesisFirst
    <3> QED BY <1>1, <2>1, <3>1, <3>2 DEF QueueInv, GenesisFirst
  <2>3. CASE ~(m_synced /\ m_best_block_index = null /\ pc.callback = "none")
    BY <1>1, <2>1, <2>3 DEF QueueInv, GenesisFirst
  <2> QED BY <2>2, <2>3
<1>10. CallerServed'
  <2>1. ASSUME NEW p \in 1..Len(signals'), signals'[p].event = "Promise" PROVE PromiseOK(p)'
    <3>1. p \in 1..Len(signals) /\ signals[p].event = "Promise" /\ PromiseOK(p)
      BY <1>6, <2>1 DEF QueueInv, CallerServed
    <3>2. /\ p - 1 \in Nat /\ p - 1 <= Len(signals) /\ p - 1 <= Len(signals')
          /\ \A i \in 1..(p - 1) : signals'[i] = signals[i]
      BY <1>4, <1>5, <3>1, SMT
    <3>3. /\ Linked(signals', readTip, p - 1)
          /\ Reaches(signals, Current, readTip, p - 1) => Reaches(signals', Current, readTip, p - 1)
      BY <1>4, <1>5, <3>1, <3>2, SamePrefix DEF PromiseOK
    <3> QED BY <1>1, <1>3, <1>6, <3>1, <3>3 DEF PromiseOK, Covered, NamesOf, Chain
  <2> QED BY <1>1, <2>1 DEF QueueInv, CallerServed, Covered, NamesOf, Chain
<1>11. NoFatalError'
  BY <1>1 DEF QueueInv, NoFatalError
<1> QED BY <1>7, <1>8, <1>9, <1>10, <1>11 DEF QueueInv

(* The promises do not depend on what else changes: a thread that leaves   *)
(* the queue and the last block taken alone, or works before m_synced.     *)
LEMMA QueueFrame ==
  ASSUME QueueInv, GenesisFirst', UNCHANGED <<signals, m_chain, m_synced, reader, readTip, fatal>>,
         node' = "down" => node = "down", m_block_index \subseteq m_block_index', hashDB \subseteq hashDB',
         m_synced => Current' = Current
  PROVE  QueueInv'
<1>1. QueueType'
  BY DEF QueueInv, QueueType
<1>2. TipReached'
  BY DEF QueueInv, TipReached
<1>3. CallerServed'
  <2>1. ASSUME NEW p \in 1..Len(signals), signals[p].event = "Promise" PROVE PromiseOK(p)'
    <3>1. PromiseOK(p) /\ m_synced
      BY <2>1 DEF QueueInv, CallerServed, PromiseOK
    <3> QED BY <3>1 DEF PromiseOK, Covered, NamesOf, Chain
  <2> QED BY <2>1 DEF QueueInv, CallerServed, Covered, NamesOf, Chain
<1>4. NoFatalError'
  BY DEF QueueInv, NoFatalError
<1> QED BY <1>1, <1>2, <1>3, <1>4 DEF QueueInv

(* InvalidateBlock sets the tip back to a block that is reached as well.   *)
LEMMA QueueInvalidate ==
  ASSUME IndexInv, QueueInv, InvalidateBlock
  PROVE  QueueInv'
<1>1. /\ m_chain \in Block /\ m_chain # genesis /\ m_chain' = pprev[m_chain]
      /\ UNCHANGED <<node, fatal, m_block_index, signals, m_synced, m_best_block_index, pc, ret, pindex,
                     hashDB, reader, readTip>>
  BY DEF InvalidateBlock, IndexInv, IndexType, BlockOrNull, indexVars, threadVars, dbVars, readVars
<1>2. m_chain' \in Block /\ m_chain' # null /\ HasAncestor(m_chain, m_chain')
  BY <1>1, ChainOfBlock, AncestorsBelow, TreeAssumption, SMT DEF HasAncestor, Chain
<1>3. signals \in Seq(Event) /\ Len(signals) \in Nat /\ Current \in BlockOrNull /\ Current' = Current
  BY <1>1, SMT DEF QueueInv, QueueType, IndexInv, IndexType, Current
<1>4. QueueType'
  BY <1>1 DEF QueueInv, QueueType
<1>5. TipReached'
  <2>1. /\ Linked(signals, m_chain', Len(signals))
        /\ m_synced => Reaches(signals, Current, m_chain', Len(signals))
    <3>1. /\ Linked(signals, m_chain, Len(signals))
          /\ m_synced => Reaches(signals, Current, m_chain, Len(signals))
      BY DEF QueueInv, TipReached
    <3> QED BY <1>2, <1>3, <3>1, LowerTip
  <2> QED BY <1>1, <1>3, <2>1 DEF TipReached
<1>6. GenesisFirst'
  BY <1>1, <1>2, TreeAssumption DEF QueueInv, GenesisFirst
<1>7. CallerServed'
  BY <1>1, <1>3 DEF QueueInv, CallerServed, PromiseOK, Covered, NamesOf, Chain
<1>8. NoFatalError'
  BY <1>1 DEF QueueInv, NoFatalError
<1> QED BY <1>4, <1>5, <1>6, <1>7, <1>8 DEF QueueInv

(* A flush or a promise is put behind the pending blocks.                  *)
LEMMA QueueAppend ==
  ASSUME IndexInv, QueueInv, NEW e \in Event, e.event # "BlockConnected", signals' = Append(signals, e),
         e.event = "ChainStateFlushed" => e.block \in m_block_index, m_chain # null, node' # "down",
         UNCHANGED <<m_chain, m_block_index, m_synced, m_best_block_index, fatal, pc, ret, pindex, hashDB>>
  PROVE  /\ QueueType' <=> reader' \in {"none", "waiting", "synced"} /\ readTip' \in BlockOrNull
         /\ TipReached' /\ GenesisFirst' /\ NoFatalError' /\ Current' = Current
         /\ Len(signals') = Len(signals) + 1 /\ signals'[Len(signals) + 1] = e
         /\ \A i \in 1..Len(signals) : signals'[i] = signals[i]
<1>1. signals \in Seq(Event) /\ Len(signals) \in Nat
  BY SMT DEF QueueInv, QueueType
<1>2. /\ signals' \in Seq(Event) /\ Len(signals') = Len(signals) + 1 /\ signals'[Len(signals) + 1] = e
      /\ \A i \in 1..Len(signals) : signals'[i] = signals[i]
  BY <1>1, SMT
<1>3. Current' = Current
  BY DEF Current
<1>4. \A i \in 1..Len(signals') : signals'[i].event = "ChainStateFlushed" => signals'[i].block \in m_block_index'
  <2> SUFFICES ASSUME NEW i \in 1..Len(signals'), signals'[i].event = "ChainStateFlushed"
               PROVE  signals'[i].block \in m_block_index
    OBVIOUS
  <2>1. CASE i \in 1..Len(signals)
    BY <1>2, <2>1 DEF QueueInv, QueueType
  <2>2. CASE i = Len(signals) + 1
    BY <1>2, <2>2
  <2> QED BY <1>1, <1>2, <2>1, <2>2, SMT
<1>5. QueueType' <=> reader' \in {"none", "waiting", "synced"} /\ readTip' \in BlockOrNull
  BY <1>2, <1>4 DEF QueueType
<1>6. TipReached'
  <2>1. /\ Linked(Append(signals, e), m_chain, Len(signals) + 1)
        /\ \A x : Reaches(signals, x, m_chain, Len(signals)) => Reaches(Append(signals, e), x, m_chain, Len(signals) + 1)
    BY <1>1, AppendOther DEF QueueInv, TipReached
  <2> QED BY <1>2, <1>3, <2>1 DEF QueueInv, TipReached
<1>7. GenesisFirst'
  <2>1. signals # <<>> => signals' # <<>> /\ signals'[1] = signals[1]
    BY <1>1, <1>2, SMT
  <2> QED BY <2>1 DEF QueueInv, GenesisFirst
<1>8. NoFatalError'
  BY DEF QueueInv, NoFatalError
<1> QED BY <1>2, <1>3, <1>5, <1>6, <1>7, <1>8

(* FlushStateToDisk and Shutdown.                                          *)
LEMMA QueueFlush ==
  ASSUME IndexInv, QueueInv, FlushStateToDisk \/ Shutdown
  PROVE  QueueInv'
<1>1. /\ node = "up" /\ node' # "down"
      /\ UNCHANGED <<m_synced, m_best_block_index, fatal, pc, ret, pindex, hashDB, reader, readTip>>
  BY DEF FlushStateToDisk, Shutdown, indexVars, threadVars, dbVars, readVars
<1>2. CASE Flushed
  <2> DEFINE e == [event |-> "ChainStateFlushed", block |-> m_chain]
  <2>1. /\ m_chain # null /\ signals' = Append(signals, e) /\ UNCHANGED <<m_chain, m_block_index>>
        /\ m_chain \in Block
    BY <1>2 DEF Flushed, IndexInv, IndexType, BlockOrNull
  <2>2. m_chain \in m_block_index
    BY <1>1, <2>1, AncestorsBelow, TreeAssumption DEF IndexInv, BlocksKnown, Chain
  <2>3. e \in Event /\ e.event = "ChainStateFlushed" /\ e.block = m_chain
    BY <2>1 DEF Event
  <2> HIDE DEF e
  <2>4. /\ QueueType' <=> reader' \in {"none", "waiting", "synced"} /\ readTip' \in BlockOrNull
        /\ TipReached' /\ GenesisFirst' /\ NoFatalError' /\ Current' = Current
        /\ Len(signals') = Len(signals) + 1 /\ signals'[Len(signals) + 1] = e
        /\ \A i \in 1..Len(signals) : signals'[i] = signals[i]
    BY <1>1, <2>1, <2>2, <2>3, QueueAppend
  <2>5. QueueType'
    BY <1>1, <2>4 DEF QueueInv, QueueType
  <2>6. signals \in Seq(Event) /\ Len(signals) \in Nat /\ signals' \in Seq(Event)
    BY <2>5, SMT DEF QueueInv, QueueType
  <2>7. ASSUME NEW i \in 1..Len(signals'), signals'[i].event = "Promise"
        PROVE  i \in 1..Len(signals) /\ signals'[i] = signals[i]
    <3>1. i # Len(signals) + 1
      BY <2>3, <2>4, <2>7
    <3> QED BY <2>4, <2>6, <3>1, SMT
  <2>8. CallerServed'
    <3>1. ASSUME NEW p \in 1..Len(signals'), signals'[p].event = "Promise" PROVE PromiseOK(p)'
      <4>1. p \in 1..Len(signals) /\ PromiseOK(p)
        BY <2>7, <3>1 DEF QueueInv, CallerServed
      <4>2. p - 1 \in Nat /\ p - 1 <= Len(signals) /\ p - 1 <= Len(signals')
            /\ \A i \in 1..(p - 1) : signals'[i] = signals[i]
        BY <2>4, <2>6, <4>1, SMT
      <4>3. /\ Linked(signals', readTip, p - 1)
            /\ Reaches(signals, Current, readTip, p - 1) => Reaches(signals', Current, readTip, p - 1)
        BY <2>6, <4>1, <4>2, SamePrefix DEF PromiseOK
      <4> QED BY <1>1, <2>4, <2>7, <4>1, <4>3 DEF PromiseOK, Covered, NamesOf, Chain
    <3> QED BY <1>1, <3>1 DEF QueueInv, CallerServed, Covered, NamesOf, Chain
  <2> QED BY <2>4, <2>5, <2>8 DEF QueueInv
<1>3. CASE UNCHANGED <<chainVars, signals>>
  <2>1. GenesisFirst' /\ Current' = Current
    BY <1>1, <1>3 DEF QueueInv, GenesisFirst, Current, chainVars
  <2> QED BY <1>1, <1>3, <2>1, QueueFrame DEF chainVars
<1> QED BY <1>2, <1>3 DEF FlushStateToDisk, Shutdown

(* The sync thread works before m_synced, and sets it at a best block that *)
(* covers the tip.                                                         *)
LEMMA QueueSync ==
  ASSUME IndexInv, QueueInv, StartBackgroundSync \/ Sync
  PROVE  QueueInv'
<1> USE DEF chainVars, indexVars, dbVars, readVars
<1>1. CASE StartBackgroundSync
  <2>1. /\ UNCHANGED <<signals, m_chain, m_synced, reader, readTip, fatal, node, m_block_index, hashDB, ret>>
        /\ UNCHANGED m_best_block_index
        /\ m_chain # null /\ pc' \in {[pc EXCEPT !.sync = "done"], [pc EXCEPT !.sync = "loop"]}
        /\ pindex' \in {pindex, [pindex EXCEPT !.sync = m_best_block_index]}
    BY <1>1 DEF StartBackgroundSync, Goto
  <2>2. pc'.sync \in {"done", "loop"} /\ pc'.callback = pc.callback /\ pindex'.callback = pindex.callback
    BY <2>1 DEF IndexInv, IndexType
  <2>3. GenesisFirst' /\ Current' = Current
    BY <2>1, <2>2 DEF QueueInv, GenesisFirst, Current
  <2> QED BY <2>1, <2>3, QueueFrame
<1>2. ASSUME ~m_synced, pc.sync # "none", pc'.callback = pc.callback, hashDB \subseteq hashDB', UNCHANGED ret.callback,
             UNCHANGED <<signals, m_chain, m_synced, reader, readTip, fatal, node, m_block_index>>,
             (pc'.sync = "recheck" \/ (pc'.sync \in {"commit", "write"} /\ ret'.sync = "recheck"))
               => m_best_block_index' = pindex'.sync
      PROVE  QueueInv'
  <2>1. pc.callback = "none"
    BY <1>2 DEF IndexInv, IndexType, TurnsTaken
  <2>2. GenesisFirst'
    BY <1>2, <2>1 DEF QueueInv, GenesisFirst
  <2> QED BY <1>2, <2>2, QueueFrame
<1>3. CASE Sync
  <2>1. pc.sync \in Syncing /\ ~m_synced /\ pc.callback = "none" /\ node # "down"
    <3>1. pc.sync \in Syncing
      BY <1>3 DEF Sync, SyncInterrupted, SyncNext, SyncRecheck, SyncProcess, CommitCheck, CommitWrite, Syncing
    <3> QED BY <3>1, SMTT(30) DEF Syncing, IndexInv, TurnsTaken, BlocksKnown
  <2>2. /\ pc \in [sync : Syncing \cup {"none", "done"}, callback : {"none", "process", "set", "commit", "write"}]
        /\ ret \in [sync : {"none", "loop", "recheck", "done"}, callback : {"none"}]
        /\ pindex \in [sync : BlockOrNull, callback : BlockOrNull]
    BY DEF IndexInv, IndexType
  <2>3. CASE SyncInterrupted
    <3>1. pc' = [pc EXCEPT !.sync = "commit"] /\ ret' = [ret EXCEPT !.sync = "done"]
      BY <2>3 DEF SyncInterrupted, CallCommit
    <3> QED BY <1>2, <2>1, <2>2, <2>3, <3>1 DEF SyncInterrupted, Syncing
  <2>4. ASSUME NEW next, Advance(next),
               UNCHANGED <<signals, m_chain, m_synced, reader, readTip, fatal, node, m_block_index, hashDB>>
        PROVE  QueueInv'
    <3>1. pc' = [pc EXCEPT !.sync = "process"] /\ ret' = ret
      BY <2>4 DEF Advance, Goto
    <3> QED BY <1>2, <2>1, <2>2, <2>4, <3>1 DEF Syncing
  <2>5. CASE SyncNext
    <3>1. CASE NextSyncBlock(pindex.sync, m_chain) = null
      <4>1. /\ pc' = [pc EXCEPT !.sync = "commit"] /\ ret' = [ret EXCEPT !.sync = "recheck"]
            /\ m_best_block_index' = pindex.sync /\ pindex' = pindex
        BY <2>5, <3>1 DEF SyncNext, CallCommit
      <4> QED BY <1>2, <2>1, <2>2, <2>5, <4>1 DEF SyncNext, Syncing
    <3>2. CASE NextSyncBlock(pindex.sync, m_chain) # null
      BY <2>4, <2>5, <3>2 DEF SyncNext
    <3> QED BY <3>1, <3>2
  <2>6. CASE SyncRecheck
    <3>1. CASE NextSyncBlock(pindex.sync, m_chain) = null
      <4>1. /\ m_synced' = TRUE /\ m_best_block_index' = m_best_block_index
            /\ pc' = [pc EXCEPT !.sync = "done"] /\ ret' = ret /\ pc.sync = "recheck"
            /\ UNCHANGED <<signals, m_chain, reader, readTip, fatal, node, m_block_index, hashDB>>
        BY <2>6, <3>1 DEF SyncRecheck, Goto
      <4>2. m_chain \in Block /\ m_best_block_index = pindex.sync /\ m_chain # null
        BY <4>1 DEF QueueInv, GenesisFirst, IndexInv, IndexType, BlockOrNull
      <4>3. HasAncestor(pindex.sync, m_chain)
        <5>1. Chain(m_chain) \ Chain(pindex.sync) = {}
          <6> SUFFICES ASSUME Chain(m_chain) \ Chain(pindex.sync) # {} PROVE FALSE
            OBVIOUS
          <6>1. m_chain \in ancestors[m_chain] \ Chain(pindex.sync)
            BY <2>2, <4>2, AncestorsBelow, ChainBelow DEF HasAncestor, Chain
          <6>2. \E c \in Chain(m_chain) \ Chain(pindex.sync) : HasAncestor(pindex.sync, pprev[c])
            BY <2>2, <4>2, <6>1, FirstNewBlock DEF Chain
          <6>3. NextSyncBlock(pindex.sync, m_chain) \in Chain(m_chain)
            BY <6>2 DEF NextSyncBlock
          <6> QED BY <3>1, <4>2, <6>3, AncestorsBelow, TreeAssumption, SMT DEF Chain
        <5> QED BY <4>2, <5>1, AncestorsBelow DEF HasAncestor, Chain
      <4>4. pc'.callback = "none" /\ pc'.sync = "done" /\ Current' = m_best_block_index
        BY <2>1, <2>2, <4>1 DEF Current
      <4>5. QueueType'
        BY <2>1, <4>1 DEF QueueInv, QueueType
      <4>6. TipReached'
        BY <4>1, <4>2, <4>3, <4>4 DEF QueueInv, TipReached, Reaches
      <4>7. GenesisFirst'
        <5>1. m_best_block_index # null
          BY <4>2, <4>3 DEF HasAncestor, Chain
        <5> QED BY <4>1, <4>2, <4>4, <5>1 DEF GenesisFirst
      <4>8. CallerServed'
        <5>1. \A p \in 1..Len(signals) : signals[p].event # "Promise"
          BY <2>1 DEF QueueInv, CallerServed, PromiseOK
        <5> QED BY <4>1, <5>1 DEF QueueInv, CallerServed, Covered, NamesOf, Chain
      <4>9. NoFatalError'
        BY <4>1 DEF QueueInv, NoFatalError
      <4> QED BY <4>5, <4>6, <4>7, <4>8, <4>9 DEF QueueInv
    <3>2. CASE NextSyncBlock(pindex.sync, m_chain) # null
      BY <2>4, <2>6, <3>2 DEF SyncRecheck
    <3> QED BY <3>1, <3>2
  <2>7. CASE SyncProcess
    <3>1. /\ UNCHANGED <<signals, m_chain, m_synced, reader, readTip, fatal, node, m_block_index>>
          /\ hashDB \subseteq hashDB'
          /\ \/ pc' = [pc EXCEPT !.sync = "loop"] /\ ret' = ret
             \/ pc' = [pc EXCEPT !.sync = "commit"] /\ ret' = [ret EXCEPT !.sync = "loop"]
      BY <2>7 DEF SyncProcess, Goto, CallCommit
    <3> QED BY <1>2, <2>1, <2>2, <3>1 DEF Syncing
  <2>8. CASE CommitCheck("sync") \/ CommitWrite("sync")
    <3>1. /\ UNCHANGED <<signals, m_chain, m_synced, reader, readTip, fatal, node, m_block_index, hashDB,
                         m_best_block_index, pindex>>
          /\ pc.sync \in {"commit", "write"}
          /\ \/ pc' = [pc EXCEPT !.sync = "write"] /\ ret' = ret
             \/ pc' = [pc EXCEPT !.sync = ret.sync] /\ ret' = [ret EXCEPT !.sync = "none"]
      BY <2>8 DEF CommitCheck, CommitWrite, Goto, Return
    <3>2. (pc'.sync = "recheck" \/ (pc'.sync \in {"commit", "write"} /\ ret'.sync = "recheck"))
               => m_best_block_index' = pindex'.sync
      BY <2>2, <3>1 DEF QueueInv, GenesisFirst
    <3> QED BY <1>2, <2>1, <2>2, <3>1, <3>2 DEF Syncing
  <2> QED BY <1>3, <2>3, <2>5, <2>6, <2>7, <2>8 DEF Sync
<1> QED BY <1>1, <1>3

(* A callback is done with: what is left of the queue keeps its promises,  *)
(* seen from the block that the callbacks have taken last.                 *)
LEMMA QueueTail ==
  ASSUME IndexInv, QueueInv, signals # <<>>, signals' = Tail(signals), pc.callback = "none", node # "down",
         UNCHANGED <<m_chain, m_block_index, m_synced, reader, readTip, fatal, node, hashDB>>,
         signals[1].event # "Promise",
         \/ ~m_synced
         \/ /\ Current' = Current
            /\ ~(ConnectsAt(signals, 1) /\ HasAncestor(Current, pprev[signals[1].block]))
         \/ ConnectsAt(signals, 1) /\ Current' = signals[1].block
  PROVE  QueueType' /\ TipReached' /\ CallerServed' /\ NoFatalError'
<1>1. signals \in Seq(Event) /\ Len(signals) \in Nat /\ Len(signals) >= 1
  BY SMT DEF QueueInv, QueueType
<1>2. /\ signals' \in Seq(Event) /\ Len(signals') = Len(signals) - 1
      /\ \A i \in 1..Len(signals') : signals'[i] = signals[i + 1] /\ i + 1 \in 1..Len(signals)
  BY <1>1, SMT
<1>3. ASSUME NEW j \in Nat, j < Len(signals), NEW tip, Linked(signals, tip, j + 1)
      PROVE  /\ Linked(signals', tip, j)
             /\ m_synced /\ Reaches(signals, Current, tip, j + 1) /\ Current' = Current
                  /\ ~(ConnectsAt(signals, 1) /\ HasAncestor(Current, pprev[signals[1].block]))
                  => Reaches(signals', Current', tip, j)
             /\ ConnectsAt(signals, 1) /\ Current' = signals[1].block => Reaches(signals', Current', tip, j)
  <2>1. Linked(Tail(signals), tip, j)
    BY <1>1, <1>3, TailSkips
  <2>2. ASSUME Reaches(signals, Current, tip, j + 1),
               ~(ConnectsAt(signals, 1) /\ HasAncestor(Current, pprev[signals[1].block]))
        PROVE  Reaches(Tail(signals), Current, tip, j)
    BY <1>1, <1>3, <2>2, TailSkips
  <2>3. ASSUME ConnectsAt(signals, 1) PROVE Reaches(Tail(signals), signals[1].block, tip, j)
    BY <1>1, <1>3, <2>3, TailTakes
  <2> QED BY <2>1, <2>2, <2>3
<1>4. QueueType'
  BY <1>2 DEF QueueInv, QueueType
<1>5. TipReached'
  <2>1. Len(signals') \in Nat /\ Len(signals') < Len(signals) /\ Len(signals') + 1 = Len(signals)
    BY <1>1, <1>2, SMT
  <2>2. Linked(signals, m_chain, Len(signals')+1) /\ (m_synced => Reaches(signals, Current, m_chain, Len(signals')+1))
    BY <2>1 DEF QueueInv, TipReached
  <2> QED BY <1>3, <2>1, <2>2 DEF TipReached
<1>6. CallerServed'
  <2>1. ASSUME NEW p \in 1..Len(signals'), signals'[p].event = "Promise" PROVE PromiseOK(p)'
    <3>1. p + 1 \in 1..Len(signals) /\ signals[p + 1].event = "Promise" /\ PromiseOK(p + 1) /\ m_synced
      BY <1>2, <2>1 DEF QueueInv, CallerServed, PromiseOK
    <3>2. p - 1 \in Nat /\ p - 1 < Len(signals) /\ (p - 1) + 1 = (p + 1) - 1
      BY <1>1, <1>2, SMT
    <3>3. /\ Linked(signals, readTip, (p - 1) + 1)
          /\ Covered(readTip) \/ Reaches(signals, Current, readTip, (p - 1) + 1)
      BY <3>1, <3>2 DEF PromiseOK
    <3>4. Linked(signals', readTip, p - 1)
      BY <1>3, <3>2, <3>3
    <3>5. Covered(readTip) \/ Reaches(signals', Current', readTip, p - 1)
      BY <1>3, <3>1, <3>2, <3>3
    <3>6. \A i \in 1..Len(signals') : signals'[i].event = "Promise" => i = p
      <4> SUFFICES ASSUME NEW i \in 1..Len(signals'), signals'[i].event = "Promise" PROVE i = p
        OBVIOUS
      <4>1. i + 1 = p + 1
        BY <1>2, <3>1 DEF PromiseOK
      <4> QED BY <4>1, SMT
    <3> QED BY <3>1, <3>4, <3>5, <3>6 DEF PromiseOK, Covered, NamesOf, Chain
  <2> QED BY <2>1 DEF QueueInv, CallerServed, Covered, NamesOf, Chain
<1>7. NoFatalError'
  BY DEF QueueInv, NoFatalError
<1> QED BY <1>4, <1>5, <1>6, <1>7

(* The handlers of the callbacks: BlockConnected takes the block or leaves *)
(* it, the steps after it set the best block to the one it has taken, and  *)
(* a promise is kept when the blocks before it are worked off.             *)
LEMMA QueueCallback ==
  ASSUME IndexInv, QueueInv, Callback
  PROVE  QueueInv'
<1> USE DEF chainVars, indexVars, threadVars, dbVars, readVars
<1>1. /\ pc \in [sync : Syncing \cup {"none", "done"}, callback : {"none", "process", "set", "commit", "write"}]
      /\ ret \in [sync : {"none", "loop", "recheck", "done"}, callback : {"none"}]
      /\ pindex \in [sync : BlockOrNull, callback : BlockOrNull]
      /\ m_synced => pc.sync \notin Syncing
  BY DEF IndexInv, IndexType, TurnsTaken
<1>2. signals \in Seq(Event) /\ (signals # <<>> => Head(signals) = signals[1] /\ signals[1] \in Event)
  BY SMT DEF QueueInv, QueueType
<1>3. ASSUME Ignore, signals # <<>>, pc.callback = "none", node # "down", signals[1].event # "Promise",
             ~m_synced \/ (m_best_block_index # null /\
                           ~(ConnectsAt(signals, 1) /\ HasAncestor(m_best_block_index, pprev[signals[1].block])))
      PROVE  QueueInv'
  <2>1. /\ signals' = Tail(signals) /\ Current = m_best_block_index /\ Current' = Current
        /\ UNCHANGED <<m_chain, m_block_index, m_synced, m_best_block_index, reader, readTip, fatal, node, hashDB, pc, ret, pindex>>
    BY <1>3 DEF Ignore, Current
  <2>2. GenesisFirst'
    BY <1>3, <2>1 DEF QueueInv, GenesisFirst
  <2> QED BY <1>3, <2>1, <2>2, QueueTail DEF QueueInv
<1>4. CASE BlockConnected
  <2>1. /\ signals # <<>> /\ pc.callback = "none" /\ node # "down" /\ signals[1].event = "BlockConnected"
        /\ ConnectsAt(signals, 1) /\ signals[1].block \in Block /\ Current = m_best_block_index
    BY <1>2, <1>4, SMT DEF BlockConnected, Handles, ConnectsAt, Event, Current
  <2>2. CASE ~m_synced /\ Ignore
    BY <1>3, <2>1, <2>2
  <2>3. ASSUME NEW b \in Block, m_synced, b = signals[1].block, m_best_block_index = null, b # genesis PROVE FALSE
    BY <2>1, <2>3, SMT DEF QueueInv, GenesisFirst, Connected
  <2>4. ASSUME NEW b \in Block, b = signals[1].block, m_best_block_index # null,
               ~HasAncestor(m_best_block_index, pprev[b]), Ignore
        PROVE  QueueInv'
    BY <1>3, <2>1, <2>4
  <2>5. CASE Fail("RewindNull")
    BY <2>5, QueueDown DEF Fail
  <2>6. ASSUME NEW b \in Block, m_synced, b = signals[1].block, signals' = Tail(signals),
               m_best_block_index' = pprev[b], pindex' = [pindex EXCEPT !.callback = b], Goto("callback", "process"),
               UNCHANGED <<node, fatal, chainVars, m_synced, m_interrupt, dbVars, readVars, boundVars>>
        PROVE  QueueInv'
    <3>1. pc'.callback = "process" /\ pc'.sync = pc.sync /\ pindex'.callback = b /\ Current' = b
      BY <1>1, <2>6 DEF Goto, Current
    <3>2. GenesisFirst'
      BY <1>1, <2>6, <3>1, TreeAssumption DEF QueueInv, GenesisFirst, Syncing
    <3> QED BY <2>1, <2>6, <3>1, <3>2, QueueTail DEF QueueInv
  <2> QED BY <1>2, <1>4, <2>1, <2>2, <2>3, <2>4, <2>5, <2>6 DEF BlockConnected
<1>5. CASE CallbackProcess
  <2>1. /\ pc.callback = "process" /\ pc' = [pc EXCEPT !.callback = "set"] /\ hashDB \subseteq hashDB'
        /\ UNCHANGED <<m_chain, m_block_index, signals, m_synced, m_best_block_index, reader, readTip, fatal, node, ret, pindex>>
    BY <1>5 DEF CallbackProcess, Goto
  <2>2. GenesisFirst' /\ Current' = Current
    BY <1>1, <2>1 DEF QueueInv, GenesisFirst, Current
  <2> QED BY <2>1, <2>2, QueueFrame
<1>6. CASE CallbackSetBest
  <2>1. /\ pc.callback = "set" /\ pc' = [pc EXCEPT !.callback = "none"] /\ m_best_block_index' = pindex.callback
        /\ pindex' = [pindex EXCEPT !.callback = null] /\ m_synced
        /\ UNCHANGED <<m_chain, m_block_index, signals, m_synced, reader, readTip, fatal, node, ret, hashDB>>
    BY <1>6 DEF CallbackSetBest, Goto, IndexInv, TurnsTaken
  <2>2. GenesisFirst' /\ Current' = Current
    BY <1>1, <2>1 DEF QueueInv, GenesisFirst, Current, Syncing
  <2> QED BY <2>1, <2>2, QueueFrame
<1>7. CASE ChainStateFlushed
  <2>1. /\ signals # <<>> /\ pc.callback = "none" /\ node # "down" /\ signals[1].event = "ChainStateFlushed"
        /\ ~ConnectsAt(signals, 1) /\ signals[1].block \in m_block_index /\ Head(signals) = signals[1]
    BY <1>2, <1>7, SMT DEF ChainStateFlushed, Handles, ConnectsAt, QueueInv, QueueType
  <2>2. m_synced => m_best_block_index # null
    BY <2>1, SMT DEF QueueInv, GenesisFirst, Connected
  <2>3. CASE Ignore
    BY <1>3, <2>1, <2>2, <2>3
  <2>4. CASE /\ m_synced /\ signals' = Tail(signals) /\ CallCommit("callback", "none")
             /\ UNCHANGED <<node, fatal, chainVars, indexVars, pindex, dbVars, readVars, boundVars>>
    <3>1. pc'.callback = "commit" /\ pc'.sync = pc.sync /\ Current' = Current
      BY <1>1, <2>1, <2>4 DEF CallCommit, Current
    <3>2. GenesisFirst'
      BY <1>1, <2>2, <2>4, <3>1 DEF QueueInv, GenesisFirst, Syncing
    <3> QED BY <2>1, <2>4, <3>1, <3>2, QueueTail DEF QueueInv
  <2> QED BY <1>7, <2>1, <2>2, <2>3, <2>4 DEF ChainStateFlushed
<1>8. CASE PromiseKept
  <2>1. /\ signals # <<>> /\ pc.callback = "none" /\ node # "down" /\ signals[1].event = "Promise"
        /\ signals' = Tail(signals) /\ reader' = "synced" /\ ~ConnectsAt(signals, 1)
        /\ UNCHANGED <<m_chain, m_block_index, m_synced, m_best_block_index, readTip, fatal, node, hashDB, pc, ret, pindex>>
    BY <1>2, <1>8 DEF PromiseKept, Handles, ConnectsAt
  <2>2. /\ Len(signals) \in Nat /\ Len(signals) >= 1 /\ signals' \in Seq(Event) /\ Len(signals') = Len(signals) - 1
        /\ \A i \in 1..Len(signals') : signals'[i] = signals[i + 1] /\ i + 1 \in 1..Len(signals)
    BY <1>2, <2>1, SMT
  <2>3. PromiseOK(1) /\ m_synced
    BY <2>1, <2>2, SMT DEF QueueInv, CallerServed, PromiseOK
  <2>4. Current = m_best_block_index /\ Current' = Current
    BY <2>1 DEF Current
  <2>5. Covered(readTip)
    <3>1. Covered(readTip) \/ HasAncestor(m_best_block_index, readTip)
      BY <2>3, <2>4, SMT DEF PromiseOK, Reaches, Takes
    <3> QED BY <3>1, CoveredBelow DEF IndexInv, IndexType, BlocksIndexed
  <2>6. \A i \in 1..Len(signals') : signals'[i].event # "Promise"
    <3> SUFFICES ASSUME NEW i \in 1..Len(signals'), signals'[i].event = "Promise" PROVE FALSE
      OBVIOUS
    <3>1. i + 1 = 1
      BY <2>2, <2>3 DEF PromiseOK
    <3> QED BY <2>2, <3>1, SMT
  <2>7. QueueType'
    BY <2>1, <2>2 DEF QueueInv, QueueType
  <2>8. TipReached'
    <3>1. Len(signals') \in Nat /\ Len(signals') < Len(signals) /\ Len(signals') + 1 = Len(signals)
      BY <2>2, SMT
    <3>2. Linked(signals, m_chain, Len(signals') + 1) /\ Reaches(signals, Current, m_chain, Len(signals') + 1)
      BY <2>3, <3>1 DEF QueueInv, TipReached
    <3>3. Linked(Tail(signals), m_chain, Len(signals')) /\ Reaches(Tail(signals), Current, m_chain, Len(signals'))
      BY <1>2, <2>1, <3>1, <3>2, TailSkips
    <3> QED BY <2>1, <2>4, <3>3 DEF TipReached
  <2>9. GenesisFirst'
    <3>1. m_best_block_index # null
      BY <2>1, <2>3, SMT DEF QueueInv, GenesisFirst, Connected
    <3> QED BY <2>1, <3>1 DEF QueueInv, GenesisFirst
  <2>10. CallerServed'
    BY <2>1, <2>5, <2>6 DEF CallerServed, Covered, NamesOf, Chain
  <2>11. NoFatalError'
    BY <2>1 DEF QueueInv, NoFatalError
  <2> QED BY <2>7, <2>8, <2>9, <2>10, <2>11 DEF QueueInv
<1>9. CASE CommitCheck("callback") \/ CommitWrite("callback")
  <2>1. /\ pc.callback \in {"commit", "write"}
        /\ UNCHANGED <<m_chain, m_block_index, signals, m_synced, m_best_block_index, reader, readTip, fatal, node, hashDB, pindex>>
        /\ \/ pc' = [pc EXCEPT !.callback = "write"] /\ ret' = ret
           \/ pc' = [pc EXCEPT !.callback = ret.callback] /\ ret' = [ret EXCEPT !.callback = "none"]
    BY <1>9 DEF CommitCheck, CommitWrite, Goto, Return
  <2>2. pc'.callback \in {"write", "none"} /\ pc'.sync = pc.sync /\ ret'.sync = ret.sync
    BY <1>1, <2>1
  <2>3. GenesisFirst' /\ Current' = Current
    BY <2>1, <2>2 DEF QueueInv, GenesisFirst, Current
  <2> QED BY <2>1, <2>3, QueueFrame
<1> QED BY <1>4, <1>5, <1>6, <1>7, <1>8, <1>9 DEF Callback

(* BlockUntilSyncedToCurrentChain: the shortcut sees an index that covers  *)
(* the tip, and otherwise the blocks pending before the promise reach it.  *)
LEMMA QueueCaller ==
  ASSUME IndexInv, QueueInv, BlockUntilSyncedToCurrentChain
  PROVE  QueueInv'
<1> USE DEF chainVars, indexVars, threadVars, dbVars
<1>1. node = "up" /\ m_chain # null /\ reader = "none" /\ m_synced
  BY DEF BlockUntilSyncedToCurrentChain
<1>2. CASE Fail("CallerNull")
  BY <1>2, QueueDown DEF Fail
<1>3. CASE /\ readTip' = m_chain /\ m_best_block_index # null
           /\ UNCHANGED <<node, fatal, chainVars, indexVars, threadVars, dbVars, boundVars>>
  <2>1. \A i \in 1..Len(signals) : signals[i].event # "Promise"
    BY <1>1 DEF QueueInv, CallerServed, PromiseOK
  <2>2. CASE HasAncestor(m_best_block_index, m_chain) /\ reader' = "synced" /\ UNCHANGED signals
    <3>1. Covered(m_chain)
      BY <2>2, CoveredBelow DEF IndexInv, IndexType, BlocksIndexed
    <3>2. Current' = Current /\ m_chain \in BlockOrNull
      BY <1>3 DEF Current, IndexInv, IndexType
    <3>3. QueueType'
      BY <1>1, <1>3, <2>2, <3>2 DEF QueueInv, QueueType
    <3>4. TipReached' /\ GenesisFirst' /\ NoFatalError'
      BY <1>3, <2>2, <3>2 DEF QueueInv, TipReached, GenesisFirst, NoFatalError
    <3>5. CallerServed'
      BY <1>3, <2>1, <2>2, <3>1 DEF CallerServed, Covered, NamesOf, Chain
    <3> QED BY <3>3, <3>4, <3>5 DEF QueueInv
  <2>3. CASE reader' = "waiting" /\ signals' = Append(signals, [event |-> "Promise", block |-> null])
    <3> DEFINE e == [event |-> "Promise", block |-> null]
    <3>1. e \in Event /\ e.event = "Promise" /\ signals' = Append(signals, e)
      BY <2>3 DEF Event
    <3> HIDE DEF e
    <3>2. /\ QueueType' <=> reader' \in {"none", "waiting", "synced"} /\ readTip' \in BlockOrNull
          /\ TipReached' /\ GenesisFirst' /\ NoFatalError' /\ Current' = Current
          /\ Len(signals') = Len(signals) + 1 /\ signals'[Len(signals) + 1] = e
          /\ \A i \in 1..Len(signals) : signals'[i] = signals[i]
      BY <1>1, <1>3, <3>1, QueueAppend
    <3>3. QueueType'
      BY <1>3, <2>3, <3>2 DEF IndexInv, IndexType
    <3>4. signals \in Seq(Event) /\ Len(signals) \in Nat /\ signals' \in Seq(Event)
      BY <3>3, SMT DEF QueueInv, QueueType
    <3>5. ASSUME NEW p \in 1..Len(signals'), signals'[p].event = "Promise" PROVE p = Len(signals) + 1
      BY <2>1, <3>2, <3>4, <3>5, SMT
    <3>6. /\ Linked(signals', m_chain, Len(signals)) /\ Reaches(signals', Current', m_chain, Len(signals))
      <4>1. Linked(signals, m_chain, Len(signals)) /\ Reaches(signals, Current, m_chain, Len(signals))
        BY <1>1 DEF QueueInv, TipReached
      <4>2. Len(signals) <= Len(signals) /\ Len(signals) <= Len(signals')
        BY <3>2, <3>4, SMT
      <4> QED BY <3>2, <3>4, <4>1, <4>2, SamePrefix
    <3>7. ASSUME NEW p \in 1..Len(signals'), signals'[p].event = "Promise" PROVE PromiseOK(p)'
      <4>1. p = Len(signals) + 1 /\ p - 1 = Len(signals)
        BY <3>4, <3>5, <3>7, SMT
      <4> QED BY <1>3, <2>3, <3>5, <3>6, <4>1 DEF PromiseOK
    <3>8. CallerServed'
      BY <1>1, <1>3, <2>3, <3>7 DEF CallerServed
    <3> QED BY <3>2, <3>3, <3>8 DEF QueueInv
  <2> QED BY <1>2, <1>3, <2>2, <2>3 DEF BlockUntilSyncedToCurrentChain
<1> QED BY <1>2, <1>3 DEF BlockUntilSyncedToCurrentChain

(* Every step keeps the promises of the pending callbacks.                 *)
LEMMA QueueStep == IndexInv /\ QueueInv /\ [Next]_vars => QueueInv'
<1> SUFFICES ASSUME IndexInv, QueueInv, [Next]_vars PROVE QueueInv'
  OBVIOUS
<1> USE DEF chainVars, indexVars, threadVars, dbVars, readVars
<1>1. ASSUME UNCHANGED <<node, fatal, chainVars, signals, m_synced, m_best_block_index, threadVars, dbVars, readVars>>
      PROVE  QueueInv'
  <2>1. GenesisFirst' /\ Current' = Current
    BY <1>1 DEF QueueInv, GenesisFirst, Current
  <2> QED BY <1>1, <2>1, QueueFrame
<1>2. CASE UNCHANGED vars \/ Interrupt
  BY <1>1, <1>2 DEF vars, Interrupt
<1>3. CASE \E wipe \in BOOLEAN : Start(wipe)
  BY <1>3, QueueStart
<1>4. CASE \E b \in Block : ActivateBestChain(b)
  BY <1>4, QueueActivate
<1>5. CASE InvalidateBlock
  BY <1>5, QueueInvalidate
<1>6. CASE FlushStateToDisk \/ Shutdown
  BY <1>6, QueueFlush
<1>7. CASE Crash \/ Stop
  BY <1>7, QueueDown DEF Crash, Stop
<1>8. CASE StartBackgroundSync \/ Sync
  BY <1>8, QueueSync
<1>9. CASE Callback
  BY <1>9, QueueCallback
<1>10. CASE BlockUntilSyncedToCurrentChain
  BY <1>10, QueueCaller
<1>11. CASE FindNamePreimage
  <2>1. /\ reader = "synced" /\ reader' = "none" /\ readTip' = null
        /\ UNCHANGED <<node, fatal, chainVars, signals, m_synced, m_best_block_index, threadVars, dbVars>>
    BY <1>11 DEF FindNamePreimage
  <2>2. \A i \in 1..Len(signals) : signals[i].event # "Promise"
    BY <2>1 DEF QueueInv, CallerServed, PromiseOK
  <2>3. QueueType'
    BY <2>1 DEF QueueInv, QueueType, BlockOrNull
  <2>4. Current' = Current
    BY <2>1 DEF Current
  <2>5. TipReached' /\ GenesisFirst' /\ NoFatalError'
    BY <2>1, <2>4 DEF QueueInv, TipReached, GenesisFirst, NoFatalError
  <2>6. CallerServed'
    BY <2>1, <2>2 DEF CallerServed
  <2> QED BY <2>3, <2>5, <2>6 DEF QueueInv
<1> QED BY <1>2, <1>3, <1>4, <1>5, <1>6, <1>7, <1>8, <1>9, <1>10, <1>11 DEF Next

(* The inductive invariant of the callbacks between the chain and the      *)
(* index: whoever works them off from the block taken last ends above the  *)
(* tip, and a caller's promise stands behind the blocks it waits for.      *)
THEOREM QueueInvHolds == Spec => []QueueInv
<1>1. Init => QueueInv
  <2> SUFFICES ASSUME Init PROVE QueueInv
    OBVIOUS
  <2>1. QueueType
    BY SMT DEF Init, QueueType, BlockOrNull
  <2>2. TipReached
    BY SMT DEF Init, TipReached, Linked
  <2>3. GenesisFirst /\ CallerServed /\ NoFatalError
    BY SMT DEF Init, GenesisFirst, CallerServed, NoFatalError
  <2> QED BY <2>1, <2>2, <2>3 DEF QueueInv
<1> QED BY <1>1, IndexInvHolds, QueueStep, PTL DEF Spec

(* In any tree of blocks, once m_synced is set and the callbacks are       *)
(* worked off, the best block of the index has the tip on its chain: no    *)
(* block is lost where Sync hands over to BlockConnected, whatever the     *)
(* backlog of stale blocks and however the chain is reorganised.           *)
THEOREM SyncedIndexCoversTip == Spec => []SyncedCoversTip
<1>1. QueueInv => SyncedCoversTip
  <2> SUFFICES ASSUME QueueInv, m_synced, signals = <<>>, pc.callback = "none"
               PROVE  HasAncestor(m_best_block_index, m_chain)
    BY DEF SyncedCoversTip
  <2> QED BY SMT DEF QueueInv, TipReached, Reaches, Takes, Current
<1> QED BY <1>1, QueueInvHolds, PTL

(* In any tree of blocks, when BlockUntilSyncedToCurrentChain has returned *)
(* true, the lookup by hash finds every name registered up to the tip that *)
(* the call saw.                                                           *)
THEOREM LookupAlwaysComplete == Spec => []LookupComplete
<1>1. QueueInv => LookupComplete
  BY DEF QueueInv, CallerServed, LookupComplete, Covered
<1> QED BY <1>1, QueueInvHolds, PTL

(* The errors of Init, BlockConnected and ChainStateFlushed that would end *)
(* the node are never raised.                                              *)
THEOREM FatalErrorNeverRaised == Spec => []NoFatalError
<1>1. QueueInv => NoFatalError
  BY DEF QueueInv
<1> QED BY <1>1, QueueInvHolds, PTL
=============================================================================
