----------------------------- MODULE AuxpowMiner ----------------------------
(***************************************************************************)
(* AuxpowMiner: the templates that createauxblock hands out and            *)
(* submitauxblock looks up.  The tip and the mempool change at any time    *)
(* outside of cs_main.                                                     *)
(***************************************************************************)
EXTENDS Naturals, FiniteSets, Sequences

CONSTANTS Script,          \* coinbase scripts, one per miner's address
          Tip,             \* blocks that can be the tip
          RegenerateAfter, \* seconds after which a changed mempool counts (60)
          null,
          MaxTime,         \* bound: clock
          MaxUpdates,      \* bound: changes of the mempool
          MaxBlocks        \* bound: templates constructed

ASSUME MinerAssumption ==
  /\ RegenerateAfter \in Nat /\ MaxTime \in Nat /\ MaxUpdates \in Nat /\ MaxBlocks \in Nat
  /\ null \notin Tip \cup Nat

VARIABLES
  tip,              \* ActiveChain().Tip()
  updated,          \* mempool.GetTransactionsUpdated()
  now,              \* GetTime()
  heap,             \* every template ever constructed: [script, prev, txs, time]
  blocks,           \* addresses (positions in heap) owned by blocks
  mapBlocks,        \* addresses in mapBlocks, under their template's hash
  curBlocks,        \* curBlocks[s]: an address or null
  pindexPrev, txUpdatedLast, startTime,
  answer,           \* createauxblock's last answer: its block and script, the prev
                    \* whose height it reports, and n to tell answers apart
  submitting        \* the templates copied by submitauxblock calls under way

env == <<tip, updated, now>>
state == <<heap, blocks, mapBlocks, curBlocks, pindexPrev, txUpdatedLast, startTime>>
minerVars == <<env, state, answer, submitting>>

NoAnswer == [block |-> null, script |-> null, prev |-> null, n |-> 0]

MinerInit ==
  /\ tip \in Tip
  /\ updated = 0 /\ now = 0
  /\ heap = <<>> /\ blocks = {} /\ mapBlocks = {}
  /\ curBlocks = [s \in Script |-> null]
  /\ pindexPrev = null /\ txUpdatedLast = 0 /\ startTime = 0
  /\ answer = NoAnswer
  /\ submitting = {}

-----------------------------------------------------------------------------
(* The rest of the node.                                                   *)

NewTip(b) == /\ tip' = b
             /\ b # tip
             /\ UNCHANGED <<updated, now, state, answer, submitting>>

MempoolChanges == /\ updated < MaxUpdates
                  /\ updated' = updated + 1
                  /\ UNCHANGED <<tip, now, state, answer, submitting>>

Tick == /\ now < MaxTime
        /\ now' = now + 1
        /\ UNCHANGED <<tip, updated, state, answer, submitting>>

-----------------------------------------------------------------------------
(* getCurrentBlock, under cs and cs_main.                                  *)

(* Slip: a new tip is not a reason to construct a template.                *)
RegenerateUnlessCached(s) ==
  \/ curBlocks[s] = null
  \/ updated # txUpdatedLast /\ now - startTime > RegenerateAfter

Regenerate(s) ==
  \/ curBlocks[s] = null
  \/ pindexPrev # tip
  \/ updated # txUpdatedLast /\ now - startTime > RegenerateAfter

(* Slip: curBlocks keeps its pointers when blocks is cleared.              *)
ClearedExceptCurrent(moved) ==
  [blocks |-> IF moved THEN {} ELSE blocks,
   mapBlocks |-> IF moved THEN {} ELSE mapBlocks,
   curBlocks |-> curBlocks]

(* The templates of an old tip are freed.                                  *)
Cleared(moved) ==
  [blocks |-> IF moved THEN {} ELSE blocks,
   mapBlocks |-> IF moved THEN {} ELSE mapBlocks,
   curBlocks |-> IF moved THEN [s \in Script |-> null] ELSE curBlocks]

(* Slip: mapBlocks holds the newest template only.                         *)
SavedNewest(saved, b) == {b}

Saved(saved, b) == saved \cup {b}

Answer(s, b) == [block |-> heap'[b], script |-> s, prev |-> pindexPrev', n |-> 1 - answer.n]

(* createNewBlock succeeds.  emplace does not replace an entry.            *)
CreateNew(s) ==
  /\ Regenerate(s)
  /\ Len(heap) < MaxBlocks
  /\ LET c == Cleared(pindexPrev # tip)
         b == Len(heap) + 1
     IN /\ heap' = Append(heap, [script |-> s, prev |-> tip, txs |-> updated, time |-> now])
        /\ blocks' = c.blocks \cup {b}
        /\ mapBlocks' = Saved(c.mapBlocks, b)
        /\ curBlocks' = IF c.curBlocks[s] = null THEN [c.curBlocks EXCEPT ![s] = b]
                                                 ELSE c.curBlocks
        /\ pindexPrev' = tip /\ txUpdatedLast' = updated /\ startTime' = now
        /\ answer' = Answer(s, b)
  /\ UNCHANGED <<env, submitting>>

(* createNewBlock fails: the exception leaves what was cleared.            *)
CreateFails(s) ==
  /\ Regenerate(s)
  /\ LET c == Cleared(pindexPrev # tip)
     IN /\ blocks' = c.blocks /\ mapBlocks' = c.mapBlocks /\ curBlocks' = c.curBlocks
  /\ UNCHANGED <<env, heap, pindexPrev, txUpdatedLast, startTime, answer, submitting>>

CreateCached(s) ==
  /\ ~Regenerate(s)
  /\ UNCHANGED <<env, state, submitting>>
  /\ answer' = Answer(s, curBlocks[s])

(* submitAuxBlock: lookupSavedBlock and a copy under cs ...                *)
lookupSavedBlock(block) == \E b \in mapBlocks : heap[b] = block

SubmitLookup(b) ==
  /\ b \in mapBlocks
  /\ submitting' = submitting \cup {heap[b]}
  /\ UNCHANGED <<env, state, answer>>

(* ... and ProcessNewBlock without it, which may make the block the tip.   *)
SubmitProcess(block) ==
  /\ block \in submitting
  /\ submitting' = submitting \ {block}
  /\ tip' \in IF block.prev = tip THEN Tip ELSE {tip}
  /\ UNCHANGED <<updated, now, state, answer>>

MinerNext ==
  \/ \E b \in Tip : NewTip(b)
  \/ MempoolChanges
  \/ Tick
  \/ \E s \in Script : CreateNew(s) \/ CreateFails(s) \/ CreateCached(s)
  \/ \E b \in mapBlocks : SubmitLookup(b)
  \/ \E block \in submitting : SubmitProcess(block)

MinerSpec == MinerInit /\ [][MinerNext]_minerVars
-----------------------------------------------------------------------------
(* mapBlocks and curBlocks "do not own the memory": they point to          *)
(* templates that blocks still holds, each of the current pindexPrev, and  *)
(* curBlocks to one that pays its script.                                  *)
PointersOwned ==
  /\ mapBlocks \cup {curBlocks[s] : s \in {r \in Script : curBlocks[r] # null}} \subseteq blocks
  /\ \A b \in blocks : heap[b].prev = pindexPrev
  /\ \A s \in Script : curBlocks[s] # null => heap[curBlocks[s]].script = s

(* createauxblock answers with a template that pays the caller and extends *)
(* the tip, and the height that it reports (from pindexPrev) is its own.   *)
AnswerExtendsTip ==
  [][answer' # answer =>
       /\ answer'.block.script = answer'.script
       /\ answer'.block.prev = tip /\ answer'.prev = tip]_minerVars

(* What createauxblock answered, the last time or earlier, can be          *)
(* submitted as long as no call has met another tip: templates replaced    *)
(* because of the mempool stay in mapBlocks.                               *)
AnswersSubmittable ==
  /\ \A b \in blocks : lookupSavedBlock(heap[b])
  /\ (answer # NoAnswer /\ answer.prev = pindexPrev /\ blocks # {}) => lookupSavedBlock(answer.block)

(* "Calling the method again should return the same, cached block a second *)
(* time" (auxpow_tests.cpp) when neither tip nor mempool changed.          *)
CallAgainSame ==
  [][(/\ answer' # answer /\ answer # NoAnswer
      /\ answer'.script = answer.script
      /\ pindexPrev = tip /\ updated = txUpdatedLast)
        => answer'.block = answer.block]_minerVars
=============================================================================
