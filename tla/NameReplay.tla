----------------------------- MODULE NameReplay -----------------------------
(***************************************************************************)
(* Crash recovery of the chainstate.  CCoinsViewDB::BatchWrite writes the  *)
(* coins of the tip in several batches and the names with the last one; a  *)
(* crash in between leaves the pair of blocks between which the database   *)
(* is.  At the next start Chainstate::ReplayBlocks rolls the old branch    *)
(* back and the new one forward, and writes the result the same way.  The  *)
(* chain itself is that of NameChain.  A block hash is the chain that ends *)
(* in the block: blocks, their undo data and the block index are written   *)
(* before the coins, so they survive the crash.                            *)
(***************************************************************************)
EXTENDS NameChain

CONSTANTS NameLess,        \* pairs of names in the order of std::set<valtype>
          MaxCrashes       \* bound: crashes

ASSUME NameLessAssumption == \A n \in Name : <<n, n>> \notin NameLess

VARIABLES
  disk,      \* [coins, names, best, heads]: the database, with DB_BEST_BLOCK
             \* as <<chain>> or <<>> and DB_HEAD_BLOCKS as <<new, old>> or <<>>
  flush,     \* what BatchWrite is writing: [coins, names, tip]
  mode,      \* "run", "flush", "down", "replaying", "replay", "start",
             \* "replayed", "recovered"
  crashes    \* number of crashes so far

diskVars == <<disk, flush, mode, crashes>>
allVars == <<vars, diskVars>>

(* Block c is block d or an ancestor of it.                                *)
IsAncestor(c, d) == Len(c) <= Len(d) /\ SubSeq(d, 1, Len(c)) = c

pprev(c) == SubSeq(c, 1, Len(c) - 1)

NoFlush(db) == [coins |-> db.coins, names |-> db.names, tip |-> <<>>]

ReplayInit ==
  /\ Init
  /\ disk = [coins |-> tip.coins, names |-> tip.names, best |-> <<chain>>, heads |-> <<>>]
  /\ flush = NoFlush(disk)
  /\ mode = "run"
  /\ crashes = 0

-----------------------------------------------------------------------------
(* CCoinsViewDB::BatchWrite, for a flush of the tip and for ReplayBlocks.  *)

OldTip == IF disk.best # <<>> THEN disk.best[1] ELSE disk.heads[2]

(* FlushStateToDisk between two blocks.                                    *)
FlushBegin ==
  /\ mode = "run" /\ pc = "idle" /\ ~failed
  /\ flush' = [coins |-> tip.coins, names |-> tip.names, tip |-> chain]
  /\ mode' = "flush"
  /\ UNCHANGED <<vars, disk, crashes>>

(* Slip: a partial batch carries the names along.                          *)
PartialBatchWithNames(o) ==
  /\ mode \in {"flush", "replay"}
  /\ disk.coins[o] # flush.coins[o]
  /\ disk' = [coins |-> [disk.coins EXCEPT ![o] = flush.coins[o]], names |-> flush.names,
              best |-> <<>>, heads |-> <<flush.tip, OldTip>>]
  /\ UNCHANGED <<vars, flush, mode, crashes>>

(* A batch that is full: some coins, and the database marked as being      *)
(* between two blocks.  Batches of several coins are several of these.     *)
PartialBatch(o) ==
  /\ mode \in {"flush", "replay"}
  /\ disk.coins[o] # flush.coins[o]
  /\ disk' = [coins |-> [disk.coins EXCEPT ![o] = flush.coins[o]], names |-> disk.names,
              best |-> <<>>, heads |-> <<flush.tip, OldTip>>]
  /\ UNCHANGED <<vars, flush, mode, crashes>>

(* The last batch: the other coins, the names and the new best block.      *)
FinalBatch ==
  /\ mode \in {"flush", "replay"}
  /\ disk' = [coins |-> flush.coins, names |-> flush.names, best |-> <<flush.tip>>, heads |-> <<>>]
  /\ mode' = IF mode = "flush" THEN "run" ELSE "replayed"
  /\ flush' = NoFlush(disk')
  /\ UNCHANGED <<vars, crashes>>

-----------------------------------------------------------------------------
(* Everything but the database is lost.                                    *)
Crash ==
  /\ mode \in {"run", "flush", "replaying", "replay"}
  /\ crashes < MaxCrashes
  /\ crashes' = crashes + 1
  /\ mode' = "down"
  /\ flush' = NoFlush(disk)
  /\ tip' = [coins |-> disk.coins, names |-> disk.names]
  /\ view' = tip'
  /\ chain' = OldTip
  /\ block' = EmptyBlock
  /\ pc' = "idle"
  /\ UNCHANGED <<failed, disk>>

(* Slip: expirations are not undone, as RollforwardBlock does not redo     *)
(* them.                                                                   *)
UnexpiredNothing(db, vexpired, nHeight) == db.coins

(* UnexpireNames as ReplayBlocks meets it: it goes through vexpired from   *)
(* its last name to its first and stops after one whose coin is there      *)
(* already, or at one whose data does not match.                           *)
Unexpired(db, vexpired, nHeight) ==
  LET Data(c) == GetName(db.names, c.name)
      Matches(c) == /\ Data(c) # NoData
                    /\ isExpired(Data(c).height, nHeight) /\ ~isExpired(Data(c).height, nHeight - 1)
      Stops(c) == ~Matches(c) \/ db.coins[Data(c).out] # Spent
      Reached(c) == \A d \in vexpired : <<c.name, d.name>> \in NameLess => ~Stops(d)
  IN UnexpireCoins(db, {c \in vexpired : Reached(c) /\ Matches(c)})

Spends(b, o) == \E k \in DOMAIN b.vtx : o \in vin[b.vtx[k]]
Creates(b, o) == \E k \in DOMAIN b.vtx : o \in vout[b.vtx[k]]

(* CNameTxUndo::apply for the entries of v, the last one first.            *)
UndoNames(ns, v) ==
  LET undone[k \in 0 .. Len(v)] ==
        IF k = 0 THEN ns ELSE UndoName(undone[k - 1], v[(Len(v) + 1) - k])
  IN undone[Len(v)]

(* DisconnectBlock of block b at height nHeight, DISCONNECT_UNCLEAN being  *)
(* accepted: the outputs of its transactions go, its inputs come back.     *)
(* The names are those of the old tip, so that undoing them is as in       *)
(* NameChain.                                                              *)
RollbackBlock(db, b, nHeight) ==
  LET unexpired == Unexpired(db, b.vexpired, nHeight + 1)
      Spender(o) == CHOOSE k \in DOMAIN b.vtx : o \in vin[b.vtx[k]]
  IN [coins |-> [o \in OutPoint |-> CASE Creates(b, o) -> Spent
                                      [] Spends(b, o) /\ ~Creates(b, o) -> b.vtxundo[Spender(o)][o]
                                      [] OTHER -> unexpired[o]],
      names |-> UndoNames(db.names, b.vnameundo)]

(* Slip: the coins that the block spends are left alone.                   *)
RollforwardAdding(db, b, nHeight) ==
  [coins |-> [o \in OutPoint |-> IF Creates(b, o) THEN nHeight ELSE db.coins[o]],
   names |-> db.names]

(* RollforwardBlock: the transactions of b, without names and expirations. *)
RollforwardBlock(db, b, nHeight) ==
  [coins |-> [o \in OutPoint |-> CASE Spends(b, o) -> Spent
                                   [] Creates(b, o) /\ ~Spends(b, o) -> nHeight
                                   [] OTHER -> db.coins[o]],
   names |-> db.names]

DiskDB == [coins |-> disk.coins, names |-> disk.names]

(* ReplayBlocks at the start of the node.                                  *)
ReplayBlocks ==
  /\ mode = "down"
  /\ IF disk.heads = <<>>
     THEN mode' = "start" /\ UNCHANGED flush
     ELSE /\ mode' = "replaying"
          /\ flush' = [coins |-> disk.coins, names |-> disk.names, tip |-> disk.heads[2]]
  /\ UNCHANGED <<vars, disk, crashes>>

At(db, c) == [coins |-> db.coins, names |-> db.names, tip |-> c]

(* Slip: a block that was not applied as a whole cannot be rolled back.    *)
RollbackStrict ==
  /\ mode = "replaying"
  /\ ~IsAncestor(flush.tip, disk.heads[1])
  /\ UnexpireChecks(flush, flush.tip[Len(flush.tip)].vexpired, BaseHeight + Len(flush.tip) + 1)
  /\ flush' = At(RollbackBlock(flush, flush.tip[Len(flush.tip)], BaseHeight + Len(flush.tip)),
                 pprev(flush.tip))
  /\ UNCHANGED <<vars, disk, mode, crashes>>

(* Roll back along the old branch until the fork.                          *)
Rollback ==
  /\ mode = "replaying"
  /\ ~IsAncestor(flush.tip, disk.heads[1])
  /\ flush' = At(RollbackBlock(flush, flush.tip[Len(flush.tip)], BaseHeight + Len(flush.tip)),
                 pprev(flush.tip))
  /\ UNCHANGED <<vars, disk, mode, crashes>>

(* Roll forward along the new branch.                                      *)
Rollforward ==
  /\ mode = "replaying"
  /\ IsAncestor(flush.tip, disk.heads[1]) /\ flush.tip # disk.heads[1]
  /\ LET next == disk.heads[1][Len(flush.tip) + 1]
     IN flush' = At(RollforwardBlock(flush, next, BaseHeight + Len(flush.tip) + 1),
                    Append(flush.tip, next))
  /\ UNCHANGED <<vars, disk, mode, crashes>>

(* cache.Flush: its batches are those above.                               *)
ReplayFlush ==
  /\ mode = "replaying"
  /\ flush.tip = disk.heads[1]
  /\ mode' = "replay"
  /\ UNCHANGED <<vars, disk, flush, crashes>>

(* LoadChainTip.  A node that replayed blocks is not followed any further. *)
LoadChainTip ==
  /\ mode \in {"start", "replayed"}
  /\ tip' = DiskDB
  /\ view' = DiskDB
  /\ chain' = disk.best[1]
  /\ mode' = IF mode = "start" THEN "run" ELSE "recovered"
  /\ UNCHANGED <<block, pc, failed, disk, flush, crashes>>

ChainStep == mode = "run" /\ Next /\ UNCHANGED diskVars

ReplayNext ==
  \/ ChainStep
  \/ FlushBegin
  \/ \E o \in OutPoint : PartialBatch(o)
  \/ FinalBatch
  \/ Crash
  \/ ReplayBlocks
  \/ Rollback
  \/ Rollforward
  \/ ReplayFlush
  \/ LoadChainTip

(* A node that was started again gets on with loading its chainstate.      *)
ReplaySpec ==
  /\ ReplayInit
  /\ [][ReplayNext]_allVars
  /\ WF_allVars(FinalBatch)
  /\ WF_allVars(ReplayBlocks \/ Rollback \/ Rollforward \/ ReplayFlush \/ LoadChainTip)

-----------------------------------------------------------------------------
(* The database at the end of chain c, from the blocks' logs.              *)
DbAfter(c) ==
  IF c = <<>> THEN [coins |-> [o \in OutPoint |-> IF o \in BaseCoins THEN BaseHeight ELSE Spent],
                    names |-> EmptyNames]
  ELSE LET a == Applied(c[Len(c)])
       IN [coins |-> ExpireCoins(a, BaseHeight + Len(c) + 1), names |-> a.names]

(* Until blocks are replayed, the name database on disk is wholly that of  *)
(* one block: the best block or, between two blocks, the old one, on which *)
(* the undo data that ReplayBlocks applies to the names depends.  A second *)
(* flush into the gap aims at the block of the first (BatchWrite asserts   *)
(* it).                                                                    *)
NamesAtomic ==
  /\ mode \notin {"replayed", "recovered"} => disk.names = DbAfter(OldTip).names
  /\ (mode \in {"flush", "replay"} /\ disk.heads # <<>>) => disk.heads[1] = flush.tip

(* However many coins the interrupted flush and interrupted replays wrote, *)
(* ReplayBlocks ends with the coins of the new tip, except for coins of    *)
(* names: writing and deleting a coin are idempotent.                      *)
ReplayedCoins ==
  mode = "recovered" =>
    \A o \in OutPoint : ~isAnyUpdate(o) => tip.coins[o] = DbAfter(chain).coins[o]

(* The blocks of c since it forked from d.                                 *)
Branch(c, d) == {c[i] : i \in {j \in DOMAIN c : ~IsAncestor(SubSeq(c, 1, j), d)}}

(* It ends with all coins and all names of the new tip if the new branch   *)
(* has no name operation and no expiration, and no block of the old branch *)
(* expired more than one name.                                             *)
ReplayExact ==
  (mode = "replay") =>
    LET new == Branch(disk.heads[1], disk.heads[2])
        old == Branch(disk.heads[2], disk.heads[1])
    IN (/\ \A b \in new : b.vnameundo = <<>> /\ b.vexpired = {}
        /\ \A b \in old : AtMostOne(b.vexpired))
         => [coins |-> flush.coins, names |-> flush.names] = DbAfter(disk.heads[1])

(* A node that crashed comes up again, whatever was written.               *)
RecoveryTerminates == (mode = "down") ~> (mode \in {"run", "recovered"})

(* "The on-disk coinsdb is now in a good state" (node/chainstate.cpp):     *)
(* after ReplayBlocks the name database passes ValidateNameDB.             *)
NameDBRecovered == mode = "recovered" => ValidateNameDB(tip, Height)

(* When DisconnectBlock is unclean "the result is still a version of the   *)
(* UTXO set with the effects of that block undone" (ReplayBlocks): the     *)
(* coins of the names that the block expired are back.                     *)
RollbackUndoes ==
  [][(mode = "replaying" /\ Len(flush'.tip) < Len(flush.tip)) =>
       \A c \in flush.tip[Len(flush.tip)].vexpired :
         flush'.coins[GetName(flush.names, c.name).out] = c.height]_allVars
=============================================================================
