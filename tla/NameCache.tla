----------------------------- MODULE NameCache ------------------------------
(***************************************************************************)
(* CNameCache: the names of a CCoinsViewCache are the changes made to the  *)
(* names of the view below it.  The database lies under the cache of the   *)
(* tip, which lies under the cache of a block.  Flush hands the changes to *)
(* the view below but keeps them.  FlatNames says what the layers amount   *)
(* to, and CCacheNameIterator has to enumerate just that.                  *)
(***************************************************************************)
EXTENDS NameStore, FiniteSets

CONSTANTS Input,           \* Input[n]: the data that name n is set to
          MaxHistory,      \* bound: entries of a name's history
          NoHistory        \* no history entry in a cache

ASSUME CacheAssumption ==
  /\ Name \subseteq Nat                          \* NameComparator's order
  /\ \A n \in Name : Input[n] \subseteq NameData
  /\ NoData \notin NameData /\ NoHistory \notin Seq(NameData)

VARIABLES
  dbNames,     \* [data, history, expireIndex] in LevelDB
  tipNames,    \* CoinsTip().cacheNames
  viewNames    \* the block view's cacheNames

vars == <<dbNames, tipNames, viewNames>>

ExpireEntry == (1 .. MaxHeight) \X Name

(* expireIndex maps an entry to "add" (true) or "drop" (false).            *)
EmptyCache ==
  [entries |-> [n \in Name |-> NoData], deleted |-> {},
   history |-> [n \in Name |-> NoHistory],
   expireIndex |-> [e \in ExpireEntry |-> "none"]]

-----------------------------------------------------------------------------
(* Reads through a cache: GetName, GetNameHistory and GetNamesForHeight of *)
(* a CCoinsViewCache over base.                                            *)

Overlay(c, base) ==
  [data |-> [n \in Name |-> CASE n \in c.deleted -> NoData
                              [] n \notin c.deleted /\ c.entries[n] # NoData -> c.entries[n]
                              [] OTHER -> base.data[n]],
   history |-> [n \in Name |-> IF c.history[n] # NoHistory THEN c.history[n] ELSE base.history[n]],
   expireIndex |-> {e \in ExpireEntry : \/ c.expireIndex[e] = "add"
                                        \/ c.expireIndex[e] = "none" /\ e \in base.expireIndex}]

Tip == Overlay(tipNames, dbNames)
View == Overlay(viewNames, Tip)

-----------------------------------------------------------------------------
(* Changes.                                                                *)

(* Slip: a name that is set keeps its mark as deleted.                     *)
setStillDeleted(c, n, data) == [c EXCEPT !.entries[n] = data]

set(c, n, data) == [c EXCEPT !.entries[n] = data, !.deleted = @ \ {n}]

remove(c, n) == [c EXCEPT !.entries[n] = NoData, !.deleted = @ \cup {n}]

setHistory(c, n, h) == IF fNameHistory THEN [c EXCEPT !.history[n] = h] ELSE c

addExpireIndex(c, n, h) == [c EXCEPT !.expireIndex[<<h, n>>] = "add"]

(* Slip: the entry of a name at its old height is forgotten, not dropped.  *)
forgetExpireIndex(c, n, h) == [c EXCEPT !.expireIndex[<<h, n>>] = "none"]

removeExpireIndex(c, n, h) == [c EXCEPT !.expireIndex[<<h, n>>] = "drop"]

(* CCoinsViewCache::SetName; the history is new when the name existed.     *)
CacheSetName(c, old, n, data, history) ==
  LET dropped == IF old = NoData THEN c
                 ELSE setHistory(removeExpireIndex(c, n, old.height), n, history)
  IN addExpireIndex(set(dropped, n, data), n, data.height)

CacheDeleteName(c, old, n) == remove(removeExpireIndex(c, n, old.height), n)

(* CNameCache::apply: the changes of child on top of those of c.           *)
apply(c, child) ==
  [entries |-> [n \in Name |-> CASE n \in child.deleted -> NoData
                                 [] n \notin child.deleted /\ child.entries[n] # NoData
                                      -> child.entries[n]
                                 [] OTHER -> c.entries[n]],
   deleted |-> (c.deleted \ {n \in Name : child.entries[n] # NoData}) \cup child.deleted,
   history |-> [n \in Name |-> IF child.history[n] # NoHistory THEN child.history[n] ELSE c.history[n]],
   expireIndex |-> [e \in ExpireEntry |->
     IF child.expireIndex[e] # "none" THEN child.expireIndex[e] ELSE c.expireIndex[e]]]

(* CNameCache::writeBatch: written and erased keys, in this order.         *)
writeBatch(base, c) ==
  [data |-> [n \in Name |-> CASE n \in c.deleted -> NoData
                              [] n \notin c.deleted /\ c.entries[n] # NoData -> c.entries[n]
                              [] OTHER -> base.data[n]],
   history |-> [n \in Name |-> IF c.history[n] # NoHistory THEN c.history[n] ELSE base.history[n]],
   expireIndex |-> (base.expireIndex \cup {e \in ExpireEntry : c.expireIndex[e] = "add"})
                     \ {e \in ExpireEntry : c.expireIndex[e] = "drop"}]

-----------------------------------------------------------------------------
(* CCacheNameIterator.  An iteration is the sequence of [name, data] that  *)
(* next returns after seek.                                                *)

(* A std::map from lower_bound on: the entries in the order of the names.  *)
Listed(names, data) ==
  LET N == Cardinality(names)
      sorted == CHOOSE s \in [1 .. N -> names] :
                  /\ \A i, j \in 1 .. N : i < j => s[i] < s[j]
                  /\ \A n \in names : \E i \in 1 .. N : s[i] = n
  IN [i \in 1 .. N |-> [name |-> sorted[i], data |-> data[sorted[i]]]]

(* CDbNameIterator.                                                        *)
DbIterate(base, start) ==
  Listed({n \in Name : n >= start /\ base.data[n] # NoData}, base.data)

(* What advanceBaseIterator comes to: it skips the names that the cache    *)
(* marks as deleted.                                                       *)
NotDeleted(c, base) ==
  LET kept[i \in 0 .. Len(base)] ==
        IF i = 0 THEN <<>>
        ELSE IF base[i].name \in c.deleted THEN kept[i - 1] ELSE Append(kept[i - 1], base[i])
  IN kept[Len(base)]

(* Slip: when both iterators are at a name, the base is not advanced.      *)
nextTwice(base, cached, it) ==
  LET useBase == it.b <= Len(base) /\ (it.c > Len(cached) \/ base[it.b].name < cached[it.c].name)
  IN IF it.b > Len(base) /\ it.c > Len(cached) THEN it
     ELSE IF useBase THEN [b |-> it.b + 1, c |-> it.c, out |-> Append(it.out, base[it.b])]
     ELSE [b |-> it.b, c |-> it.c + 1, out |-> Append(it.out, cached[it.c])]

(* next, with the base at it.b and cacheIter at it.c: it takes the smaller *)
(* of the two names, and the cache's entry (passing over the base's) when  *)
(* both have it.                                                           *)
next(base, cached, it) ==
  LET both == it.b <= Len(base) /\ it.c <= Len(cached) /\ base[it.b].name = cached[it.c].name
      k == IF both THEN it.b + 1 ELSE it.b
      useBase == k <= Len(base) /\ (it.c > Len(cached) \/ base[k].name < cached[it.c].name)
  IN IF it.b > Len(base) /\ it.c > Len(cached) THEN it
     ELSE IF useBase THEN [b |-> k + 1, c |-> it.c, out |-> Append(it.out, base[k])]
     ELSE [b |-> k, c |-> it.c + 1, out |-> Append(it.out, cached[it.c])]

(* What next has returned when there is nothing left.                      *)
Merged(base, cached) ==
  LET after[n \in 0 .. Len(base) + Len(cached)] ==
        IF n = 0 THEN [b |-> 1, c |-> 1, out |-> <<>>] ELSE next(base, cached, after[n - 1])
  IN after[Len(base) + Len(cached)].out

CacheIterate(c, base, start) ==
  Merged(NotDeleted(c, base), Listed({n \in Name : n >= start /\ c.entries[n] # NoData}, c.entries))

ViewIterate(start) ==
  CacheIterate(viewNames, CacheIterate(tipNames, DbIterate(dbNames, start), start), start)

-----------------------------------------------------------------------------
Init == /\ dbNames = [data |-> [n \in Name |-> NoData], history |-> [n \in Name |-> <<>>],
                      expireIndex |-> {}]
        /\ tipNames = EmptyCache
        /\ viewNames = EmptyCache

(* SetName going forward.                                                  *)
Set(n, data) ==
  /\ SetNameAsserts(View, n)
  /\ Len(View.history[n]) < MaxHistory
  /\ viewNames' = CacheSetName(viewNames, View.data[n], n, data,
                               Append(View.history[n], View.data[n]))
  /\ UNCHANGED <<dbNames, tipNames>>

(* SetName with undo = true.                                               *)
UndoSet(n, data) ==
  /\ UndoSetNameAsserts(View, n, data)
  /\ viewNames' = CacheSetName(viewNames, View.data[n], n, data,
                               IF fNameHistory THEN SubSeq(View.history[n], 1, Len(View.history[n]) - 1) ELSE <<>>)
  /\ UNCHANGED <<dbNames, tipNames>>

Delete(n) ==
  /\ DeleteNameAsserts(View, n)
  /\ viewNames' = CacheDeleteName(viewNames, View.data[n], n)
  /\ UNCHANGED <<dbNames, tipNames>>

(* The block view is flushed into the tip and dropped.                     *)
FlushView ==
  /\ tipNames' = apply(tipNames, viewNames)
  /\ viewNames' = EmptyCache
  /\ UNCHANGED dbNames

(* Reset.                                                                  *)
ResetView ==
  /\ viewNames' = EmptyCache
  /\ UNCHANGED <<dbNames, tipNames>>

(* Flush or Sync of the tip, between blocks.  Neither clears cacheNames.   *)
FlushTip ==
  /\ viewNames = EmptyCache
  /\ dbNames' = writeBatch(dbNames, tipNames)
  /\ UNCHANGED <<tipNames, viewNames>>

(* The node stops and starts again: InitCoinsCache.                        *)
Restart ==
  /\ tipNames' = EmptyCache
  /\ viewNames' = EmptyCache
  /\ UNCHANGED dbNames

Next ==
  \/ \E n \in Name : \E data \in Input[n] : Set(n, data) \/ UndoSet(n, data)
  \/ \E n \in Name : Delete(n)
  \/ FlushView
  \/ ResetView
  \/ FlushTip
  \/ Restart

Spec == Init /\ [][Next]_vars
-----------------------------------------------------------------------------
(* CNameCache::empty asserts that a cache without entries and deletions    *)
(* has no history and no index change either, and Flush relies on it when  *)
(* it skips an empty cache; a name is never both set and deleted, so the   *)
(* order of writeBatch and apply does not matter.                          *)
CacheCoherent ==
  \A c \in {tipNames, viewNames} :
    /\ \A n \in c.deleted : c.entries[n] = NoData
    /\ (c.deleted = {} /\ \A n \in Name : c.entries[n] = NoData) => c = EmptyCache

(* CCacheNameIterator over CCacheNameIterator over CDbNameIterator lists,  *)
(* from any start, each name that GetName finds exactly once, in order and *)
(* with its current data.                                                  *)
IterationMatchesView ==
  \A start \in Name :
    ViewIterate(start) = Listed({n \in Name : n >= start /\ View.data[n] # NoData}, View.data)

Flat == INSTANCE FlatNames WITH db <- dbNames, tip <- Tip, view <- View

(* The caches of the tip and of a block over the database behave like      *)
(* plain name databases, although flushed changes stay in the tip's cache  *)
(* and shadow the database from then on.                                   *)
ImplementsFlatNames == Flat!Spec

(* "Push the modifications applied to this cache to its base and wipe      *)
(* local state" (coins.h on Flush): what was flushed is no longer cached.  *)
FlushWipes == [][dbNames' # dbNames => tipNames' = EmptyCache]_vars
=============================================================================
