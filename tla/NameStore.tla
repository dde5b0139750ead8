----------------------------- MODULE NameStore ------------------------------
(***************************************************************************)
(* A name database as the views of coins.h show it: the data of the names, *)
(* their history and the expire index, with the operations that read and   *)
(* change them.  A name's value and address are determined by the outpoint *)
(* that set them, so name data is a height and an outpoint.                *)
(***************************************************************************)
EXTENDS Integers, Sequences

CONSTANTS
  OutPoint,               \* outputs of transactions
  Name,
  fNameHistory,           \* -namehistory
  NoData,                 \* GetName returned false
  MaxHeight               \* bound: the chain grows to this height

NameData == [height : 1 .. MaxHeight, out : OutPoint]

-----------------------------------------------------------------------------
(* The operations on a database ns: [data, history, expireIndex].          *)

GetName(ns, n) == ns.data[n]

GetNamesForHeight(ns, h) == {n \in Name : <<h, n>> \in ns.expireIndex}

(* The expire index after n's entry moved from its old data to height h.   *)
Reindexed(ns, n, h) ==
  (IF ns.data[n] = NoData THEN ns.expireIndex
                          ELSE ns.expireIndex \ {<<ns.data[n].height, n>>})
    \cup {<<h, n>>}

(* SetName going forward: the overwritten data goes onto the history.      *)
SetName(ns, n, data) ==
  [data |-> [ns.data EXCEPT ![n] = data],
   history |-> IF fNameHistory /\ ns.data[n] # NoData
               THEN [ns.history EXCEPT ![n] = Append(@, ns.data[n])]
               ELSE ns.history,
   expireIndex |-> Reindexed(ns, n, data.height)]

(* CNameHistory::push asserts that heights do not decrease.                *)
SetNameAsserts(ns, n) ==
  (fNameHistory /\ ns.data[n] # NoData /\ ns.history[n] # <<>>)
    => ns.history[n][Len(ns.history[n])].height <= ns.data[n].height

(* Slip: the history is not popped.                                        *)
UndoSetNameWithoutPop(ns, n, data) ==
  [data |-> [ns.data EXCEPT ![n] = data],
   history |-> ns.history,
   expireIndex |-> Reindexed(ns, n, data.height)]

(* SetName with undo = true pops the history.                              *)
UndoSetName(ns, n, data) ==
  [data |-> [ns.data EXCEPT ![n] = data],
   history |-> IF fNameHistory
               THEN [ns.history EXCEPT ![n] = SubSeq(@, 1, Len(@) - 1)]
               ELSE ns.history,
   expireIndex |-> Reindexed(ns, n, data.height)]

(* It asserts that the name exists and that the popped entry is the data.  *)
UndoSetNameAsserts(ns, n, data) ==
  /\ ns.data[n] # NoData
  /\ fNameHistory => /\ ns.history[n] # <<>>
                     /\ ns.history[n][Len(ns.history[n])] = data

DeleteName(ns, n) ==
  [data |-> [ns.data EXCEPT ![n] = NoData],
   history |-> ns.history,
   expireIndex |-> ns.expireIndex \ {<<ns.data[n].height, n>>}]

DeleteNameAsserts(ns, n) ==
  /\ ns.data[n] # NoData
  /\ fNameHistory => ns.history[n] = <<>>
=============================================================================
