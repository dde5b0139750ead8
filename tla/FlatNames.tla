----------------------------- MODULE FlatNames ------------------------------
(***************************************************************************)
(* What a stack of name caches promises: three plain name databases, for   *)
(* the disk, the tip and the block being processed, changed by NameStore's *)
(* operations.  This is the view of names that NameChain takes.            *)
(***************************************************************************)
EXTENDS NameStore

CONSTANT MaxHistory        \* bound: entries of a name's history

VARIABLES db, tip, view

EmptyNames ==
  [data |-> [n \in Name |-> NoData], history |-> [n \in Name |-> <<>>], expireIndex |-> {}]

Init == /\ db = EmptyNames
        /\ tip = EmptyNames
        /\ view = EmptyNames

Set(n, data) ==
  /\ SetNameAsserts(view, n)
  /\ Len(view.history[n]) < MaxHistory
  /\ view' = SetName(view, n, data)
  /\ UNCHANGED <<db, tip>>

UndoSet(n, data) ==
  /\ UndoSetNameAsserts(view, n, data)
  /\ view' = UndoSetName(view, n, data)
  /\ UNCHANGED <<db, tip>>

Delete(n) ==
  /\ DeleteNameAsserts(view, n)
  /\ view' = DeleteName(view, n)
  /\ UNCHANGED <<db, tip>>

Commit == /\ tip' = view
          /\ UNCHANGED <<db, view>>

Abandon == /\ view' = tip
           /\ UNCHANGED <<db, tip>>

Persist == /\ db' = tip
           /\ UNCHANGED <<tip, view>>

(* The node restarts: only the database is left.                           *)
Restart == /\ tip' = db
           /\ view' = db
           /\ UNCHANGED db

Next ==
  \/ \E n \in Name, data \in NameData : Set(n, data) \/ UndoSet(n, data)
  \/ \E n \in Name : Delete(n)
  \/ Commit
  \/ Abandon
  \/ Persist
  \/ Restart

Spec == Init /\ [][Next]_<<db, tip, view>>
=============================================================================
