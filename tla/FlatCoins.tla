----------------------------- MODULE FlatCoins ------------------------------
(***************************************************************************)
(* What a stack of coin views promises: three plain maps from outpoints to *)
(* coins, for the database, the tip and the block being processed.  The    *)
(* block's changes become the tip's all at once or not at all, and the     *)
(* tip's become the database's all at once.                                *)
(***************************************************************************)
CONSTANTS OutPoint, Coin, Spent

VARIABLES db, tip, view

Coins == [OutPoint -> Coin \cup {Spent}]

Init == /\ db \in Coins
        /\ tip = db
        /\ view = db

Set(o, c) == /\ view' = [view EXCEPT ![o] = c]
             /\ UNCHANGED <<db, tip>>

Commit == /\ tip' = view
          /\ UNCHANGED <<db, view>>

Abandon == /\ view' = tip
           /\ UNCHANGED <<db, tip>>

Persist == /\ db' = tip
           /\ UNCHANGED <<tip, view>>

Next == \/ \E o \in OutPoint, c \in Coin \cup {Spent} : Set(o, c)
        \/ Commit
        \/ Abandon
        \/ Persist

Spec == Init /\ [][Next]_<<db, tip, view>>
=============================================================================
