---------------------------- MODULE MCNameMempool ---------------------------
(* Small instances of NameMempool.                                         *)
EXTENDS NameMempool

Entry(in, out) == [in |-> in, out |-> out]

(* One name: a registration from an unconfirmed NAME_NEW, one that         *)
(* competes with it, a second NAME_NEW with the first one's commitment,    *)
(* updates that conflict and updates on top of each other.                 *)
MCCatalogue ==
  [newA1   |-> Entry({"c1"}, {"a1"}),
   newA1x  |-> Entry({"c2"}, {"a1x"}),
   firstA1 |-> Entry({"a1"}, {"A1"}),
   firstA2 |-> Entry({"a2"}, {"A2"}),
   updA1   |-> Entry({"A1"}, {"A1u"}),
   updA1w  |-> Entry({"A1"}, {"A1w"}),
   updA1v  |-> Entry({"A1u"}, {"A1v"}),
   updA2   |-> Entry({"A2"}, {"A2u"})]

MCTx == DOMAIN MCCatalogue
ConfirmedNewTx == {"firstA1", "firstA2", "updA1", "updA1w", "updA1v", "updA2"}

MCvin == [t \in Tx |-> MCCatalogue[t].in]
MCvout == [t \in Tx |-> MCCatalogue[t].out]
MCBaseCoins == {"c1", "c2", "a2"}
ConfirmedNewCoins == {"a1", "a2"}
MCOutPoint == BaseCoins \cup UNION {MCvout[t] : t \in Tx}

MCnameOp ==
  [o \in OutPoint |->
     [op |-> CASE o \in {"a1", "a1x", "a2"} -> "NEW"
               [] o \in {"A1", "A2"} -> "FIRSTUPDATE"
               [] o \in {"A1u", "A1w", "A1v", "A2u"} -> "UPDATE"
               [] OTHER -> "NOP",
      name |-> "a",
      rand |-> IF o \in {"a2", "A2"} THEN "r2" ELSE "r1"]]

MCnValue == [o \in OutPoint |-> 1]
MCMinNameCoinAmount == [h \in 0 .. MaxHeight + 1 |-> 1]
MCDepth == [h \in 0 .. MaxHeight + 1 |-> 2]

(* The order of txids is arbitrary; what matters is whether a pending      *)
(* update sorts before or after the one it builds on.                      *)
ChildFirst == {<<"updA1v", "updA1">>}
ParentFirst == {<<"updA1", "updA1v">>}
=============================================================================
