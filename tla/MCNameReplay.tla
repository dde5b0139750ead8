---------------------------- MODULE MCNameReplay ----------------------------
(* Small instances of NameReplay: names a and b, each registered on top of *)
(* a NAME_NEW of the first tip, an update of each, and plain payments.     *)
EXTENDS NameReplay, TLC

MCvin == [t \in Tx |-> CASE t = "firstA" -> {"a1"} [] t = "firstB" -> {"b1"}
                         [] t = "updA" -> {"A1"} [] t = "updB" -> {"B1"}
                         [] t = "pay" -> {"c1"} [] t = "payOn" -> {"c2"}]
MCvout == [t \in Tx |-> CASE t = "firstA" -> {"A1"} [] t = "firstB" -> {"B1"}
                          [] t = "updA" -> {"A2"} [] t = "updB" -> {"B2"}
                          [] t = "pay" -> {"c2"} [] t = "payOn" -> {"c3"}]
MCNamecoinTx == Tx \ {"pay", "payOn"}
MCBaseCoins == {o \in {"a1", "b1", "c1"} : \E t \in Tx : o \in MCvin[t]}
MCOutPoint == MCBaseCoins \cup UNION {MCvout[t] : t \in Tx}

MCnameOp ==
  [o \in MCOutPoint |->
     [op |-> CASE o \in {"a1", "b1"} -> "NEW"
               [] o \in {"A1", "B1"} -> "FIRSTUPDATE"
               [] o \in {"A2", "B2"} -> "UPDATE"
               [] OTHER -> "NOP",
      name |-> IF o \in {"b1", "B1", "B2"} THEN "b" ELSE "a",
      rand |-> "r1"]]

MCnValue == [o \in MCOutPoint |-> 1]
MCMinNameCoinAmount == [h \in 0 .. MaxHeight + 1 |-> 1]
MCDepth == [h \in 0 .. MaxHeight + 1 |-> 2]
MCNameLess == {<<"a", "b">>}
=============================================================================
