----------------------------- MODULE MCNameChain ----------------------------
(* Small instances of NameChain.                                           *)
EXTENDS NameChain, TLC

(* A catalogue entry: inputs, outputs, Namecoin version or not.            *)
Entry(in, out, isNamecoin) == [in |-> in, out |-> out, namecoin |-> isNamecoin]

(* Name a: two registrations that compete, an update of each, a second     *)
(* update that conflicts with the first and one on top of it.  Name b: one *)
(* registration.  The rest break a rule each.                              *)
MCCatalogue ==
  [newA1   |-> Entry({"c1"}, {"a1"}, TRUE),
   newA2   |-> Entry({"c2"}, {"a2"}, TRUE),
   firstA1 |-> Entry({"a1"}, {"A1"}, TRUE),
   firstA2 |-> Entry({"a2"}, {"A2"}, TRUE),
   updA1   |-> Entry({"A1"}, {"A1u"}, TRUE),
   updA1w  |-> Entry({"A1"}, {"A1w"}, TRUE),
   updA1v  |-> Entry({"A1u"}, {"A1v"}, TRUE),
   newB    |-> Entry({"c3"}, {"b1"}, TRUE),
   firstB  |-> Entry({"b1"}, {"B1"}, TRUE),
   wrongName |-> Entry({"A1"}, {"Bx"}, TRUE),
   plainIn |-> Entry({"A1"}, {"c4"}, FALSE),
   noOut   |-> Entry({"A1", "c3"}, {"c5"}, TRUE),
   greedy  |-> Entry({"A1"}, {"Ag"}, TRUE),
   tooLong |-> Entry({"A1"}, {"Al"}, TRUE)]

MCTx == DOMAIN MCCatalogue
OneNameTx == {"newA1", "newA2", "firstA1", "firstA2", "updA1", "updA1v"}

MCvin == [t \in Tx |-> MCCatalogue[t].in]
MCvout == [t \in Tx |-> MCCatalogue[t].out]
MCNamecoinTx == {t \in Tx : MCCatalogue[t].namecoin}
MCBaseCoins == {"c1", "c2", "c3"}
MCOutPoint == MCBaseCoins \cup UNION {MCvout[t] : t \in Tx}

MCnameOp ==
  [o \in MCOutPoint |->
     [op |-> CASE o \in {"a1", "a2", "b1"} -> "NEW"
               [] o \in {"A1", "A2", "B1"} -> "FIRSTUPDATE"
               [] o \in {"A1u", "A1w", "A1v", "Bx", "Ag", "Al"} -> "UPDATE"
               [] OTHER -> "NOP",
      name |-> IF o \in {"b1", "B1", "Bx"} THEN "b" ELSE "a",
      rand |-> IF o \in {"a2", "A2"} THEN "r2" ELSE "r1"]]

MCnValue == [o \in MCOutPoint |-> IF o = "Ag" THEN 0 ELSE 1]
MCMinNameCoinAmount == [h \in 0 .. MaxHeight + 1 |-> 1]

(* RegTestConsensus: a constant depth.                                     *)
RegTestDepth == [h \in 0 .. MaxHeight + 1 |-> 3]

(* MainNetConsensus (12000 up to 24000, then height - 12000 up to 48000,   *)
(* then 36000) with 12000 scaled to 2.                                     *)
MainNetDepth ==
  [h \in 0 .. MaxHeight + 1 |-> IF h < 4 THEN 2 ELSE IF h < 8 THEN h - 2 ELSE 6]
=============================================================================
