--------------------------- MODULE MCPrevoutFetch ---------------------------
(* A small instance of PrevoutFetch: coins p, q and r of the base view, a  *)
(* missing coin m, and an output x1 of transaction x.                      *)
EXTENDS PrevoutFetch

MChash == [o \in Prevout |-> IF o = "x1" THEN "x" ELSE "earlier"]

Block(vin1, vin2) == <<[hash |-> "x", vin |-> vin1], [hash |-> "y", vin |-> vin2]>>

(* Independent inputs, an input from the same block, a missing input, the  *)
(* same input twice, nothing to fetch.                                     *)
MCBlocks ==
  {Block(<<"p", "q">>, <<"r">>), Block(<<"p">>, <<"x1", "q">>),
   Block(<<"p">>, <<"m">>), Block(<<"p">>, <<"p", "q">>), <<>>}
=============================================================================
