---------------------------- MODULE MCNameCache -----------------------------
(* Small instances of NameCache.                                           *)
EXTENDS NameCache

MCInput == [n \in Name |-> {d \in NameData : n = 1 \/ d.height = 1}]
=============================================================================
