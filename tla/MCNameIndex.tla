---------------------------- MODULE MCNameIndex ----------------------------
(***************************************************************************)
(* A branch of one block and a branch of two on genesis, each of the three *)
(* with a name of its own.                                                 *)
(***************************************************************************)
EXTENDS NameIndex

CONSTANTS g, a1, b1, b2

MCBlock == {g, a1, b1, b2}
MCpprev == (g :> null) @@ (a1 :> g) @@ (b1 :> g) @@ (b2 :> b1)
MCnHeight == (g :> 0) @@ (a1 :> 1) @@ (b1 :> 1) @@ (b2 :> 2)
MCancestors == (g :> {g}) @@ (a1 :> {g, a1}) @@ (b1 :> {g, b1}) @@ (b2 :> {g, b1, b2})
MCnames == (g :> {}) @@ (a1 :> {"x"}) @@ (b1 :> {"y"}) @@ (b2 :> {"z"})
=============================================================================
