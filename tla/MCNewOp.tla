------------------------------ MODULE MCNewOp ------------------------------
(***************************************************************************)
(* Two decorated functions, one annotated and one not, literals of two     *)
(* types, and up to two LzyOps, each with its proxy.  The output type has  *)
(* a method and a data attribute y; the two ops materialize objects that  *)
(* differ in y.                                                            *)
(***************************************************************************)
EXTENDS NewOp, TLC

CONSTANTS f, g, tInt, tStr, none

MCFuncs == {f, g}
MCTypes == {tInt, tStr}
MCAnnot == (f :> tInt) @@ (g :> none)
MCOps == 1 .. 2
MCProduced == (1 :> [y |-> 1]) @@ (2 :> [y |-> 0])

====
