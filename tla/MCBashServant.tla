--------------------------- MODULE MCBashServant ---------------------------
(***************************************************************************)
(* Model-checking instance of BashServant: one channel, one slot of each   *)
(* direction, one zygote and two executions (one may run a zygote before   *)
(* it is published, the other after).                                      *)
(***************************************************************************)
EXTENDS BashServant

CONSTANTS c1, si, so, z1, x1, x2

MCChannels == {c1}
MCInSlots == {si}
MCOutSlots == {so}
MCZygotes == {z1}
MCExecs == {x1, x2}
=============================================================================
