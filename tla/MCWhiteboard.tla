---------------------------- MODULE MCWhiteboard ----------------------------
(***************************************************************************)
(* Workflows with whiteboards of one dataclass type with two fields.  The  *)
(* single run has one workflow and its whiteboard; the second gives each   *)
(* of two workflows its own whiteboard of the same type, as two runs of    *)
(* one program do.                                                         *)
(***************************************************************************)
EXTENDS Whiteboard, TLC

CONSTANTS e1, e2, w1, w2, f1, f2, none

OneEnvs == {e1}
OneObjs == {w1}
OneWbOf == e1 :> w1

TwoEnvs == {e1, e2}
TwoObjs == {w1, w2}
TwoWbOf == (e1 :> w1) @@ (e2 :> w2)

MCFields == {f1, f2}
MCVals == {0, 1, 2}

====
