------------------------------ MODULE MCLzyEnv ------------------------------
(***************************************************************************)
(* Model-checking instance of LzyEnv: two envs, the second eager, so that  *)
(* nested with-statements, ops crossing envs and eager registration all    *)
(* occur; three op calls so that an op can take two lazy arguments.        *)
(***************************************************************************)
EXTENDS LzyEnv

CONSTANTS e1, e2, f1

MCEnvs == {e1, e2}
MCEager == {e2}
MCFields == {f1}
=============================================================================
