------------------------------- MODULE NewOp -------------------------------
(***************************************************************************)
(* The decorators of lzy/api/__init__.py: op (lines 22-33) and op_ (lines  *)
(* 36-65).  op_ keeps input_types as a nonlocal of the decorated function; *)
(* each call of the wrapper `lazy` infers it from the arguments if it is   *)
(* still None, then asks LzyEnv.get_active() for the session: without one  *)
(* it calls the function, with one it builds an LzyOp, registers it and    *)
(* returns lazy_proxy(lambda: lzy_op.materialize(), output_type,           *)
(* {'_op': lzy_op}), a LazyProxy whose getter is the op's materialize.     *)
(*                                                                         *)
(* LzyEnv, LzyLocalOp and lazy_proxy live outside src/; the session is     *)
(* modelled from spec 4.3 (one active session at a time, entered and      *)
(* closed) and materialize as a getter whose outcome is free.  Every       *)
(* function takes one argument: a literal of a type in Types or a proxy,   *)
(* and may or may not use it.                                              *)
(* The returned proxies are LazyProxy's, used through its actions.         *)
(***************************************************************************)
EXTENDS LazyProxy, Sequences, FiniteSets

CONSTANTS
    Funcs,       \* the functions the program decorates
    Types,       \* runtime types of literals and declared output types
    Annot        \* Annot[f]: f's return annotation, or None

ASSUME Annot \in [Funcs -> Types \cup {None}]

\* Proxies are the LzyOps' proxies, numbered in creation order.
Ops == Proxies

\* How the program applies a decorator to f.
Usages == {[kind |-> "bare"]}                                  \* @op
          \cup [kind : {"output"}, type : Types \cup {None}]   \* @op(output_type=t)
          \cup [kind : {"explicit"}, in : Types \cup {None},
                 type : Types \cup {None}]                      \* @op_(input_types=..., output_type=t)

VARIABLES
    decorated,   \* decorated[f]: "no", "yes", or "error" when decorating raised
    outType,     \* outType[f]: the output_type f's wrapper closes over
    inTypes,     \* inTypes[f]: the nonlocal input_types: None or a tuple
    envActive,   \* LzyEnv.get_active() is not None
    nOps,        \* LzyOps created so far
    opFn,        \* opFn[o], opArg[o], opIn[o]: the function, argument and
    opArg,       \* input types LzyOp o was built with
    opIn

apiVars == <<decorated, outType, inTypes, envActive, nOps, opFn,
             opArg, opIn>>
allVars == <<vars, apiVars>>

(***************************************************************************)
\* op without its checks: @op(output_type=None) and an unannotated @op
\* decorate with output_type None.
DecorationNoChecks(f, u) ==
    CASE u.kind = "bare" -> [ok |-> TRUE, out |-> Annot[f], in |-> None]
      [] u.kind = "output" -> [ok |-> TRUE, out |-> u.type, in |-> None]
      [] u.kind = "explicit" -> [ok |-> TRUE, out |-> u.type, in |-> <<u.in>>]

(***************************************************************************)
(* op (lines 22-33) and op_ (lines 36-37): what applying a decorator to f  *)
(* leaves: "error" when op raises ValueError (no output_type) or TypeError *)
(* (no return annotation), else the output and input types of the wrapper.*)
(***************************************************************************)
Decoration(f, u) ==
    CASE u.kind = "bare" ->
           IF Annot[f] = None THEN [ok |-> FALSE]
           ELSE [ok |-> TRUE, out |-> Annot[f], in |-> None]
      [] u.kind = "output" ->
           IF u.type = None THEN [ok |-> FALSE]
           ELSE [ok |-> TRUE, out |-> u.type, in |-> None]
      [] u.kind = "explicit" ->
           [ok |-> TRUE, out |-> u.type,
            in |-> IF u.in = None THEN None ELSE <<u.in>>]

\* Line 48: a lazy proxy contributes arg._op.return_type, the output type
\* its LzyOp was built with; a literal its type().  Args are literal types
\* and built proxies.
EffectiveType(a) == IF a \in Ops THEN outType[opFn[a]] ELSE a

\* Lines 45-50 read arg._op only while input_types is None, and only of a
\* proxy; the read forces the proxy (LazyProxy.ObjAttrReadOk).
InferenceReads(f, a) == inTypes[f] = None /\ a \in Ops

(***************************************************************************)
(* Actions                                                                 *)
(***************************************************************************)

Decorate(f, u) ==
    /\ decorated[f] = "no"
    /\ LET d == Decoration(f, u) IN
       IF d.ok
       THEN /\ decorated' = [decorated EXCEPT ![f] = "yes"]
            /\ outType' = [outType EXCEPT ![f] = d.out]
            /\ inTypes' = [inTypes EXCEPT ![f] = d.in]
       ELSE /\ decorated' = [decorated EXCEPT ![f] = "error"]
            /\ UNCHANGED <<outType, inTypes>>
    /\ UNCHANGED <<envActive, nOps, opFn, opArg, opIn>>
    /\ UNCHANGED vars

\* The wrapper's input_types after this call (lines 45-50): inferred from
\* this call's argument only while it is still None.
InTypesAfter(f, a) == IF inTypes[f] = None THEN <<EffectiveType(a)>> ELSE inTypes[f]

\* lazy(a) with no active session (lines 52-54): f(*args) runs the
\* function, which forces a proxy argument if it uses it.  An origin the
\* inference made is already cached, so that use calls no getter again.
CallDirect(f, a, out) ==
    /\ ~envActive
    /\ inTypes' = [inTypes EXCEPT ![f] = InTypesAfter(f, a)]
    /\ \E use \in BOOLEAN :
         /\ IF a \in Ops /\ (use \/ InferenceReads(f, a))
            THEN Access(a, out) ELSE UNCHANGED <<origin, calls>>
         /\ used' = IF a \in Ops /\ use THEN [used EXCEPT ![a] = TRUE] ELSE used
    /\ UNCHANGED <<built, written, lastRead>>
    /\ UNCHANGED <<decorated, outType, envActive, nOps, opFn, opArg, opIn>>

\* lazy(a) with an active session (lines 56-61): a new LzyOp with the
\* wrapper's input_types is registered and its proxy is built and returned.
CallRegister(f, a, out) ==
    LET o == nOps + 1 IN
    /\ envActive
    /\ o \in Ops
    /\ IF InferenceReads(f, a) THEN Access(a, out) ELSE UNCHANGED <<origin, calls>>
    /\ inTypes' = [inTypes EXCEPT ![f] = InTypesAfter(f, a)]
    /\ nOps' = o
    /\ opFn' = [opFn EXCEPT ![o] = f]
    /\ opArg' = [opArg EXCEPT ![o] = a]
    /\ opIn' = [opIn EXCEPT ![o] = InTypesAfter(f, a)]
    /\ built' = [built EXCEPT ![o] = TRUE]   \* lazy_proxy(...): LazyProxy.Build
    /\ UNCHANGED <<used, written, lastRead>>
    /\ UNCHANGED <<decorated, outType, envActive>>

\* A call of f's wrapper: when reading arg._op raises (the getter failed),
\* lazy raises before input_types is assigned and nothing else happens.
Call(f, a) ==
    /\ decorated[f] = "yes"
    /\ a \in Types \cup {p \in Ops : built[p]}
    /\ \E out \in Outcome :
         IF InferenceReads(f, a) /\ ~ObjAttrReadOk(a, "_op", out)
         THEN /\ Access(a, out)
              /\ UNCHANGED <<built, used, written, lastRead>>
              /\ UNCHANGED apiVars
         ELSE CallDirect(f, a, out) \/ CallRegister(f, a, out)

\* The program uses the value behind a proxy it holds: calls a method,
\* reads or writes an attribute (LazyProxy's actions).
UseValue(p) ==
    /\ \/ \E m \in Methods : CallMethod(p, m)
       \/ \E a \in Attrs : ReadAttr(p, a)
       \/ \E a \in Attrs, v \in Vals : WriteAttr(p, a, v)
    /\ UNCHANGED apiVars

\* with LzyEnv(...): entering and leaving a session (spec 4.3).
EnterEnv ==
    /\ ~envActive
    /\ envActive' = TRUE
    /\ UNCHANGED <<decorated, outType, inTypes, nOps, opFn, opArg, opIn>>
    /\ UNCHANGED vars

ExitEnv ==
    /\ envActive
    /\ envActive' = FALSE
    /\ UNCHANGED <<decorated, outType, inTypes, nOps, opFn, opArg, opIn>>
    /\ UNCHANGED vars

ApiInit ==
    /\ Init
    /\ decorated = [f \in Funcs |-> "no"]
    /\ outType = [f \in Funcs |-> None]
    /\ inTypes = [f \in Funcs |-> None]
    /\ envActive = FALSE
    /\ nOps = 0
    /\ opFn = [o \in Ops |-> None]
    /\ opArg = [o \in Ops |-> None]
    /\ opIn = [o \in Ops |-> None]

ApiNext ==
    \/ \E f \in Funcs, u \in Usages : Decorate(f, u)
    \/ \E f \in Funcs, a \in Types \cup Ops : Call(f, a)
    \/ \E p \in Ops : UseValue(p)
    \/ EnterEnv
    \/ ExitEnv

ApiSpec == ApiInit /\ [][ApiNext]_allVars

(***************************************************************************)
(* Properties                                                              *)
(***************************************************************************)

====
