------------------------------- MODULE LzyEnv -------------------------------
(***************************************************************************)
(* The in-process workflow of lzy-python/src/main/python/lzy/api.py:       *)
(* LzyEnv (the session, entered and exited by a with-statement), LzyOp     *)
(* (the memoised lazy operation), the @op wrapper that finds the active    *)
(* LzyEnv by scanning the locals of every stack frame, and the             *)
(* WhiteboardProxy that limits writes to the whiteboard.                   *)
(*                                                                         *)
(* Data is abstracted away: a value is only "materialized or not", a       *)
(* function call only "returned or raised".  An op's function receives the *)
(* LzyOp objects of its lazy arguments, unforced.  A function either uses  *)
(* none of them or forces them all in argument order (both orders of two  *)
(* arguments occur), and then either lets the failure of one propagate or *)
(* catches it and carries on.  Which it does is fixed when its LzyOp is    *)
(* created.  The user program is the environment: it may, at any moment,   *)
(* enter or leave a with-statement, call an @op function, use a returned   *)
(* value, call env.run() or write a whiteboard field.                      *)
(***************************************************************************)
EXTENDS Naturals, Sequences, SequencesExt, FiniteSets

CONSTANTS
    Envs,       \* the LzyEnv objects the program creates
    Eager,      \* those constructed with eager=True
    Fields,     \* the fields of the whiteboard dataclasses
    MaxOps,     \* bound on the @op calls that create an LzyOp
    MaxCalls,   \* bound on invocations of one op's function
    MaxRuns,    \* bound on explicit env.run() calls per env
    RefCounts   \* how many stack variables may name one env

ASSUME Eager \subseteq Envs
ASSUME MaxOps \in Nat /\ MaxCalls \in Nat \ {0} /\ MaxRuns \in Nat
ASSUME RefCounts \subseteq 0 .. 2

Ops == 1 .. MaxOps

\* What a function invocation does this time: return or raise.
Outcome == {"ok", "raise"}

VARIABLES
    entered,      \* LzyEnv._entered
    exited,       \* LzyEnv._exited
    withState,    \* where control is w.r.t. the env's with-statement
    withStack,    \* the with-statements currently open, innermost last
    refs,         \* number of local variables on the stack naming the env
    wrappers,     \* LzyEnv._wrappers: registered ops in registration order
    nOps,         \* LzyOps created so far are 1..nOps
    args,         \* args[o]: the LzyOps passed as o's arguments, in order
    uses,         \* uses[o]: the argument positions o's function forces:
                  \* none or all
    catches,      \* catches[o]: o's function catches a failing argument
    materialized, \* ops with LzyOp._materialized = True
    calls,        \* calls[o]: invocations of o's function so far (history)
    raised,       \* ops an invocation of whose function raised (history)
    handles,      \* ops whose LzyOp object the user program holds
    wbMode,       \* the whiteboard's __setattr__: "plain" | "once" | "frozen"
    wbSet,        \* WhiteboardProxy._already_set_fields
    wbWrites,     \* wbWrites[e][f]: successful writes of f after enter
    runs          \* runs[e]: run() calls that got past their guards

vars == <<entered, exited, withState, withStack, refs, wrappers, nOps, args,
          uses, catches, materialized, calls, raised, handles, wbMode, wbSet, wbWrites,
          runs>>

(***************************************************************************)
(* The part of the state a cascade of materializations reads and changes. *)
(***************************************************************************)
Cur == [mat |-> materialized, calls |-> calls, raised |-> raised, args |-> args,
        uses |-> uses, catches |-> catches]

Apply(s) ==
    /\ materialized' = s.mat
    /\ calls' = s.calls
    /\ raised' = s.raised

\* LzyEnv.active(): entered and not exited.
Active(e) == entered[e] /\ ~exited[e]

ActiveEnvs == {e \in Envs : Active(e)}

\* The number of frame-local variables the scan in op.lazy finds that name
\* an active LzyEnv; it counts references, not distinct envs.
ActiveRefs == MapThenSumSet(LAMBDA e : refs[e], ActiveEnvs)

CanInvoke == \A o \in Ops : calls[o] < MaxCalls

\* What each function does if a cascade invokes it this time.  Only ops
\* 1 .. n that are not materialized can be invoked, so the others' entries
\* are fixed to one value.
Outcomes(n) ==
    {out \in [Ops -> Outcome] : \A o \in Ops : out[o] = "raise" => o \in (1 .. n) \ materialized}

(***************************************************************************)
(* Plausible faults of the code below, each used by one mutant run.        *)
(***************************************************************************)
RECURSIVE MaterializeNoMemo(_, _, _), ForceArgsNoMemo(_, _, _, _, _, _)
MaterializeNoMemo(o, s, out) ==
    LET r == ForceArgsNoMemo(s.args[o], s.uses[o], s.catches[o], 1,
                             [s EXCEPT !.calls[o] = @ + 1], out)
    IN  IF r.ok /\ out[o] = "ok"
        THEN [s |-> [r.s EXCEPT !.mat = @ \cup {o}], ok |-> TRUE]
        ELSE [s |-> [r.s EXCEPT !.raised = @ \cup {o}], ok |-> FALSE]
ForceArgsNoMemo(a, U, c, i, s, out) ==
    IF i > Len(a) THEN [s |-> s, ok |-> TRUE]
    ELSE IF i \notin U THEN ForceArgsNoMemo(a, U, c, i + 1, s, out)
    ELSE LET r == MaterializeNoMemo(a[i], s, out)
         IN  IF r.ok \/ c THEN ForceArgsNoMemo(a, U, c, i + 1, r.s, out) ELSE r

\* __exit__ marks the env exited and freezes the whiteboard even when
\* run() raised (as a try/finally would).
ExitMarksAlways(e, r) == TRUE

(***************************************************************************)
(* LzyOp.materialize (api.py 31-35).  If not yet materialized, the         *)
(* function is invoked with the LzyOp arguments themselves; each it uses   *)
(* is forced from inside the invocation, and an exception from one either  *)
(* propagates out of the function or is caught by it.  _materialized is    *)
(* set only when the function returns, so a function that raised is        *)
(* invoked again by the next force.  Returns the new state and whether the *)
(* force returned normally.                                                *)
(***************************************************************************)
RECURSIVE Materialize(_, _, _), ForceArgs(_, _, _, _, _, _), MaterializeAll(_, _, _)
Materialize(o, s, out) ==
    IF o \in s.mat THEN [s |-> s, ok |-> TRUE]
    ELSE LET r == ForceArgs(s.args[o], s.uses[o], s.catches[o], 1,
                            [s EXCEPT !.calls[o] = @ + 1], out)
         IN  IF r.ok /\ out[o] = "ok"
             THEN [s |-> [r.s EXCEPT !.mat = @ \cup {o}], ok |-> TRUE]
             ELSE [s |-> [r.s EXCEPT !.raised = @ \cup {o}], ok |-> FALSE]

\* A function body using the arguments at positions U of a, from position
\* i on; with c it catches a failing argument and goes on.
ForceArgs(a, U, c, i, s, out) ==
    IF i > Len(a) THEN [s |-> s, ok |-> TRUE]
    ELSE IF i \notin U THEN ForceArgs(a, U, c, i + 1, s, out)
    ELSE LET r == Materialize(a[i], s, out)
         IN  IF r.ok \/ c THEN ForceArgs(a, U, c, i + 1, r.s, out) ELSE r

\* Force the ops of seq in order, stopping at the first that raises: the
\* loop of LzyEnv.run (api.py 150-151).
MaterializeAll(seq, s, out) ==
    IF seq = <<>> THEN [s |-> s, ok |-> TRUE]
    ELSE LET r == Materialize(Head(seq), s, out)
         IN  IF r.ok THEN MaterializeAll(Tail(seq), r.s, out) ELSE r

(***************************************************************************)
(* LzyEnv.run (api.py 142-151): the three guards raise ValueError without  *)
(* touching anything; otherwise every registered op is materialized in     *)
(* registration order until one raises.                                    *)
(***************************************************************************)
RunGuardsPass(e) == entered[e] /\ ~exited[e] /\ wrappers[e] # <<>>

RunResult(e, out) ==
    IF RunGuardsPass(e) THEN MaterializeAll(wrappers[e], Cur, out)
    ELSE [s |-> Cur, ok |-> FALSE]

CountRun(e) ==
    runs' = [runs EXCEPT ![e] = @ + (IF RunGuardsPass(e) THEN 1 ELSE 0)]

\* __exit__ goes on to disallow_writes and _exited = True only if run()
\* returned (api.py 125-127).
ExitMarks(e, r) == r.ok

\* WhiteboardProxy._fake_setattr (api.py 86-90): a field already in
\* _already_set_fields raises; a frozen whiteboard raises on every write.
WriteAllowed(e, f) == wbMode[e] = "once" /\ f \notin wbSet[e]

\* WhiteboardProxy.disallow_multiple_writes (api.py 75-79): writes go
\* through _fake_setattr.
DisallowMultipleWrites(e) == wbMode' = [wbMode EXCEPT ![e] = "once"]

\* WhiteboardProxy.disallow_writes (api.py 81-84): every write raises.
DisallowWrites(e) == wbMode' = [wbMode EXCEPT ![e] = "frozen"]

\* LzyEnv.register (api.py 132-135): append, then in an eager env
\* materialize at once; the op stays registered if that raises.
Register(e, o, s) ==
    /\ wrappers' = [wrappers EXCEPT ![e] = Append(@, o)]
    /\ \E out \in IF e \in Eager THEN Outcomes(o) ELSE {[p \in Ops |-> "ok"]} :
         LET r == IF e \in Eager THEN Materialize(o, s, out) ELSE [s |-> s, ok |-> TRUE]
         IN  /\ Apply(r.s)
             /\ handles' = IF r.ok THEN handles \cup {o} ELSE handles

(***************************************************************************)
(* Actions                                                                 *)
(***************************************************************************)

\* with env: -> LzyEnv.__enter__ (api.py 119-122).
Enter(e) ==
    /\ withState[e] = "before"
    /\ withState' = [withState EXCEPT ![e] = "in"]
    /\ withStack' = Append(withStack, e)
    /\ entered' = [entered EXCEPT ![e] = TRUE]
    /\ DisallowMultipleWrites(e)
    /\ UNCHANGED <<exited, refs, wrappers, nOps, args, uses, catches,
                   materialized, calls,
                   raised, handles, wbSet, wbWrites, runs>>

\* Leaving the innermost with-statement, normally or by an exception:
\* LzyEnv.__exit__ (api.py 124-127) calls run(); if run() raises, the rest
\* of __exit__ is skipped and the exception leaves the with-statement.
Exit(e) ==
    /\ withStack # <<>> /\ Last(withStack) = e
    /\ withStack' = Front(withStack)
    /\ withState' = [withState EXCEPT ![e] = "after"]
    /\ \E out \in Outcomes(nOps) :
         LET r == RunResult(e, out) IN
         /\ Apply(r.s)
         /\ CountRun(e)
         /\ IF ExitMarks(e, r)
            THEN /\ exited' = [exited EXCEPT ![e] = TRUE]
                 /\ DisallowWrites(e)
            ELSE UNCHANGED <<exited, wbMode>>
    /\ UNCHANGED <<entered, refs, wrappers, nOps, args, uses, catches,
                   handles, wbSet,
                   wbWrites>>

(***************************************************************************)
(* A call of an @op function: op.lazy (api.py 49-65).  The scan of every   *)
(* frame's locals for an active LzyEnv raises when it meets a second one;  *)
(* finding none, it calls the function directly, which forces the lazy     *)
(* arguments; finding one, it builds an LzyOp and registers it.  The       *)
(* caller gets the LzyOp only if registering returned.                     *)
(***************************************************************************)
CallDirect(a, U, c) ==
    /\ ActiveRefs = 0
    /\ \E out \in Outcomes(nOps) : Apply(ForceArgs(a, U, c, 1, Cur, out).s)
    /\ UNCHANGED <<nOps, args, uses, catches, wrappers, handles>>

CallUsageError ==
    /\ ActiveRefs > 1
    /\ UNCHANGED <<nOps, args, uses, catches, wrappers, handles,
                   materialized, calls, raised>>

CallRegister(a, U, c) ==
    LET e == CHOOSE x \in ActiveEnvs : refs[x] > 0
        o == nOps + 1
    IN
    /\ ActiveRefs = 1
    /\ nOps < MaxOps
    /\ nOps' = o
    /\ args' = [args EXCEPT ![o] = a]
    /\ uses' = [uses EXCEPT ![o] = U]
    /\ catches' = [catches EXCEPT ![o] = c]
    /\ Register(e, o, [Cur EXCEPT !.args[o] = a, !.uses[o] = U, !.catches[o] = c])

CallOp ==
    /\ CanInvoke
    /\ \E held \in SUBSET handles :
         \E a \in SetToSeqs(held), U \in {{}, 1 .. Cardinality(held)} :
         \E c \in IF U = {} THEN {FALSE} ELSE BOOLEAN :
           \/ CallDirect(a, U, c)
           \/ CallUsageError
           \/ CallRegister(a, U, c)
    /\ UNCHANGED <<entered, exited, withState, withStack, refs, wbMode, wbSet,
                   wbWrites, runs>>

\* The program uses a value it holds: any access goes through
\* LzyOp.materialize (the members installed in api.py 23-29).
Force(o) ==
    /\ o \in handles
    /\ CanInvoke
    /\ \E out \in Outcomes(nOps) : Apply(Materialize(o, Cur, out).s)
    /\ UNCHANGED <<entered, exited, withState, withStack, refs, wrappers, nOps,
                   args, uses, catches, handles, wbMode, wbSet, wbWrites, runs>>

\* An explicit env.run() by a program holding a reference to the env.
Run(e) ==
    /\ refs[e] > 0
    /\ runs[e] < MaxRuns
    /\ CanInvoke
    /\ \E out \in Outcomes(nOps) : Apply(RunResult(e, out).s)
    /\ CountRun(e)
    /\ UNCHANGED <<entered, exited, withState, withStack, refs, wrappers, nOps,
                   args, uses, catches, handles, wbMode, wbSet, wbWrites>>

\* whiteboard.f = v: a write that succeeds.  Writes that raise leave the
\* state as it was; writes before enter go to the plain dataclass and are
\* not tracked by anything the properties read.
WriteWhiteboard(e, f) ==
    /\ WriteAllowed(e, f)
    /\ wbSet' = [wbSet EXCEPT ![e] = @ \cup {f}]
    /\ wbWrites' = [wbWrites EXCEPT ![e][f] = @ + 1]
    /\ UNCHANGED <<entered, exited, withState, withStack, refs, wrappers, nOps,
                   args, uses, catches, materialized, calls, raised, handles,
                   wbMode, runs>>

(***************************************************************************)
(* Each env is created with its flags unset and a whiteboard; refs fixes   *)
(* how the program names it: `with LzyEnv():` (0), `with LzyEnv() as env:` *)
(* (1), or two names for it on the stack, e.g. `env = LzyEnv()` then       *)
(* `with env as e:` or env passed to a helper (2).                         *)
(***************************************************************************)
Init ==
    /\ entered = [e \in Envs |-> FALSE]
    /\ exited = [e \in Envs |-> FALSE]
    /\ withState = [e \in Envs |-> "before"]
    /\ withStack = <<>>
    /\ refs \in [Envs -> RefCounts]
    /\ wrappers = [e \in Envs |-> <<>>]
    /\ nOps = 0
    /\ args = [o \in Ops |-> <<>>]
    /\ uses = [o \in Ops |-> {}]
    /\ catches = [o \in Ops |-> FALSE]
    /\ materialized = {}
    /\ calls = [o \in Ops |-> 0]
    /\ raised = {}
    /\ handles = {}
    /\ wbMode = [e \in Envs |-> "plain"]
    /\ wbSet = [e \in Envs |-> {}]
    /\ wbWrites = [e \in Envs |-> [f \in Fields |-> 0]]
    /\ runs = [e \in Envs |-> 0]

Next ==
    \/ \E e \in Envs : Enter(e) \/ Exit(e) \/ Run(e)
    \/ CallOp
    \/ \E o \in Ops : Force(o)
    \/ \E e \in Envs, f \in Fields : WriteWhiteboard(e, f)

Spec == Init /\ [][Next]_vars

(***************************************************************************)
(* Properties                                                              *)
(***************************************************************************)

\* The operation graph of OpGraph, seen through LzyEnv's state.
OG == INSTANCE OpGraph WITH size <- nOps, deps <- args, done <- materialized,
                            invocations <- calls

\* LzyOp, op.lazy and LzyEnv together implement OpGraph: an LzyOp's
\* arguments are earlier LzyOps and never change; every force, run(),
\* eager registration or direct call, however its cascade of nested
\* materialize() calls unwinds and whatever failures the functions catch,
\* invokes each function at most once and never one that has returned
\* (memoisation).
OpGraphRefinement == OG!Spec

\* When LzyEnv.__exit__ marks an env exited, every op ever registered with
\* it has been materialized, and none is registered afterwards.
ExitedEnvFullyMaterialized ==
    \A e \in Envs : exited[e] => \A i \in DOMAIN wrappers[e] : wrappers[e][i] \in materialized

\* spec 4.4 (local execution): an op's argument values are all forced
\* before its function runs, so an op is materialized only when every
\* LzyOp it takes as an argument is.
ArgsMaterializedFirst ==
    \A o \in materialized : Range(args[o]) \subseteq materialized

\* spec 4.1/7: a failure is captured and replayed on every later force
\* without invoking anything: an op whose function raised is never invoked
\* again.
FailureNotReinvoked ==
    [][\A o \in raised : calls'[o] = calls[o]]_vars

\* spec 3/4.3: a workflow runs at most once; a second run() is rejected.
RunAtMostOnce == \A e \in Envs : runs[e] <= 1

\* spec 3, 4.3 and 6: once control has left a workflow's with-statement the
\* workflow is closed: no op is registered with it any more and its
\* whiteboard is immutable.  __exit__ (lines 124-127) is what closes it.
ClosedAfterWith ==
    [][\A e \in Envs : withState[e] = "after" =>
            /\ wrappers'[e] = wrappers[e]
            /\ wbWrites'[e] = wbWrites[e]]_vars

=============================================================================
