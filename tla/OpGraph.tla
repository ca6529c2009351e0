------------------------------ MODULE OpGraph ------------------------------
(***************************************************************************)
(* What a workflow's operation graph promises (spec 3, 4.1, 4.2), with no  *)
(* sessions, registration order or call stacks: an operation is added     *)
(* with arguments that are operations added before it, and never changes *)
(* afterwards; evaluating invokes some operations that are not yet done,   *)
(* and makes done some of those, each invoked once.  A done operation is never     *)
(* invoked again (memoisation).  Nothing here says in what order an        *)
(* operation and its arguments become done: the code leaves that to the    *)
(* functions (LzyEnv.ArgsMaterializedFirst).                               *)
(*                                                                         *)
(* A step may add one operation and evaluate in the same step, as an     *)
(* eager session does when it registers an operation.                     *)
(***************************************************************************)
EXTENDS Naturals, SequencesExt

CONSTANT Ops            \* the identities operations take, 1 .. n

VARIABLES
    size,               \* operations 1 .. size exist
    deps,               \* deps[o]: the operations o takes as arguments
    done,               \* operations whose value exists
    invocations         \* invocations[o]: times o's function was invoked

ogVars == <<size, deps, done, invocations>>

Init ==
    /\ size = 0
    /\ deps = [o \in Ops |-> <<>>]
    /\ done = {}
    /\ invocations = [o \in Ops |-> 0]

\* A new operation over existing ones.
AddOp(a) ==
    /\ size + 1 \in Ops
    /\ size' = size + 1
    /\ deps' = [deps EXCEPT ![size + 1] = a]

\* Invoke the operations of I, those of S come out done.  An operation
\* that does not come out done may have been invoked more than once.
Evaluate(I, S) ==
    /\ done' = done \cup S
    /\ \A o \in Ops : IF o \in I THEN invocations'[o] > invocations[o]
                               ELSE invocations'[o] = invocations[o]
    /\ \A o \in S : invocations'[o] = invocations[o] + 1

\* I ranges over the existing operations that are not done, S over the
\* part of I that comes out done.
Pending == (1 .. size') \ done

Next ==
    /\ \/ UNCHANGED <<size, deps>>
       \/ \E a \in BoundedSeq(1 .. size, size) : AddOp(a)
    /\ \/ UNCHANGED <<done, invocations>>
       \/ \E S \in SUBSET Pending :
            \E I \in {S \cup J : J \in SUBSET (Pending \ S)} : Evaluate(I, S)

Spec == Init /\ [][Next]_ogVars

====
