----------------------------- MODULE Whiteboard -----------------------------
(***************************************************************************)
(* WhiteboardProxy of lzy/api.py (lines 70-93) with Python's resolution of *)
(* setattr, for whiteboards that are instances of one dataclass type.      *)
(*                                                                         *)
(* setattr(w, n, v) calls type(w).__setattr__(w, n, v).  The type's is     *)
(* object.__setattr__ until an __enter__ replaces it by                    *)
(* `lambda obj, *a: obj.__setattr__(...)` (line 79), which looks         *)
(* __setattr__ up on the instance: the instance's own entry if it has one  *)
(* (put there by lines 78 and 83), else that same lambda again.  The       *)
(* callables are records:                                                  *)
(*   [k |-> "object"]   object.__setattr__ bound to the instance           *)
(*   [k |-> "typefwd"]  the type's forwarding lambda bound to it           *)
(*   [k |-> "fake", env |-> e, inner |-> c]  line 78's lambda: e's         *)
(*                      _fake_setattr with set_attr = c                    *)
(*   [k |-> "raise"]    line 83's lambda                                   *)
(* LzyEnv.run() inside __exit__ is taken to return here; LzyEnv.tla models *)
(* what a raising run() does to the whiteboard.                            *)
(***************************************************************************)
EXTENDS Naturals

CONSTANTS
    Envs,
    Objs,      \* instances of the whiteboard dataclass
    WbOf,      \* WbOf[e]: the whiteboard passed to LzyEnv e
    Fields,
    Vals,
    None

ASSUME WbOf \in [Envs -> Objs]

SA == "__setattr__"
ObjectSA == [k |-> "object"]
TypeFwd == [k |-> "typefwd"]
RaiseSA == [k |-> "raise"]
Fake(e, c) == [k |-> "fake", env |-> e, inner |-> c]

VARIABLES
    created,   \* created[w]: the dataclass constructor returned w
    typeSA,    \* type(w).__setattr__: "object" or "forward"
    inst,      \* inst[w]: w's own __setattr__ entry, or None
    fields,    \* fields[w][f]: the value of field f of w, or None
    phase,     \* phase[e]: the program is "before", "in" or "after" e's with
    entered,   \* LzyEnv._entered
    exited,    \* LzyEnv._exited
    already,   \* already[e]: _already_set_fields of e's WhiteboardProxy
    wrote,     \* wrote[e]: fields of e's whiteboard written while e was
               \* active (history)
    last       \* the last operation, its outcome and what spec 6 expects

vars == <<created, typeSA, inst, fields, phase, entered, exited, already, wrote,
          last>>

\* The part of the state a setattr reads and writes.
St == [inst |-> inst, fields |-> fields, already |-> already]

Ok(st) == [ok |-> TRUE, st |-> st]
Fail(st) == [ok |-> FALSE, st |-> st]

\* The callable type(w).__setattr__ is bound to.
TypeCallable == IF typeSA = "object" THEN ObjectSA ELSE TypeFwd

\* w.__setattr__ (line 77): the instance's entry shadows the type's.
Lookup(w, st) == IF st.inst[w] # None THEN st.inst[w] ELSE TypeCallable

(***************************************************************************)
(* Plausible faults of the code below, each used by one mutant run.        *)
(***************************************************************************)
\* disallow_multiple_writes patching the type (line 79) before taking
\* set_attr and setting the instance's entry (lines 77-78).
DisallowMultipleWritesTypeFirst(e, w, st) ==
    LET c == Fake(e, TypeFwd) IN
    IF st.inst[w] = None THEN Fail(st)
    ELSE Ok([st EXCEPT !.inst[w] = c])

(***************************************************************************)
(* Calling a bound __setattr__ c with (n, v) on w.  A forwarding lambda    *)
(* that finds no instance entry calls itself until RecursionError.         *)
(* _fake_setattr (lines 86-90) adds n to _already_set_fields before it     *)
(* calls set_attr.                                                         *)
(***************************************************************************)
RECURSIVE Call(_, _, _, _, _)
Call(c, w, n, v, st) ==
    CASE c.k = "object" ->
           Ok(IF n = SA THEN [st EXCEPT !.inst[w] = v]
              ELSE [st EXCEPT !.fields[w][n] = v])
      [] c.k = "typefwd" ->
           IF st.inst[w] = None THEN Fail(st)
           ELSE Call(st.inst[w], w, n, v, st)
      [] c.k = "raise" -> Fail(st)
      [] c.k = "fake" ->
           IF n \in st.already[c.env] THEN Fail(st)
           ELSE Call(c.inner, w, n, v, [st EXCEPT !.already[c.env] = @ \cup {n}])

\* disallow_multiple_writes (lines 75-79) up to the type patch, which
\* happens only if the instance patch returned.
DisallowMultipleWrites(e, w, st) ==
    Call(TypeCallable, w, SA, Fake(e, Lookup(w, st)), st)

\* disallow_writes (lines 81-84) up to the type patch.
DisallowWrites(e, w, st) == Call(TypeCallable, w, SA, RaiseSA, st)

Apply(r) ==
    /\ inst' = r.st.inst
    /\ fields' = r.st.fields
    /\ already' = r.st.already

\* Spec 6 and 8: a write to a whiteboard of an active workflow succeeds for
\* a field not yet written and raises for one that was; any write after
\* close raises; a whiteboard of no active workflow is a plain record.
WriteExpected(w, f) ==
    LET owners == {e \in Envs : WbOf[e] = w /\ phase[e] # "before"}
    IN  \A e \in owners :
            /\ ~exited[e]
            /\ f \notin wrote[e]

(***************************************************************************)
(* Actions                                                                 *)
(***************************************************************************)

\* The dataclass constructor sets every field through setattr.
Create(w) ==
    /\ ~created[w]
    /\ LET init == [f \in Fields |-> CHOOSE v \in Vals : TRUE]
           r == IF typeSA = "object" THEN Ok([St EXCEPT !.fields[w] = init])
                ELSE Fail(St)
       IN  /\ created' = [created EXCEPT ![w] = r.ok]
           /\ Apply(r)
           /\ last' = [op |-> "create", ok |-> r.ok, expected |-> TRUE]
    /\ UNCHANGED <<typeSA, phase, entered, exited, wrote>>

\* with env: -> __enter__ (lines 119-122).  _entered is set first; if
\* disallow_multiple_writes raises, the with-statement is never entered.
Enter(e) ==
    /\ phase[e] = "before"
    /\ created[WbOf[e]]
    /\ LET r == DisallowMultipleWrites(e, WbOf[e], St) IN
       /\ entered' = [entered EXCEPT ![e] = TRUE]
       /\ Apply(r)
       /\ typeSA' = IF r.ok THEN "forward" ELSE typeSA
       /\ phase' = [phase EXCEPT ![e] = IF r.ok THEN "in" ELSE "after"]
       /\ last' = [op |-> "enter", ok |-> r.ok, expected |-> TRUE]
    /\ UNCHANGED <<created, exited, wrote>>

\* Leaving the with: __exit__ (lines 124-127) with run() returning.
Exit(e) ==
    /\ phase[e] = "in"
    /\ LET r == DisallowWrites(e, WbOf[e], St) IN
       /\ Apply(r)
       /\ typeSA' = IF r.ok THEN "forward" ELSE typeSA
       /\ exited' = [exited EXCEPT ![e] = r.ok]
       /\ last' = [op |-> "exit", ok |-> r.ok, expected |-> TRUE]
    /\ phase' = [phase EXCEPT ![e] = "after"]
    /\ UNCHANGED <<created, entered, wrote>>

\* whiteboard.f = v by the program.
Write(w, f, v) ==
    /\ created[w]
    /\ LET r == Call(TypeCallable, w, f, v, St) IN
       /\ Apply(r)
       /\ last' = [op |-> "write", ok |-> r.ok, expected |-> WriteExpected(w, f)]
       /\ wrote' = [e \in Envs |->
                      IF r.ok /\ WbOf[e] = w /\ phase[e] = "in"
                      THEN wrote[e] \cup {f} ELSE wrote[e]]
    /\ UNCHANGED <<created, typeSA, phase, entered, exited>>

Init ==
    /\ created = [w \in Objs |-> FALSE]
    /\ typeSA = "object"
    /\ inst = [w \in Objs |-> None]
    /\ fields = [w \in Objs |-> [f \in Fields |-> None]]
    /\ phase = [e \in Envs |-> "before"]
    /\ entered = [e \in Envs |-> FALSE]
    /\ exited = [e \in Envs |-> FALSE]
    /\ already = [e \in Envs |-> {}]
    /\ wrote = [e \in Envs |-> {}]
    /\ last = None

Next ==
    \/ \E w \in Objs : Create(w)
    \/ \E e \in Envs : Enter(e) \/ Exit(e)
    \/ \E w \in Objs, f \in Fields, v \in Vals : Write(w, f, v)

Spec == Init /\ [][Next]_vars

(***************************************************************************)
(* Properties                                                              *)
(***************************************************************************)

\* Spec 6 and 8: creating a whiteboard, entering and leaving its workflow
\* never fail, and a write succeeds exactly when the contract allows it
\* (distinct fields while active, nothing after close).
WhiteboardContract ==
    last # None => last.ok = last.expected

====
