----------------------------- MODULE LazyProxy -----------------------------
(***************************************************************************)
(* The lazy proxy of lzy/_proxy/automagic.py.  proxy(origin_getter, t,     *)
(* obj_attrs=...) builds a fresh class `pearl` per call (Proxifier copies  *)
(* every attribute of t into it, wrapping the ones that have __get__ in a  *)
(* TrickDescriptor) and returns one instance.  The origin object is made   *)
(* by create_and_cache(type(self), origin_getter) on the first access that *)
(* needs it and stored as the class attribute _origin.                     *)
(*                                                                         *)
(* pearl defines __getattr__, so Python reads an instance attribute by     *)
(* calling pearl's __getattribute__: the one of t, wrapped in a            *)
(* TrickDescriptor, whose __get__ runs create_and_cache.  Every read, of   *)
(* a method, a data attribute or an obj_attrs entry, therefore makes the   *)
(* origin first; a name the origin lacks falls through to                  *)
(* pearl.__getattr__, which returns an obj_attrs entry from the instance.  *)
(* Writes go through pearl.__setattr__: obj_attrs to the instance, the     *)
(* rest to the origin.                                                     *)
(*                                                                         *)
(* Attributes are abstracted to three kinds: ObjAttrs (names in obj_attrs, *)
(* which the origin lacks), Methods of t, and Attrs, the data attributes  *)
(* the origin object has (instance fields and class attributes of t      *)
(* alike).  Produced[p] is what origin_getter of proxy p returns.          *)
(***************************************************************************)
EXTENDS Naturals

CONSTANTS
    Proxies,     \* the proxies the program creates, one proxy() call each
    ObjAttrs,
    Methods,
    Attrs,
    Vals,
    Produced,    \* Produced[p]: the attributes of the object p's getter returns
    MaxCalls,    \* bound on invocations of one getter
    None

Outcome == {"ok", "raise"}

ASSUME /\ Produced \in [Proxies -> [Attrs -> Vals]]
       /\ MaxCalls \in Nat \ {0}

VARIABLES
    built,      \* built[p]: pearl() has returned
    origin,     \* origin[p]: pearl._origin, or None while unset
    calls,      \* calls[p]: invocations of p's origin_getter (history)
    used,       \* used[p]: the program used the value behind p
    written,    \* written[p][a]: the last value written to a through p, or
                \* None (history)
    lastRead    \* the last attribute read through a proxy and what the
                \* origin holds for it (history)

vars == <<built, origin, calls, used, written, lastRead>>


(***************************************************************************)
(* Plausible faults of the code below, each used by one mutant run.        *)
(***************************************************************************)
\* create_and_cache without its hasattr check: every access calls the getter.
CreateAndCacheNoCheck(p, out) ==
    [ok |-> out = "ok",
     obj |-> IF out = "ok" THEN Produced[p] ELSE origin[p],
     called |-> TRUE]

(***************************************************************************)
(* create_and_cache (automagic.py 21-24): the getter is called only while  *)
(* the proxy's class has no _origin; a getter that raises leaves it unset. *)
(* The result: whether the access goes on, the origin it goes on with, and *)
(* whether the getter was called.                                          *)
(***************************************************************************)
CreateAndCache(p, out) ==
    IF origin[p] # None
    THEN [ok |-> TRUE, obj |-> origin[p], called |-> FALSE]
    ELSE [ok |-> out = "ok",
          obj |-> IF out = "ok" THEN Produced[p] ELSE None,
          called |-> TRUE]

\* The `item in obj_attrs` test of pearl.__getattr__ (line 79).
IsObjAttr(a) == a \in ObjAttrs

\* p.a for a name a of obj_attrs (lines 78-80 behind the wrapped
\* __getattribute__): the origin is made, lacks a, and __getattr__
\* returns the instance's entry.  Whether the read returns; its effect is
\* Access(p, out).
ObjAttrReadOk(p, a, out) == CreateAndCache(p, out).ok /\ IsObjAttr(a)

\* A call of create_and_cache for proxy p whose getter, if called, does
\* `out` this time: the getter's invocation is recorded.
Invoke(p, out) ==
    LET r == CreateAndCache(p, out) IN
    /\ r.called => calls[p] < MaxCalls
    /\ calls' = [calls EXCEPT ![p] = @ + (IF r.called THEN 1 ELSE 0)]

\* An access to p through create_and_cache: pearl._origin is what it
\* leaves (still unset after a raise).  The caller goes on with
\* CreateAndCache(p, out).obj only if .ok.
Access(p, out) ==
    /\ Invoke(p, out)
    /\ origin' = [origin EXCEPT ![p] = CreateAndCache(p, out).obj]

(***************************************************************************)
(* Actions                                                                 *)
(***************************************************************************)

\* proxy() (automagic.py 53-95): pearl is created and instantiated;
\* pearl.__init__ sets each obj_attrs entry through pearl.__setattr__,
\* whose obj_attrs test sends it to the instance without an origin.
Build(p) ==
    /\ ~built[p]
    /\ built' = [built EXCEPT ![p] = TRUE]
    /\ UNCHANGED <<origin, calls, used, written, lastRead>>

\* p.m(...) for a method of t: TrickDescriptor.__get__ (lines 9-18) with an
\* instance binds the method to the origin.
CallMethod(p, m) ==
    /\ built[p]
    /\ \E out \in Outcome : Access(p, out)
    /\ used' = [used EXCEPT ![p] = TRUE]
    /\ UNCHANGED <<built, written, lastRead>>

\* What the program can expect to read from p.a: the last value it wrote
\* through p, else what p's getter makes.
Expected(p, a) == IF written[p][a] # None THEN written[p][a] ELSE Produced[p][a]

\* p.a for a data attribute: the wrapped __getattribute__ (lines 9-15)
\* makes the origin and reads a from it.
ReadAttr(p, a) ==
    /\ built[p]
    /\ \E out \in Outcome :
         LET r == CreateAndCache(p, out) IN
         /\ Access(p, out)
         /\ lastRead' = IF r.ok
                        THEN [proxy |-> p, attr |-> a, value |-> r.obj[a],
                              truth |-> Expected(p, a)]
                        ELSE lastRead
    /\ used' = [used EXCEPT ![p] = TRUE]
    /\ UNCHANGED <<built, written>>

\* p.a = v for a data attribute: pearl.__setattr__ (lines 84-93) forwards
\* it to setattr(origin, a, v).
WriteAttr(p, a, v) ==
    /\ built[p]
    /\ \E out \in Outcome :
         LET r == CreateAndCache(p, out) IN
         /\ Invoke(p, out)
         /\ IF r.ok
            THEN /\ origin' = [origin EXCEPT ![p] = [r.obj EXCEPT ![a] = v]]
                 /\ written' = [written EXCEPT ![p][a] = v]
            ELSE /\ origin' = [origin EXCEPT ![p] = r.obj]
                 /\ UNCHANGED written
    /\ used' = [used EXCEPT ![p] = TRUE]
    /\ UNCHANGED <<built, lastRead>>

Init ==
    /\ built = [p \in Proxies |-> FALSE]
    /\ origin = [p \in Proxies |-> None]
    /\ calls = [p \in Proxies |-> 0]
    /\ used = [p \in Proxies |-> FALSE]
    /\ written = [p \in Proxies |-> [a \in Attrs |-> None]]
    /\ lastRead = None

Next ==
    \E p \in Proxies :
        \/ Build(p)
        \/ \E m \in Methods : CallMethod(p, m)
        \/ \E a \in Attrs : ReadAttr(p, a)
        \/ \E a \in Attrs, v \in Vals : WriteAttr(p, a, v)

Spec == Init /\ [][Next]_vars

(***************************************************************************)
(* Properties                                                              *)
(***************************************************************************)

\* Spec 4.1: passing a deferred value into another operation does not
\* force it; the getter is called only once the program uses the value.
GetterOnlyCalledOnUse ==
    \A p \in Proxies : calls[p] > 0 => used[p]

\* Reading an attribute through the proxy returns the last value written
\* to it through the proxy, or the getter's value: the origin is made once
\* per proxy and kept, so no write is lost to a second origin and no proxy
\* reads another proxy's origin.
ReadSeesWrites ==
    lastRead # None => lastRead.value = lastRead.truth

====
