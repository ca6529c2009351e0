----------------------------- MODULE BashServant -----------------------------
(***************************************************************************)
(* The client side of the channel/slot/zygote protocol in                  *)
(* lzy-python/lzy/servant/bash_servant.py and the remote servant it        *)
(* drives.  Every control command goes through BashServant._exec_bash:     *)
(* `bash -c <cmd>`, failing on a non-empty stderr, then on a non-zero exit *)
(* code.  What the servant's tools do with a command is outside this code: *)
(* the model lets a command take effect or not and report success,         *)
(* output on stderr, or a non-zero exit, with two constraints: success is  *)
(* only reported for a command that took effect, and a command whose       *)
(* object is in the wrong state (a channel that exists, a slot already     *)
(* bound, a slot on a missing channel) takes no effect.                    *)
(*                                                                         *)
(* The caller is one thread using the servant; it blocks in touch() for an *)
(* output slot (polling for the slot's path every 0.1 s) and in            *)
(* BashExecution.wait_for().  The servant creates slot paths and runs jobs *)
(* asynchronously.                                                         *)
(***************************************************************************)
EXTENDS Naturals, FiniteSets

CONSTANTS
    Channels,   \* channel names
    InSlots,    \* slots of direction INPUT
    OutSlots,   \* slots of direction OUTPUT
    Zygotes,    \* zygote names
    Execs,      \* BashExecution objects the caller may create
    None        \* "no value"

Slots == InSlots \cup OutSlots

ASSUME InSlots \cap OutSlots = {}
ASSUME None \notin Channels \cup Slots \cup Execs

\* What the servant's tool answers: exit 0 and nothing on stderr, something
\* on stderr, or a non-zero exit code.
Reports == {"ok", "stderr", "nonzero"}

\* A finished job's exit code and stderr.
ExitCodes == {0, 1}
ErrTexts == {"empty", "text"}

\* The object subprocess leaves in Popen.stdout / Popen.stderr.
PipeObject == "pipe"

VARIABLES
    channels,    \* channels that exist on the servant
    binding,     \* binding[s]: the channel slot s is bound to, or None
    pathExists,  \* slots whose path exists under the mount
    published,   \* zygotes published on the servant
    exec,        \* state of each BashExecution and of its job
    pc,          \* where the caller thread is
    submitted,   \* executions returned by _execute_run (history)
    touchedOut,  \* output slots whose touch() returned (history)
    waited,      \* waited[x]: the ExecutionResult wait_for returned, or None
    lastDestroy  \* the last destroy_channel call and its outcome

vars == <<channels, binding, pathExists, published, exec, pc, submitted,
          touchedOut, waited, lastDestroy>>

NoExec == [state |-> "none", zygote |-> None, rc |-> 0, err |-> "empty"]
Idle == [op |-> "idle", arg |-> None]

TypeOK ==
    /\ channels \subseteq Channels
    /\ binding \in [Slots -> Channels \cup {None}]
    /\ pathExists \subseteq Slots
    /\ published \subseteq Zygotes
    /\ exec \in [Execs -> [state : {"none", "created", "running", "done"},
                           zygote : Zygotes \cup {None},
                           rc : ExitCodes, err : ErrTexts]]
    /\ pc \in {Idle} \cup [op : {"poll"}, arg : OutSlots]
                     \cup [op : {"wait"}, arg : Execs]
    /\ submitted \subseteq Execs
    /\ touchedOut \subseteq OutSlots
    /\ waited \in [Execs -> {None} \cup [rc : ExitCodes,
                                         stderr : ErrTexts \cup {PipeObject}]]
    /\ lastDestroy \in {None} \cup [chan : Channels, intended : Reports,
                                    result : {"returned", "raised"}]

(***************************************************************************)
(* Plausible faults of the code below, each used by one mutant run.        *)
(***************************************************************************)
\* _exec_bash ignoring stderr and the exit code.
ExecBashIgnoringErrors(report) == "returned"

\* touch() without the wait for an output slot's path.
MustPollNever(s) == FALSE

\* wait_for without communicate(): it returns at once, and Popen.returncode
\* is None while the job still runs.
WaitForNoCommunicate(x) ==
    /\ pc = Idle
    /\ x \in submitted
    /\ exec[x].state # "created"
    /\ waited' = [waited EXCEPT ![x] =
                    [rc |-> IF exec[x].state = "done" THEN exec[x].rc ELSE None,
                     stderr |-> PipeObject]]
    /\ UNCHANGED <<channels, binding, pathExists, published, exec, pc, submitted,
                   touchedOut, lastDestroy>>

(***************************************************************************)
(* BashServant._exec_bash (lines 125-138): a non-empty stderr raises, then *)
(* a non-zero return code raises; otherwise the output is returned.        *)
(***************************************************************************)
ExecBash(report) ==
    IF report \in {"stderr", "nonzero"} THEN "raised" ELSE "returned"

\* The servant's effect of a command given its precondition and its report.
RemoteEffect(pre, report, applied) ==
    /\ applied => pre
    /\ report = "ok" => applied

\* touch() polls only for a slot of direction OUTPUT (line 101).
MustPoll(s) == s \in OutSlots

\* BashExecution.start (lines 47-56) on a fresh execution: Popen starts
\* `bash -c <zygote> --mapping <file>` and the job is running.
StartExecution(z) == [state |-> "running", zygote |-> z, rc |-> 0, err |-> "empty"]

\* destroy_channel (lines 84-87) formats self.mount, a bound method, into
\* the command, so bash is given "<bound method BashServant.mount of ...>
\* /sbin/channel destroy <name>": the `<` redirections fail and bash writes
\* to stderr whatever the channel tool would have answered.
DestroyReport(intended) == "stderr"

\* BashExecution.wait_for (lines 57-62): communicate() collects the output
\* and discards it; the result carries the Popen's pipe objects.
WaitResult(x) == [rc |-> exec[x].rc, stderr |-> PipeObject]

(***************************************************************************)
(* Caller actions                                                          *)
(***************************************************************************)

\* create_channel (lines 80-82).
CreateChannel(c) ==
    /\ pc = Idle
    /\ \E report \in Reports, applied \in BOOLEAN :
         /\ RemoteEffect(c \notin channels, report, applied)
         /\ channels' = IF applied THEN channels \cup {c} ELSE channels
    /\ UNCHANGED <<binding, pathExists, published, exec, pc, submitted,
                   touchedOut, waited, lastDestroy>>

\* destroy_channel (lines 84-87); intended is what the channel tool would
\* have answered to the command the code means to run.
DestroyChannel(c) ==
    /\ pc = Idle
    /\ \E intended \in Reports :
         /\ intended = "ok" => c \in channels
         /\ lastDestroy' = [chan |-> c, intended |-> intended,
                         result |-> ExecBash(DestroyReport(intended))]
    /\ UNCHANGED <<channels, binding, pathExists, published, exec, pc,
                   submitted, touchedOut, waited>>

\* touch (lines 88-103): the touch command binds the slot; for an output
\* slot the caller then loops until the slot's path exists.
Touch(s, c) ==
    /\ pc = Idle
    /\ \E report \in Reports, applied \in BOOLEAN :
         /\ RemoteEffect(binding[s] = None /\ c \in channels, report, applied)
         /\ binding' = IF applied THEN [binding EXCEPT ![s] = c] ELSE binding
         /\ IF ExecBash(report) = "returned" /\ MustPoll(s)
            THEN pc' = [op |-> "poll", arg |-> s] /\ UNCHANGED touchedOut
            ELSE /\ pc' = Idle
                 /\ touchedOut' = IF ExecBash(report) = "returned" /\ s \in OutSlots
                                  THEN touchedOut \cup {s} ELSE touchedOut
    /\ UNCHANGED <<channels, pathExists, published, exec, submitted, waited,
                   lastDestroy>>

\* The poll loop of touch (lines 101-103) ends: the path exists.
PollReturns(s) ==
    /\ pc = [op |-> "poll", arg |-> s]
    /\ s \in pathExists
    /\ pc' = Idle
    /\ touchedOut' = touchedOut \cup {s}
    /\ UNCHANGED <<channels, binding, pathExists, published, exec, submitted,
                   waited, lastDestroy>>

\* publish (lines 105-111): registers the zygote, overwriting one of the
\* same name.
Publish(z) ==
    /\ pc = Idle
    /\ \E report \in Reports, applied \in BOOLEAN :
         /\ RemoteEffect(TRUE, report, applied)
         /\ published' = IF applied THEN published \cup {z} ELSE published
    /\ UNCHANGED <<channels, binding, pathExists, exec, pc, submitted,
                   touchedOut, waited, lastDestroy>>

\* _execute_run (lines 113-122): a new BashExecution, started, returned.
ExecuteRun(x, z) ==
    /\ pc = Idle
    /\ exec[x].state = "none"
    /\ exec' = [exec EXCEPT ![x] = StartExecution(z)]
    /\ submitted' = submitted \cup {x}
    /\ UNCHANGED <<channels, binding, pathExists, published, pc, touchedOut,
                   waited, lastDestroy>>

\* wait_for (lines 57-62): raises on an execution never started; otherwise
\* communicate() blocks until the job has finished.
WaitFor(x) ==
    /\ pc = Idle
    /\ x \in submitted
    /\ pc' = IF exec[x].state = "created" THEN Idle ELSE [op |-> "wait", arg |-> x]
    /\ UNCHANGED <<channels, binding, pathExists, published, exec, submitted,
                   touchedOut, waited, lastDestroy>>

WaitReturns(x) ==
    /\ pc = [op |-> "wait", arg |-> x]
    /\ exec[x].state = "done"
    /\ pc' = Idle
    /\ waited' = [waited EXCEPT ![x] = WaitResult(x)]
    /\ UNCHANGED <<channels, binding, pathExists, published, exec, submitted,
                   touchedOut, lastDestroy>>

(***************************************************************************)
(* Servant actions                                                         *)
(***************************************************************************)

\* The servant materializes a bound slot's path, some time after touch.
CreatePath(s) ==
    /\ binding[s] # None
    /\ s \notin pathExists
    /\ pathExists' = pathExists \cup {s}
    /\ UNCHANGED <<channels, binding, published, exec, pc, submitted,
                   touchedOut, waited, lastDestroy>>

\* A job finishes; a job of an unpublished zygote fails.
JobTerminates(x) ==
    /\ exec[x].state = "running"
    /\ \E rc \in ExitCodes, err \in ErrTexts :
         /\ exec[x].zygote \notin published => rc # 0 /\ err = "text"
         /\ exec' = [exec EXCEPT ![x] = [@ EXCEPT !.state = "done", !.rc = rc,
                                                  !.err = err]]
    /\ UNCHANGED <<channels, binding, pathExists, published, pc, submitted,
                   touchedOut, waited, lastDestroy>>

Init ==
    /\ channels = {}
    /\ binding = [s \in Slots |-> None]
    /\ pathExists = {}
    /\ published = {}
    /\ exec = [x \in Execs |-> NoExec]
    /\ pc = Idle
    /\ submitted = {}
    /\ touchedOut = {}
    /\ waited = [x \in Execs |-> None]
    /\ lastDestroy = None

Next ==
    \/ \E c \in Channels : CreateChannel(c) \/ DestroyChannel(c)
    \/ \E s \in Slots, c \in Channels : Touch(s, c)
    \/ \E s \in OutSlots : PollReturns(s)
    \/ \E z \in Zygotes : Publish(z)
    \/ \E x \in Execs, z \in Zygotes : ExecuteRun(x, z)
    \/ \E x \in Execs : WaitFor(x) \/ WaitReturns(x)
    \/ \E s \in Slots : CreatePath(s)
    \/ \E x \in Execs : JobTerminates(x)

\* The servant keeps creating paths and running jobs; the caller's poll and
\* communicate() loops keep running while it is blocked in them.
Fairness ==
    /\ \A s \in Slots : WF_vars(CreatePath(s))
    /\ \A x \in Execs : WF_vars(JobTerminates(x))
    /\ \A s \in OutSlots : WF_vars(PollReturns(s))
    /\ \A x \in Execs : WF_vars(WaitReturns(x))

Spec == Init /\ [][Next]_vars /\ Fairness

(***************************************************************************)
(* Properties                                                              *)
(***************************************************************************)

\* When touch() of an output slot has returned, the slot is bound to a
\* channel and its path exists, so the caller can open it.
OutputSlotReadyWhenTouched ==
    \A s \in touchedOut : binding[s] # None /\ s \in pathExists

\* A caller blocked polling for an output slot's path is eventually
\* released: it polls only after the touch command succeeded.
TouchEventuallyReturns ==
    \A s \in OutSlots :
        pc = [op |-> "poll", arg |-> s] ~> pc = Idle

=============================================================================
