------------------------------ MODULE Processes -------------------------------
(***************************************************************************)
(* The processes of an Environment (features/environment/processes.ts): a  *)
(* handle that starts them, by exec, which waits for the end, or in the    *)
(* background; an abort, a time limit, the close of the handle and the     *)
(* close of the registry, which end them.                                  *)
(*                                                                         *)
(* A process may ignore SIGTERM, which is therefore no step: it may end at *)
(* any time.  SIGKILL ends its group.  A descendant that has left the      *)
(* group may keep the pipes open, and then 'close' is not emitted.         *)
(***************************************************************************)
CONSTANTS
  Execs,       \* the processes of exec, "attached"
  Backgrounds, \* the processes of spawn with lifecycle "background"
  Timed,       \* those with maxRuntimeMs, which a background one must have
  Handle, Registry \* who closes

Procs  == Execs \cup Backgrounds
Enders == Procs \cup {Handle, Registry}

\* What an instance assumes of its constants.
Assumption ==
  /\ Execs \cap Backgrounds = {} /\ Backgrounds \subseteq Timed /\ Timed \subseteq Procs
  /\ Handle # Registry /\ {Handle, Registry} \cap Procs = {}

VARIABLES
  proc,    \* each process: "alive", its group "gone", "closed" when its pipes are
  records, \* what the registry knows
  escaped, \* those with a descendant that holds the pipes outside the group
  call,    \* the exec or spawn of each process
  aborted, \* the execs whose signal is aborted
  timer,   \* the time limit of each process
  ender,   \* each terminate: where it is, and of what
  shut     \* who has been closed

processVars == <<proc, records, escaped, call, aborted, timer, ender, shut>>

Init ==
  /\ proc = [p \in Procs |-> "none"] /\ records = {} /\ escaped = {}
  /\ call = [p \in Procs |-> "none"] /\ aborted = {}
  /\ timer = [p \in Procs |-> "off"]
  /\ ender = [e \in Enders |-> [at |-> "idle", of |-> {}]]
  /\ shut = {}

\* The groups of the processes S end: without a descendant elsewhere their
\* pipes close, and 'close' clears the timers.
Over(p) == IF p \in escaped THEN "gone" ELSE "closed"
Ends(S) ==
  /\ proc' = [p \in Procs |-> IF p \in S /\ proc[p] = "alive" THEN Over(p) ELSE proc[p]]
  /\ timer' = [p \in Procs |-> IF p \in S \ escaped THEN "off" ELSE timer[p]]

\* terminate: SIGTERM to those of S that have not exited, and a second's grace.
Begin(e, S) ==
  ender' = [ender EXCEPT ![e] = [at |-> "grace",
                                 of |-> {p \in S : proc[p] \in {"alive", "gone"}}]]

\* requireOpen, and the record is made before the process has started.
Launch(p) ==
  /\ shut = {} /\ call[p] = "none"
  /\ proc' = [proc EXCEPT ![p] = "alive"]
  /\ records' = records \cup {p}
  /\ call' = [call EXCEPT ![p] = "spawning"]
  /\ timer' = [timer EXCEPT ![p] = IF p \in Timed THEN "armed" ELSE "off"]
  /\ UNCHANGED <<escaped, aborted, ender, shut>>

\* 'error' instead of 'spawn'.
LaunchFails(p) ==
  /\ call[p] = "spawning" /\ proc[p] = "alive"
  /\ proc' = [proc EXCEPT ![p] = "closed"]
  /\ records' = records \ {p}
  /\ call' = [call EXCEPT ![p] = "thrown"]
  /\ timer' = [timer EXCEPT ![p] = "off"]
  /\ UNCHANGED <<escaped, aborted, ender, shut>>

\* MUTANT of Spawned: a signal that was aborted meanwhile is not looked at.
SpawnedUnaware(p) ==
  /\ call[p] = "spawning"
  /\ call' = [call EXCEPT ![p] = IF p \in Backgrounds THEN "returned"
                                 ELSE IF p \in records THEN "stdin" ELSE "thrown"]
  /\ UNCHANGED <<proc, records, escaped, aborted, timer, ender, shut>>

\* 'spawn': exec looks at its signal and ends the input.
Spawned(p) ==
  /\ call[p] = "spawning"
  /\ call' = [call EXCEPT ![p] = IF p \in Backgrounds THEN "returned"
                                 ELSE IF p \in records THEN "stdin" ELSE "thrown"]
  /\ IF p \in aborted \cap records THEN Begin(p, {p}) ELSE UNCHANGED ender
  /\ UNCHANGED <<proc, records, escaped, aborted, timer, shut>>

\* endStdin is refused by a process that has ended.
EndStdin(p) ==
  /\ call[p] = "stdin"
  /\ \/ call' = [call EXCEPT ![p] = "waiting"]
     \/ proc[p] # "alive" /\ call' = [call EXCEPT ![p] = "thrown"]
  /\ UNCHANGED <<proc, records, escaped, aborted, timer, ender, shut>>

\* exec goes on with its completion.
Return(p) ==
  /\ call[p] = "waiting" /\ proc[p] = "closed"
  /\ call' = [call EXCEPT ![p] = "returned"]
  /\ UNCHANGED <<proc, records, escaped, aborted, timer, ender, shut>>

\* The signal of exec: the listener is there from 'spawn' to the return.
Abort(p) ==
  /\ call[p] \in {"spawning", "stdin", "waiting"} /\ p \in Execs \ aborted
  /\ aborted' = aborted \cup {p}
  /\ IF call[p] # "spawning" /\ p \in records THEN Begin(p, {p}) ELSE UNCHANGED ender
  /\ UNCHANGED <<proc, records, escaped, call, timer, shut>>

\* What the processes do by themselves.
Exit(p)   == /\ proc[p] = "alive" /\ Ends({p})
             /\ UNCHANGED <<records, escaped, call, aborted, ender, shut>>
Escape(p) == /\ proc[p] = "alive" /\ escaped' = escaped \cup {p}
             /\ UNCHANGED <<proc, records, call, aborted, timer, ender, shut>>
ClosePipes(p) ==
  /\ proc[p] = "gone"
  /\ proc' = [proc EXCEPT ![p] = "closed"] /\ timer' = [timer EXCEPT ![p] = "off"]
  /\ UNCHANGED <<records, escaped, call, aborted, ender, shut>>

\* maxRuntimeMs: SIGTERM, and after the grace SIGKILL.
TimeOut(p) ==
  /\ timer[p] = "armed"
  /\ timer' = [timer EXCEPT ![p] = "grace"]
  /\ UNCHANGED <<proc, records, escaped, call, aborted, ender, shut>>
ForceTimeOut(p) ==
  /\ timer[p] = "grace"
  /\ proc' = [proc EXCEPT ![p] = IF @ = "alive" THEN Over(p) ELSE @]
  /\ timer' = [timer EXCEPT ![p] = "off"]
  /\ UNCHANGED <<records, escaped, call, aborted, ender, shut>>

\* MUTANT of CloseHandle: the handle is shut when it has ended its processes.
CloseHandleLate ==
  /\ Handle \notin shut /\ ender[Handle].at = "idle"
  /\ Begin(Handle, Execs \cap records)
  /\ UNCHANGED <<proc, records, escaped, call, aborted, timer, shut>>

\* close of the handle: closeOwner.
CloseHandle ==
  /\ Handle \notin shut
  /\ shut' = shut \cup {Handle}
  /\ Begin(Handle, Execs \cap records)
  /\ UNCHANGED <<proc, records, escaped, call, aborted, timer>>

CloseRegistry ==
  /\ Registry \notin shut
  /\ shut' = shut \cup {Registry}
  /\ Begin(Registry, records)
  /\ UNCHANGED <<proc, records, escaped, call, aborted, timer>>

\* The grace is over: SIGKILL to those that have not exited.
Kill(e) ==
  /\ ender[e].at = "grace"
  /\ LET left == {p \in ender[e].of : proc[p] # "closed"}
     IN /\ ender' = [ender EXCEPT ![e] = [at |-> "killed", of |-> left]]
        /\ Ends(left)
  /\ UNCHANGED <<records, escaped, call, aborted, shut>>

\* All have completed, and closeOwner and close forget them.
Terminated(e) ==
  /\ ender[e].at = "killed" /\ \A p \in ender[e].of : proc[p] = "closed"
  /\ ender' = [ender EXCEPT ![e].at = "done"]
  /\ records' = CASE e = Handle   -> {p \in records : p \in Backgrounds \/ proc[p] = "alive"}
                  [] e = Registry -> {}
                  [] OTHER        -> records
  /\ UNCHANGED <<proc, escaped, call, aborted, timer, shut>>

Next ==
  \/ \E p \in Procs :
       \/ Launch(p) \/ LaunchFails(p) \/ Spawned(p) \/ EndStdin(p) \/ Return(p) \/ Abort(p)
       \/ Exit(p) \/ Escape(p) \/ ClosePipes(p) \/ TimeOut(p) \/ ForceTimeOut(p)
  \/ CloseHandle \/ CloseRegistry
  \/ \E e \in Enders : Kill(e) \/ Terminated(e)

\* Events are delivered and timers fire; no process ends by itself.
Fairness ==
  /\ \A p \in Procs : /\ WF_processVars(Spawned(p)) /\ WF_processVars(EndStdin(p))
                      /\ WF_processVars(Return(p))
                      /\ WF_processVars(TimeOut(p)) /\ WF_processVars(ForceTimeOut(p))
  /\ \A e \in Enders : WF_processVars(Kill(e)) /\ WF_processVars(Terminated(e))

Spec     == Init /\ [][Next]_processVars
FairSpec == Spec /\ Fairness

-----------------------------------------------------------------------------
\* The type of every variable: ProcessRecord and DefaultLocalProcessRegistry.
TypeOK ==
  /\ proc \in [Procs -> {"none", "alive", "gone", "closed"}]
  /\ records \subseteq Procs /\ escaped \subseteq Procs /\ aborted \subseteq Execs
  /\ call \in [Procs -> {"none", "spawning", "stdin", "waiting", "returned", "thrown"}]
  /\ timer \in [Procs -> {"off", "armed", "grace"}]
  /\ ender \in [Enders -> [at : {"idle", "grace", "killed", "done"}, of : SUBSET Procs]]
  /\ shut \subseteq {Handle, Registry}

\* When the handle is closed no exec has a process left, and when the registry
\* is, nothing has (closeOwner, close), whatever was about to start or to end.
CloseLeavesNothing ==
  /\ ender[Handle].at = "done" => \A p \in Execs : proc[p] # "alive"
  /\ ender[Registry].at = "done" => \A p \in Procs : proc[p] # "alive"

\* An exec that is aborted comes to an end, whenever the abort came and
\* whether or not the process heeds SIGTERM, unless a descendant outside its
\* group holds the pipes (processes.ts:150 and 387).
AbortedEnds ==
  \A p \in Execs : p \in aborted ~> (call[p] \in {"returned", "thrown"} \/ p \in escaped)

\* A process with a time limit does not live for ever.
TimedEnds == \A p \in Timed : proc[p] = "alive" ~> proc[p] # "alive"

\* What is being closed gets closed, with the same exception.
CloseEnds ==
  \A e \in {Handle, Registry} : e \in shut ~> (ender[e].at = "done" \/ escaped # {})
=============================================================================
