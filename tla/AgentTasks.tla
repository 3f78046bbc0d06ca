------------------------------ MODULE AgentTasks ------------------------------
(***************************************************************************)
(* The background Agent Tasks of one root thread: subagents/task-service.ts *)
(* over the rows of subagents/task-store.ts, with the mutation queue of the *)
(* thread (features/thread/state.ts) in which the approvals that the child  *)
(* runs ask for are registered, answered and cancelled (interactions.ts).   *)
(*                                                                         *)
(* An action is what runs between two awaits.  A row that is created is    *)
(* marked running and its child launched in the same step, so no row rests *)
(* in "queued".  "ended" stands for completed and for blocked.  The root   *)
(* thread has its primary run elsewhere and may be unloaded while tasks    *)
(* run (state.ts:919), and what its log is given may not be recorded.      *)
(***************************************************************************)
EXTENDS Naturals, Sequences, FiniteSets

CONSTANTS
  Tasks,        \* the tasks of the root thread
  Interrupters, \* requests that interrupt the root turn
  MaxTroubles   \* bound: restarts, starts of another Server, failed appends

ASSUME TasksAssumption == Tasks # {} /\ Tasks \cap Interrupters = {}
ASSUME TroublesAssumption == MaxTroubles \in Nat

VARIABLES
  row,        \* the status of each row, "none" where there is none
  child,      \* the run of each task, from its launch until its completion
  ask,        \* the interaction that the child has emitted
  loaded,     \* the root thread is in the pool
  queue,      \* the mutations of the root thread not yet run
  pending,    \* the tasks whose last interaction is pending in the root thread
  forgotten,  \* those of them whose run has gone on with an answer
  stopper,    \* the stop of each task that is under way
  halt,       \* each interrupt of the root turn
  cancelling, \* the root is in cancellingRoots
  closing,    \* closing of the service
  troubles,
  late,       \* history: the tasks stopped with an interaction on its way, or
              \* whose interaction has ended without a record of that
  causes      \* history: what the properties except

vars == <<row, child, ask, loaded, queue, pending, forgotten, stopper, halt,
          cancelling, closing, troubles, late, causes>>
requests == <<pending, forgotten>>
thread  == <<loaded, queue, requests>>
halting == <<stopper, halt, cancelling>>
history == <<troubles, late, causes>>

Terminal == {"ended", "failed", "stopped"}
Active   == {t \in Tasks : row[t] = "running"}
NoChild  == [at |-> "none", waits |-> FALSE, interrupted |-> FALSE]

Init ==
  /\ row = [t \in Tasks |-> "none"]
  /\ child = [t \in Tasks |-> NoChild]
  /\ ask = [t \in Tasks |-> "none"]
  /\ loaded = TRUE /\ queue = <<>> /\ pending = {} /\ forgotten = {}
  /\ stopper = [t \in Tasks |-> "idle"]
  /\ halt = [i \in Interrupters |-> [at |-> "idle", active |-> {}]]
  /\ cancelling = FALSE /\ closing = FALSE
  /\ troubles = 0 /\ late = {} /\ causes = {}

-----------------------------------------------------------------------------
(***************************************************************************)
(* The life of a task                                                      *)
(***************************************************************************)

\* settleChange: a terminal row is left as it is.
Settled(rows, S, status) ==
  [t \in Tasks |-> IF t \in S /\ rows[t] \notin Terminal THEN status ELSE rows[t]]


\* runs.get(id)?.interrupt: a run that waits for an answer ends at once.
Interrupted(children, S) ==
  [t \in Tasks |->
     IF t \in S /\ children[t].at = "live"
     THEN [children[t] EXCEPT !.interrupted = TRUE, !.waits = FALSE,
                              !.at = IF children[t].waits THEN "over" ELSE @]
     ELSE children[t]]

\* MUTANT of Start: a tree that is being cancelled may still grow.
StartAnyway(t) ==
  /\ ~closing /\ loaded
  /\ row[t] = "none"
  /\ row' = [row EXCEPT ![t] = "running"]
  /\ child' = [child EXCEPT ![t].at = "launching"]
  /\ UNCHANGED <<ask, thread, halting, closing, history>>

\* The primary run starts a task, and its turn keeps the thread loaded.
Start(t) ==
  /\ ~closing /\ ~cancelling /\ loaded
  /\ row[t] = "none"
  /\ row' = [row EXCEPT ![t] = "running"]
  /\ child' = [child EXCEPT ![t].at = "launching"]
  /\ UNCHANGED <<ask, thread, halting, closing, history>>

\* MUTANT of Launched: a stop that came while launching is not seen.
LaunchedUnaware(t) ==
  /\ child[t].at = "launching"
  /\ child' = [child EXCEPT ![t].at = "live", ![t].interrupted = closing]
  /\ UNCHANGED <<row, ask, thread, halting, closing, history>>

\* launch resolves: only a row that was stopped interrupts the new run.
Launched(t) ==
  /\ child[t].at = "launching"
  /\ child' = [child EXCEPT ![t].at = "live",
                            ![t].interrupted = row[t] = "stopped" \/ closing]
  /\ UNCHANGED <<row, ask, thread, halting, closing, history>>

LaunchFails(t) ==
  /\ child[t].at = "launching"
  /\ child' = [child EXCEPT ![t] = [NoChild EXCEPT !.at = "gone"]]
  /\ row' = Settled(row, {t}, "failed")
  /\ UNCHANGED <<ask, thread, halting, closing, history>>

\* The child emits interactionRequired and waits for its answer.
Asks(t) ==
  /\ child[t].at = "live" /\ ~child[t].waits /\ ~child[t].interrupted
  /\ ask[t] = "none"
  /\ child' = [child EXCEPT ![t].waits = TRUE]
  /\ ask' = [ask EXCEPT ![t] = "emitted"]
  /\ UNCHANGED <<row, thread, halting, closing, history>>

\* run.resume with a rejection: the run fails.
Rejected(children, S) ==
  [t \in Tasks |-> IF t \in S /\ children[t].waits
                   THEN [children[t] EXCEPT !.waits = FALSE, !.at = "over"]
                   ELSE children[t]]

\* forwardInteraction catches: the thread does not take the interaction.
NotForwarded(t) ==
  /\ ask' = [ask EXCEPT ![t] = "none"]
  /\ child' = Rejected(child, {t})

\* consumeEvents: the event is persisted unless the row is terminal, and the
\* mutation that registers the interaction is queued in the same step, if the
\* thread is loaded.
Forward(t) ==
  /\ ask[t] = "emitted"
  /\ \/ /\ row[t] \in Terminal
        /\ ask' = [ask EXCEPT ![t] = "none"]
        /\ UNCHANGED <<child, queue>>
     \/ /\ row[t] \notin Terminal /\ loaded
        /\ ask' = [ask EXCEPT ![t] = "queued"]
        /\ queue' = Append(queue, [do |-> "register", tasks |-> {t}, by |-> t])
        /\ UNCHANGED child
     \/ /\ row[t] \notin Terminal /\ ~loaded
        /\ NotForwarded(t)
        /\ UNCHANGED queue
  /\ UNCHANGED <<row, loaded, requests, halting, closing, history>>

\* The run of the child has its result.
ChildEnds(t) ==
  /\ child[t].at = "live" /\ ~child[t].waits
  /\ child' = [child EXCEPT ![t].at = "over"]
  /\ UNCHANGED <<row, ask, thread, halting, closing, history>>

\* execute goes on when the result is there and the events are consumed.
Complete(t) ==
  /\ child[t].at = "over"
  /\ ask[t] \notin {"emitted", "queued"}
  /\ child' = [child EXCEPT ![t] = [NoChild EXCEPT !.at = "gone"]]
  /\ \E status \in {"ended", "failed"} : row' = Settled(row, {t}, status)
  /\ UNCHANGED <<ask, thread, halting, closing, history>>

-----------------------------------------------------------------------------
(***************************************************************************)
(* The mutations of the root thread                                        *)
(***************************************************************************)

Op == Head(queue)
Runs == queue # <<>> /\ queue' = Tail(queue)

Trouble == troubles < MaxTroubles /\ troubles' = troubles + 1

Register(t) ==
  /\ Runs /\ Op.do = "register" /\ Op.tasks = {t}
  /\ pending' = pending \cup {t} /\ forgotten' = forgotten \ {t}
  /\ ask' = [ask EXCEPT ![t] = "none"]
  /\ UNCHANGED <<row, child, loaded, halting, closing, history>>

\* The request is not recorded.
RegisterFails(t) ==
  /\ Runs /\ Op.do = "register" /\ Op.tasks = {t}
  /\ Trouble
  /\ NotForwarded(t)
  /\ UNCHANGED <<row, loaded, requests, halting, closing, late, causes>>

Answer(t) ==
  /\ t \in pending
  /\ \A k \in 1..Len(queue) : queue[k].do # "resolve"
  /\ queue' = Append(queue, [do |-> "resolve", tasks |-> {t}, by |-> t])
  /\ UNCHANGED <<row, child, ask, loaded, requests, halting, closing, history>>

\* The run goes on with the answer or, rejected, ends.  One that was interrupted
\* has the interaction still, and nothing comes of the answer.
Resumed(t, at) ==
  child' = IF child[t].waits THEN [child EXCEPT ![t].waits = FALSE, ![t].at = at] ELSE child

\* resolve and reject: a run that has forgotten the interaction refuses the
\* answer, and the request stays.
Resolve(t) ==
  /\ Runs /\ Op.do = "resolve" /\ Op.tasks = {t}
  /\ IF t \in pending \ forgotten
     THEN /\ pending' = pending \ {t}
          /\ \E at \in {"live", "over"} : Resumed(t, at)
     ELSE UNCHANGED <<pending, child>>
  /\ UNCHANGED <<row, ask, loaded, forgotten, halting, closing, history>>

\* The run is resumed, and the record of that fails: the request stays.
ResolveFails(t) ==
  /\ Runs /\ Op.do = "resolve" /\ Op.tasks = {t}
  /\ t \in pending \ forgotten
  /\ Trouble
  /\ \E at \in {"live", "over"} :
       /\ Resumed(t, at)
       /\ forgotten' = IF child[t].waits /\ at = "live" THEN forgotten \cup {t} ELSE forgotten
  /\ late' = late \cup {t}
  /\ UNCHANGED <<row, ask, loaded, pending, halting, closing, causes>>

Returns(x) ==
  /\ stopper' = [t \in Tasks |-> IF t = x THEN "cancelled" ELSE stopper[t]]
  /\ halt' = [i \in Interrupters |->
       IF i # x THEN halt[i]
       ELSE [halt[i] EXCEPT !.at = IF @ = "cancelling" THEN "cancelled" ELSE "cleared"]]

\* interactions.cancel, for a stop or for an interrupt.
Cancel ==
  /\ Runs /\ Op.do = "cancel"
  /\ pending' = pending \ Op.tasks /\ forgotten' = forgotten \ Op.tasks
  /\ child' = Rejected(child, (pending \cap Op.tasks) \ forgotten)
  /\ Returns(Op.by)
  /\ UNCHANGED <<row, ask, loaded, cancelling, closing, history>>

\* The finally of stop and stopRoot: who has waited for the cancel gives up.
GivesUp(x) ==
  /\ stopper' = [t \in Tasks |-> IF t = x THEN "rejected" ELSE stopper[t]]
  /\ halt' = [i \in Interrupters |-> IF i = x THEN [halt[i] EXCEPT !.at = "failed"] ELSE halt[i]]
  /\ cancelling' = (cancelling /\ ~\E i \in Interrupters : i = x /\ halt[i].at = "cancelling")

\* A resolution is not recorded: the interactions before it are cancelled.
CancelFails ==
  /\ Runs /\ Op.do = "cancel"
  /\ Trouble
  /\ \E done \in SUBSET (pending \cap Op.tasks) :
       /\ done # pending \cap Op.tasks
       /\ pending' = pending \ done /\ forgotten' = forgotten \ done
       /\ child' = Rejected(child, done \ forgotten)
       /\ late' = late \cup ((pending \cap Op.tasks) \ done)
  /\ GivesUp(Op.by)
  /\ UNCHANGED <<row, ask, loaded, closing, causes>>

-----------------------------------------------------------------------------
(***************************************************************************)
(* Stops, interrupts and the end                                           *)
(***************************************************************************)

\* stop, up to the cancelled interactions, and from there.  It is rejected if
\* the thread is not loaded.
Stop(t) ==
  /\ row[t] = "running" /\ stopper[t] \in {"idle", "rejected"}
  /\ \/ /\ loaded
        /\ stopper' = [stopper EXCEPT ![t] = "waiting"]
        /\ queue' = Append(queue, [do |-> "cancel", tasks |-> {t}, by |-> t])
     \/ /\ ~loaded
        /\ stopper' = [stopper EXCEPT ![t] = "rejected"]
        /\ UNCHANGED queue
  /\ UNCHANGED <<row, child, ask, loaded, requests, halt, cancelling, closing, history>>

\* The register that is queued, if any, finds its task stopped.
OnTheirWay == {t \in Tasks : ask[t] = "queued" \/ t \in pending}

StopSettles(t) ==
  /\ stopper[t] = "cancelled"
  /\ stopper' = [stopper EXCEPT ![t] = "idle"]
  /\ row' = Settled(row, {t}, "stopped")
  /\ child' = Interrupted(child, {t})
  /\ late' = late \cup ({t} \cap OnTheirWay)
  /\ UNCHANGED <<ask, thread, halt, cancelling, closing, troubles, causes>>

\* stopRoot, after the primary run was interrupted.  It throws, and changes
\* nothing, if the thread is not loaded.
Halt(i) ==
  /\ halt[i].at = "idle" /\ loaded
  /\ halt' = [halt EXCEPT ![i] = [at |-> "cancelling", active |-> Active]]
  /\ cancelling' = TRUE
  /\ queue' = Append(queue, [do |-> "cancel", tasks |-> Active, by |-> i])
  /\ causes' = IF cancelling THEN causes \cup {"overlap"} ELSE causes
  /\ UNCHANGED <<row, child, ask, loaded, requests, stopper, closing, troubles, late>>

\* Every listed task is stopped, and beforeInterrupt cancels once more.
HaltSettles(i) ==
  /\ halt[i].at = "cancelled"
  /\ halt' = [halt EXCEPT ![i].at = "clearing"]
  /\ cancelling' = FALSE
  /\ row' = Settled(row, halt[i].active, "stopped")
  /\ child' = Interrupted(child, halt[i].active)
  /\ queue' = Append(queue, [do |-> "cancel", tasks |-> Tasks, by |-> i])
  /\ UNCHANGED <<ask, loaded, requests, stopper, closing, history>>

\* Nobody is at the thread, nor about to go on from there.
Unused == queue = <<>> /\ \A i \in Interrupters : halt[i].at # "cancelled"

\* The pool unloads the thread, of which no request is pending and no turn
\* active, and a client resumes it.
Unload ==
  /\ loaded /\ Unused /\ pending = {}
  /\ loaded' = FALSE
  /\ UNCHANGED <<row, child, ask, queue, requests, halting, closing, history>>

Load ==
  /\ ~loaded /\ ~closing
  /\ loaded' = TRUE
  /\ UNCHANGED <<row, child, ask, queue, requests, halting, closing, history>>

\* The threads close, which drains the queue and rejects what is pending, and
\* then the service: every owned task is settled and every run interrupted.
Close ==
  /\ ~closing /\ Unused
  /\ closing' = TRUE
  /\ loaded' = FALSE
  /\ pending' = {} /\ forgotten' = {}
  /\ row' = Settled(row, Active, "stopped")
  /\ child' = Interrupted(Rejected(child, pending \ forgotten), Tasks)
  /\ UNCHANGED <<ask, queue, halting, history>>

\* The Server dies (also of an interaction it cannot forward, a rejection that
\* nobody handles); the next one runs recoverRunning, and recovery rejects the
\* requests of the thread.
Restart ==
  /\ Trouble
  /\ row' = Settled(row, Active, "failed")
  /\ child' = [t \in Tasks |-> IF row[t] = "none" THEN NoChild
                               ELSE [NoChild EXCEPT !.at = "gone"]]
  /\ ask' = [t \in Tasks |-> "none"]
  /\ loaded' = FALSE /\ queue' = <<>> /\ pending' = {} /\ forgotten' = {}
  /\ stopper' = [t \in Tasks |-> "idle"]
  /\ halt' = [i \in Interrupters |->
                IF halt[i].at = "idle" THEN halt[i] ELSE [at |-> "cleared", active |-> {}]]
  /\ cancelling' = FALSE /\ closing' = FALSE
  /\ late' = {}
  /\ UNCHANGED causes

\* Another Server starts over the same database.
OtherStarts ==
  /\ Trouble
  /\ row' = Settled(row, Active, "failed")
  /\ causes' = causes \cup {"other"}
  /\ UNCHANGED <<child, ask, thread, halting, closing, late>>

Mutation ==
  \/ Cancel \/ CancelFails
  \/ \E t \in Tasks : Register(t) \/ RegisterFails(t) \/ Resolve(t) \/ ResolveFails(t)
Ending(t) == Complete(t) \/ (child[t].interrupted /\ ChildEnds(t))
Entering(t) == Launched(t) \/ LaunchFails(t)

Next ==
  \/ \E t \in Tasks :
       \/ Start(t) \/ Entering(t) \/ Asks(t) \/ Forward(t)
       \/ ChildEnds(t) \/ Complete(t) \/ Answer(t)
       \/ Stop(t) \/ StopSettles(t)
  \/ Mutation
  \/ \E i \in Interrupters : Halt(i) \/ HaltSettles(i)
  \/ Unload \/ Load \/ Close \/ Restart \/ OtherStarts

\* What the service has begun goes on, and an interrupted run ends.  Nobody
\* has to answer, and a run that is not interrupted may never end.
Fairness ==
  /\ WF_vars(Mutation)
  /\ \A t \in Tasks : /\ WF_vars(Entering(t)) /\ WF_vars(Forward(t))
                      /\ WF_vars(Ending(t)) /\ WF_vars(StopSettles(t))
  /\ \A i \in Interrupters : WF_vars(HaltSettles(i))

Spec     == Init /\ [][Next]_vars
FairSpec == Spec /\ Fairness

-----------------------------------------------------------------------------
(***************************************************************************)
(* Properties                                                              *)
(***************************************************************************)

\* The type of every variable: the rows of task-store.ts, the maps of
\* task-service.ts and the queue of state.ts.
TypeOK ==
  /\ row \in [Tasks -> Terminal \cup {"none", "running"}]
  /\ child \in [Tasks -> [at : {"none", "launching", "live", "over", "gone"},
                          waits : BOOLEAN, interrupted : BOOLEAN]]
  /\ \A t \in Tasks : /\ child[t].waits => child[t].at = "live"
                      /\ child[t].at = "none" <=> row[t] = "none"
  /\ ask \in [Tasks -> {"none", "emitted", "queued"}]
  /\ \A k \in 1..Len(queue) : /\ queue[k].do \in {"register", "cancel", "resolve"}
                              /\ queue[k].tasks \subseteq Tasks
                              /\ queue[k].by \in Tasks \cup Interrupters
  /\ loaded \in BOOLEAN /\ pending \subseteq Tasks /\ forgotten \subseteq pending
  /\ stopper \in [Tasks -> {"idle", "waiting", "cancelled", "rejected"}]
  /\ halt \in [Interrupters -> [at : {"idle", "cancelling", "cancelled", "clearing", "cleared",
                                     "failed"},
                                active : SUBSET Tasks]]
  /\ cancelling \in BOOLEAN /\ closing \in BOOLEAN
  /\ troubles \in 0..MaxTroubles
  /\ late \subseteq Tasks
  /\ causes \subseteq {"overlap", "other"}

\* Whatever ends a task first decides: its result, a failed launch, a stop, an
\* interrupt, the close or a restart never changes a terminal row (settleChange).
TerminalIsFinal ==
  [][\A t \in Tasks : row[t] \in Terminal => row'[t] = row[t]]_vars

\* The run of a task that is over has been interrupted or is over too, or will
\* be interrupted as soon as it is launched (stopTask, execute and close),
\* unless another Server has failed the row.
NoRunOutlivesTask ==
  "other" \notin causes =>
    \A t \in Tasks : row[t] \in Terminal /\ child[t].at = "live" => child[t].interrupted

\* An interrupt of the root turn leaves no task running, those included that
\* the primary run starts in the meantime (cancellingRoots of stopRoot), unless
\* two interrupts overlap: the first one to finish lifts the barrier of both.
HaltStopsAll ==
  [][\A i \in Interrupters :
       /\ halt[i].at = "cancelled" /\ halt'[i].at \in {"clearing", "cleared"}
       /\ troubles' = troubles /\ "overlap" \notin causes
       => \A t \in Tasks : row'[t] # "running"]_vars

\* A request that is pending has a run that waits for the answer, or a cancel
\* of it is under way (interactions.ts register and cancel), unless a stop has
\* passed an interaction on its way or its end could not be recorded.
PendingIsAnswerable ==
  \A t \in pending \ late :
    \/ child[t].waits
    \/ \E k \in 1..Len(queue) : queue[k].do = "cancel" /\ t \in queue[k].tasks

\* A task that an interrupt of the root has stopped asks nothing any more,
\* neither in the thread nor in its queue (app.ts beforeInterrupt, which cancels
\* a second time after stopRoot).
ClearedAsksNothing ==
  \A i \in Interrupters : halt[i].at = "cleared" =>
    \A t \in halt[i].active :
      /\ t \notin pending
      /\ \A k \in 1..Len(queue) : queue[k].do = "register" => queue[k].tasks # {t}

\* A stopped task asks nothing, once its stop and what was queued before it
\* have run (docs/subagents/permission-isolation.md:182), which the code does
\* not keep.
StoppedAsksNothing == \A t \in pending : row[t] = "stopped" =>
  \E k \in 1..Len(queue) : queue[k].do = "cancel" /\ t \in queue[k].tasks

=============================================================================
