------------------------------ MODULE ThreadTurns ------------------------------
(***************************************************************************)
(* The turns of one loaded thread: features/thread/turns.ts starts and     *)
(* interrupts them, run-records.ts consumes the agent run and records what *)
(* it does, interactions.ts turns what the run asks of the user into       *)
(* Server Requests, and state.ts serialises their operations and closes    *)
(* them all.  The agent run itself (agent/run.ts) goes on beside them, so  *)
(* that it emits, suspends and ends between any two of their steps.        *)
(*                                                                         *)
(* The mutation queue holds operations; the head's next action is taken    *)
(* when one of its awaits ends, and each append that changes a field below *)
(* is an action.  An append that throws leaves nothing behind: what it may *)
(* leave on disk is ThreadStore's concern.  Agent Tasks, steering and the  *)
(* title task are left out.                                                *)
(***************************************************************************)
EXTENDS Naturals, FiniteSets, Sequences

CONSTANTS
  Turns,       \* the turns that may be started
  Requests,    \* the interactions that runs may ask for, and their requests
  Clients,     \* the callers of turn/interrupt
  None,        \* no turn, no request
  MaxEvents,   \* bound: how many events the runs emit together
  MaxFailures  \* bound: how many records cannot be made or appended

ASSUME NoneAssumption == None \notin Turns \cup Requests \cup Clients
ASSUME BoundsAssumption == MaxEvents \in Nat /\ MaxFailures \in Nat
ASSUME RequestsAssumption == "item" \notin Requests /\ "compacted" \notin Requests

VARIABLES
  turn,     \* what the snapshot says of each turn
  pending,  \* the snapshot's pendingServerRequests
  active,   \* activeTurn
  queue,    \* the mutation queue
  entry,    \* the pending interactions of interactions.ts
  run,      \* the run of the latest turn
  reply,    \* the run's own promise of each interaction
  drive,    \* consumeAgentRun of each turn
  caller,   \* where each interrupting client is, and which turn it means
  closer,   \* where close() is
  failures, \* how often an append or a registration has failed
  ended,    \* history: how many records have ended each turn
  resolved  \* history: how many records have resolved each request

vars == <<turn, pending, active, queue, entry, run, reply, drive, caller,
          closer, failures, ended, resolved>>

\* The records of a turn, the interactions with the user, and the rest.
records    == <<turn, ended>>
userVars   == <<pending, entry, reply, resolved>>
othersVars == <<caller, closer>>

Endings == {"completed", "interrupted", "failed"}
Events  == {"item", "compacted"} \cup Requests

\* An operation of the queue: how far it is and, for those that go through
\* the interactions, which are left.
Operation(kind, arg) == [kind |-> kind, arg |-> arg, step |-> 0, todo |-> {}]

NoRun == [of |-> None, phase |-> "none", stopped |-> FALSE, asks |-> <<>>,
          buffer |-> <<>>, emitted |-> 0, result |-> "none", threw |-> FALSE]

Init ==
  /\ turn = [t \in Turns |-> "none"]
  /\ pending = {}
  /\ active = None
  /\ queue = <<>>
  /\ entry = {}
  /\ run = NoRun
  /\ reply = [r \in Requests |-> "none"]
  /\ drive = [t \in Turns |-> [at |-> "none", broken |-> FALSE]]
  /\ caller = [c \in Clients |-> [at |-> "idle", target |-> None]]
  /\ closer = [at |-> "open", todo |-> {}, now |-> None, failed |-> FALSE]
  /\ failures = 0
  /\ ended = [t \in Turns |-> 0]
  /\ resolved = [r \in Requests |-> 0]

Closing == closer.at # "open"
Live    == run.phase \notin {"none", "over"}
Asked(r) == \E i \in 1..Len(run.asks) : run.asks[i] = r

-----------------------------------------------------------------------------
(***************************************************************************)
(* The mutation queue and the records                                      *)
(***************************************************************************)

At(kind, step) == queue # <<>> /\ queue[1].kind = kind /\ queue[1].step = step
Argument       == queue[1].arg
GoesTo(step)   == queue' = [queue EXCEPT ![1].step = step]
Leaves         == queue' = Tail(queue)
Enqueue(op)    == queue' = Append(queue, op)

CanFail == failures < MaxFailures
Fails   == CanFail /\ failures' = failures + 1

RecordEnd(t, how) ==
  /\ turn' = [turn EXCEPT ![t] = how]
  /\ ended' = [ended EXCEPT ![t] = @ + 1]

RecordResolved(r) ==
  /\ pending' = pending \ {r}
  /\ resolved' = [resolved EXCEPT ![r] = @ + 1]

\* run.resume: of a settled promise it does nothing, of an interaction that
\* the run has consumed it throws.
Resume(r, how) ==
  reply' = IF reply[r] = "open" THEN [reply EXCEPT ![r] = how] ELSE reply
Consumed(r) == reply[r] = "used"

-----------------------------------------------------------------------------
(***************************************************************************)
(* Starting a turn                                                         *)
(***************************************************************************)

StartTurn(t) ==
  /\ ~Closing /\ turn[t] = "none"
  /\ \A i \in 1..Len(queue) : queue[i].kind = "start" => queue[i].arg # t
  /\ Enqueue(Operation("start", t))
  /\ UNCHANGED <<records, userVars, othersVars, active, run, drive, failures>>

\* MUTANT of MayStart: no threadBusy.
MayStartBeside == ~Closing

\* assertOpen and threadBusy.
MayStart == ~Closing /\ active = None

Start ==
  /\ At("start", 0)
  /\ IF MayStart
       THEN turn' = [turn EXCEPT ![Argument] = "inProgress"] /\ GoesTo(1)
       ELSE Leaves /\ UNCHANGED turn
  /\ UNCHANGED <<ended, userVars, othersVars, active, run, drive, failures>>

\* The records after the first are made, and so is the run.
Launch ==
  /\ At("start", 1)
  /\ run' = [NoRun EXCEPT !.of = Argument, !.phase = "streaming",
                          !.emitted = run.emitted]
  /\ active' = Argument
  /\ drive' = [drive EXCEPT ![Argument].at = "pull"]
  /\ Leaves
  /\ UNCHANGED <<records, userVars, othersVars, failures>>

LaunchFails ==
  /\ At("start", 1)
  /\ GoesTo(2)
  /\ UNCHANGED <<records, userVars, othersVars, active, run, drive, failures>>

RecordStartFailed ==
  /\ At("start", 2)
  /\ RecordEnd(Argument, "failed")
  /\ Leaves
  /\ UNCHANGED <<userVars, othersVars, active, run, drive, failures>>

\* An append of start throws.  Once turn.started is recorded this leaves a
\* turn in progress that nothing drives.
StartFails ==
  /\ (At("start", 0) /\ MayStart) \/ At("start", 1) \/ At("start", 2)
  /\ Fails
  /\ Leaves
  /\ UNCHANGED <<records, userVars, othersVars, active, run, drive>>

-----------------------------------------------------------------------------
(***************************************************************************)
(* The agent run                                                           *)
(***************************************************************************)

Streaming == run.phase = "streaming"
MayEmit   == Streaming /\ run.emitted < MaxEvents
Emitted(e) == [run EXCEPT !.buffer = Append(@, e), !.emitted = @ + 1]

Emits ==
  /\ MayEmit
  /\ run' = Emitted("item")
  /\ UNCHANGED <<records, userVars, othersVars, active, queue, drive, failures>>

\* The engine has compacted its context and waits, whatever happens, until
\* the event has been recorded or refused.
Compacts ==
  /\ MayEmit /\ run.asks = <<>>
  /\ run' = [Emitted("compacted") EXCEPT !.phase = "committing"]
  /\ UNCHANGED <<records, userVars, othersVars, active, queue, drive, failures>>

Asks(r) ==
  /\ MayEmit /\ reply[r] = "none"
  /\ run' = [Emitted(r) EXCEPT !.asks = Append(@, r)]
  /\ reply' = [reply EXCEPT ![r] = "open"]
  /\ UNCHANGED <<records, pending, entry, resolved, othersVars, active, queue,
                 drive, failures>>

Suspends ==
  /\ Streaming /\ ~run.stopped /\ run.asks # <<>>
  /\ run' = [run EXCEPT !.phase = "suspended"]
  /\ UNCHANGED <<records, userVars, othersVars, active, queue, drive, failures>>

\* The run returns its result, unless closing the agent throws; what it still
\* asked for is nobody's any more.
RunEnds(result, threw) ==
  /\ \E how \in {result, "rejected"} :
       run' = [run EXCEPT !.phase = "over", !.result = how, !.threw = threw,
                          !.asks = <<>>]
  /\ reply' = [r \in Requests |-> IF reply[r] = "open" THEN "no" ELSE reply[r]]
  /\ UNCHANGED <<records, pending, entry, resolved, othersVars, active, queue,
                 drive, failures>>

Completes ==
  /\ Streaming /\ ~run.stopped /\ run.asks = <<>>
  /\ \E result \in {"completed", "failed"} : RunEnds(result, FALSE)

Stops ==
  /\ Streaming /\ run.stopped
  /\ RunEnds("interrupted", FALSE)

\* The catch of runAgent.
Throws == RunEnds(IF run.stopped THEN "interrupted" ELSE "failed", TRUE)

StreamThrows == Streaming /\ Throws

\* resolveDeferred awaits the interactions in their order.
TakesAnswer ==
  /\ run.phase = "suspended"
  /\ LET r == Head(run.asks) IN
     \/ /\ reply[r] = "yes"
        /\ reply' = [reply EXCEPT ![r] = "used"]
        /\ run' = [run EXCEPT !.asks = Tail(@),
                              !.phase = IF Len(run.asks) = 1
                                          THEN "streaming" ELSE @]
        /\ UNCHANGED <<records, pending, entry, resolved, othersVars, active,
                       queue, drive, failures>>
     \/ reply[r] = "no" /\ Throws

\* MUTANT of Interrupted: the interactions are not interrupted.
InterruptedStreamOnly ==
  /\ run' = IF Live THEN [run EXCEPT !.stopped = TRUE] ELSE run
  /\ UNCHANGED reply

\* interrupt of a run that has not ended.
Interrupted ==
  IF Live
    THEN /\ run' = [run EXCEPT !.stopped = TRUE]
         /\ reply' = [r \in Requests |-> IF reply[r] = "open" THEN "no"
                                                              ELSE reply[r]]
    ELSE UNCHANGED <<run, reply>>

-----------------------------------------------------------------------------
(***************************************************************************)
(* consumeAgentRun                                                         *)
(***************************************************************************)

\* MUTANT of DriveTakes: events are not consumed while the run is suspended.
DriveTakesStreaming(t) ==
  /\ drive[t].at = "pull" /\ run.buffer # <<>> /\ run.phase # "suspended"
  /\ Enqueue(Operation("event", Head(run.buffer)))
  /\ run' = [run EXCEPT !.buffer = Tail(@)]
  /\ drive' = [drive EXCEPT ![t].at = "event"]
  /\ UNCHANGED <<records, userVars, othersVars, active, failures>>

DriveTakes(t) ==
  /\ drive[t].at = "pull" /\ run.buffer # <<>>
  /\ Enqueue(Operation("event", Head(run.buffer)))
  /\ run' = [run EXCEPT !.buffer = Tail(@)]
  /\ drive' = [drive EXCEPT ![t].at = "event"]
  /\ UNCHANGED <<records, userVars, othersVars, active, failures>>

\* The event stream has ended or failed, after the events it still held.
DriveLeaves(t) ==
  /\ drive[t].at = "pull" /\ run.buffer = <<>> /\ run.phase = "over"
  /\ drive' = [drive EXCEPT ![t] = [at |-> "result", broken |-> run.threw]]
  /\ UNCHANGED <<records, userVars, othersVars, active, queue, run, failures>>

RecordEvent ==
  /\ At("event", 0) /\ Argument \notin Requests
  /\ run' = IF Argument = "compacted" THEN [run EXCEPT !.phase = "streaming"]
                                      ELSE run
  /\ drive' = [drive EXCEPT ![run.of].at = "pull"]
  /\ Leaves
  /\ UNCHANGED <<records, userVars, othersVars, active, failures>>

Register ==
  /\ At("event", 0) /\ Argument \in Requests
  /\ entry' = entry \cup {Argument}
  /\ GoesTo(1)
  /\ UNCHANGED <<records, pending, reply, resolved, othersVars, active, run,
                 drive, failures>>

RecordRequest ==
  /\ At("event", 1)
  /\ pending' = pending \cup {Argument}
  /\ drive' = [drive EXCEPT ![run.of].at = "pull"]
  /\ Leaves
  /\ UNCHANGED <<records, entry, reply, resolved, othersVars, active, run,
                 failures>>

\* The request cannot be made, or an append throws.  No event is taken any
\* more; a compaction is told of its failure, and ends the run.
EventFails ==
  /\ At("event", 0) \/ At("event", 1)
  /\ drive' = [drive EXCEPT ![run.of] = [at |-> "result", broken |-> TRUE]]
  /\ entry' = entry \ {Argument}
  /\ Leaves
  /\ Fails
  /\ IF Argument = "compacted"
       THEN \E how \in {IF run.stopped THEN "interrupted" ELSE "failed", "rejected"} :
              run' = [run EXCEPT !.phase = "over", !.threw = TRUE, !.result = how]
       ELSE UNCHANGED run
  /\ UNCHANGED <<records, pending, reply, resolved, othersVars, active>>

\* A failed event stream is not covered by a completed result, and a result
\* that was rejected goes straight to the second attempt.
Outcome(t) ==
  IF run.result = "rejected" \/ (drive[t].broken /\ run.result = "completed")
    THEN "failed" ELSE run.result

DriveFinishes(t) ==
  /\ drive[t].at = "result" /\ run.phase = "over"
  /\ Enqueue(Operation("finish", Outcome(t)))
  /\ drive' = [drive EXCEPT ![t].at =
                 IF run.result = "rejected" THEN "again" ELSE "finish"]
  /\ UNCHANGED <<records, userVars, othersVars, active, run, failures>>

RecordFinish ==
  /\ At("finish", 0)
  /\ RecordEnd(run.of, Argument)
  /\ GoesTo(1)
  /\ UNCHANGED <<userVars, othersVars, active, run, drive, failures>>

\* MUTANT of Finish: the second attempt is made whether the first failed or not.
FinishTwice ==
  /\ At("finish", 1)
  /\ IF drive[run.of].at = "finish"
       THEN /\ queue' = Append(Tail(queue), Operation("finish", "failed"))
            /\ drive' = [drive EXCEPT ![run.of].at = "again"]
            /\ UNCHANGED active
       ELSE /\ Leaves
            /\ drive' = [drive EXCEPT ![run.of].at = "done"]
            /\ active' = None
  /\ UNCHANGED <<records, userVars, othersVars, run, failures>>

\* The status, the usage and the goal are recorded: onFinished.  From here on
\* of the run nothing is read but that it is over.
Finish ==
  /\ At("finish", 1)
  /\ active' = IF active = run.of THEN None ELSE active
  /\ drive' = [drive EXCEPT ![run.of] = [at |-> "done", broken |-> FALSE]]
  /\ run' = [NoRun EXCEPT !.of = run.of, !.phase = "over", !.emitted = run.emitted]
  /\ Leaves
  /\ UNCHANGED <<records, userVars, othersVars, failures>>

FinishFails ==
  /\ At("finish", 0) \/ At("finish", 1)
  /\ Fails
  /\ IF drive[run.of].at = "finish"
       THEN /\ queue' = Append(Tail(queue), Operation("finish", "failed"))
            /\ drive' = [drive EXCEPT ![run.of].at = "again"]
       ELSE /\ Leaves
            /\ drive' = [drive EXCEPT ![run.of].at = "lost"]
  /\ UNCHANGED <<records, userVars, othersVars, active, run>>

-----------------------------------------------------------------------------
(***************************************************************************)
(* Answers                                                                 *)
(***************************************************************************)

\* A request is dispatched to one client at a time, and connections are
\* closed before threads are.
AnswerRequest(r, how) ==
  /\ ~Closing /\ r \in pending
  /\ \A i \in 1..Len(queue) : queue[i].kind = "answer" => queue[i].arg[1] # r
  /\ Enqueue(Operation("answer", <<r, how>>))
  /\ UNCHANGED <<records, userVars, othersVars, active, run, drive, failures>>

Answerable(r) == r \in pending /\ r \in entry /\ ~Consumed(r)

\* resolve and reject: the run is told first.  An answer that does not fit
\* its request is a rejection.
Answer ==
  /\ At("answer", 0)
  /\ LET r == Argument[1] IN
     IF Answerable(r) THEN Resume(r, Argument[2]) /\ GoesTo(1)
                      ELSE Leaves /\ UNCHANGED reply
  /\ UNCHANGED <<records, pending, entry, resolved, othersVars, active, run,
                 drive, failures>>

RecordAnswer ==
  /\ At("answer", 1)
  /\ RecordResolved(Argument[1])
  /\ entry' = entry \ {Argument[1]}
  /\ Leaves
  /\ UNCHANGED <<records, reply, othersVars, active, run, drive, failures>>

\* MUTANT of AnswerFails: the entry is deleted although its record failed.
AnswerFailsDeletes ==
  /\ At("answer", 1)
  /\ entry' = entry \ {Argument[1]}
  /\ Leaves
  /\ Fails
  /\ UNCHANGED <<records, pending, reply, resolved, othersVars, active, run, drive>>

AnswerFails ==
  /\ At("answer", 1)
  /\ Leaves
  /\ Fails
  /\ UNCHANGED <<records, userVars, othersVars, active, run, drive>>

-----------------------------------------------------------------------------
(***************************************************************************)
(* turn/interrupt                                                          *)
(***************************************************************************)

Moves(c, place) == caller' = [caller EXCEPT ![c].at = place]

\* beforeInterrupt: the run of the thread is interrupted, whichever it is.
Interrupt(c, t) ==
  /\ ~Closing /\ caller[c].at = "idle" /\ turn[t] # "none"
  /\ caller' = [caller EXCEPT ![c] = [at |-> "stopping", target |-> t]]
  /\ Interrupted
  /\ UNCHANGED <<records, pending, entry, resolved, closer, active, queue,
                 drive, failures>>

\* Once the pool is closed withState throws.
AskCancel(c) ==
  /\ caller[c].at = "stopping"
  /\ IF Closing THEN Moves(c, "refused") /\ UNCHANGED queue
                ELSE Moves(c, "cancelling") /\ Enqueue(Operation("cancel", c))
  /\ UNCHANGED <<records, userVars, closer, active, run, drive, failures>>

CancelAll ==
  /\ At("cancel", 0)
  /\ queue' = [queue EXCEPT ![1].step = 1, ![1].todo = entry]
  /\ UNCHANGED <<records, userVars, othersVars, active, run, drive, failures>>

Cancel(r) ==
  /\ At("cancel", 1) /\ r \in queue[1].todo
  /\ IF r \in pending THEN RecordResolved(r) ELSE UNCHANGED <<pending, resolved>>
  /\ entry' = entry \ {r}
  /\ Resume(r, "no")
  /\ queue' = [queue EXCEPT ![1].todo = @ \ {r}]
  /\ UNCHANGED <<records, othersVars, active, run, drive, failures>>

CancelFails ==
  /\ At("cancel", 1) /\ queue[1].todo \cap pending # {}
  /\ Moves(Argument, "refused")
  /\ Leaves
  /\ Fails
  /\ UNCHANGED <<records, userVars, closer, active, run, drive>>

CancelEnds ==
  /\ At("cancel", 1) /\ queue[1].todo = {}
  /\ Moves(Argument, "cancelled")
  /\ Leaves
  /\ UNCHANGED <<records, userVars, closer, active, run, drive, failures>>

AskInterrupt(c) ==
  /\ caller[c].at = "cancelled"
  /\ IF Closing THEN Moves(c, "refused") /\ UNCHANGED queue
                ELSE Moves(c, "asking") /\ Enqueue(Operation("interrupt", c))
  /\ UNCHANGED <<records, userVars, closer, active, run, drive, failures>>

\* turns.interrupt: of a turn that is over it returns, of one that is not the
\* active one it throws.
InterruptTurn ==
  /\ At("interrupt", 0)
  /\ LET t == caller[Argument].target IN
     \/ /\ active = None
        /\ Moves(Argument, IF turn[t] = "inProgress" THEN "refused" ELSE "returned")
        /\ UNCHANGED <<run, reply>>
     \/ active \notin {None, t} /\ Moves(Argument, "refused") /\ UNCHANGED <<run, reply>>
     \/ active = t /\ Moves(Argument, "waiting") /\ Interrupted
  /\ Leaves
  /\ UNCHANGED <<records, pending, entry, resolved, closer, active, drive,
                 failures>>

InterruptReturns(c) ==
  /\ caller[c].at = "waiting"
  /\ \/ drive[caller[c].target].at = "done" /\ Moves(c, "returned")
     \/ drive[caller[c].target].at = "lost" /\ Moves(c, "refused")
  /\ UNCHANGED <<records, userVars, closer, active, queue, run, drive, failures>>

-----------------------------------------------------------------------------
(***************************************************************************)
(* close                                                                   *)
(***************************************************************************)

Comes(place) == closer' = [closer EXCEPT !.at = place]

\* await mutation: what is in the queue now comes first.
AwaitQueue(place) ==
  /\ Comes(place)
  /\ Enqueue(Operation("mark", None))

\* MUTANT of Close: the interactions are closed beside the operation at work.
CloseAtOnce ==
  /\ ~Closing
  /\ closer' = [closer EXCEPT !.at = "requests", !.todo = entry]
  /\ UNCHANGED <<records, userVars, caller, active, queue, run, drive, failures>>

Close ==
  /\ ~Closing
  /\ AwaitQueue("draining")
  /\ UNCHANGED <<records, userVars, caller, active, run, drive, failures>>

\* The queue has been waited for: the interactions are next, or the lease is
\* released.
QueueDrained ==
  /\ At("mark", 0)
  /\ closer' = IF closer.at = "draining"
                 THEN [closer EXCEPT !.at = "requests", !.todo = entry]
                 ELSE [closer EXCEPT !.at = "closed"]
  /\ Leaves
  /\ UNCHANGED <<records, userVars, caller, active, run, drive, failures>>

\* interactions.close works beside the queue: it looks whether a request is
\* pending, appends its resolution, and then tells the run.
CloseLooks(r) ==
  /\ closer.at = "requests" /\ closer.now = None /\ r \in closer.todo
  /\ r \in pending
  /\ closer' = [closer EXCEPT !.now = r]
  /\ UNCHANGED <<records, userVars, caller, active, queue, run, drive, failures>>

CloseRequest(r) ==
  /\ closer.at = "requests" /\ r \in closer.todo
  /\ \/ closer.now = r /\ RecordResolved(r)
     \/ /\ closer.now = None /\ r \notin pending
        /\ UNCHANGED <<pending, resolved>>
  /\ entry' = entry \ {r}
  /\ Resume(r, "no")
  /\ closer' = [closer EXCEPT !.todo = @ \ {r}, !.now = None,
                              !.failed = @ \/ Consumed(r)]
  /\ UNCHANGED <<records, caller, active, queue, run, drive, failures>>

CloseFails(r) ==
  /\ closer.at = "requests" /\ closer.now = r
  /\ closer' = [closer EXCEPT !.todo = @ \ {r}, !.now = None, !.failed = TRUE]
  /\ Fails
  /\ UNCHANGED <<records, userVars, caller, active, queue, run, drive>>

\* MUTANT of CloseTurns: the run is interrupted, its turn not awaited.
CloseTurnsAtOnce ==
  /\ closer.at = "requests" /\ closer.todo = {}
  /\ IF closer.failed THEN Comes("failed") /\ UNCHANGED <<queue, run, reply>>
                      ELSE AwaitQueue("emptying") /\ Interrupted
  /\ UNCHANGED <<records, pending, entry, resolved, caller, active, drive,
                 failures>>

\* turns.close.
CloseTurns ==
  /\ closer.at = "requests" /\ closer.todo = {}
  /\ \/ closer.failed /\ Comes("failed") /\ UNCHANGED <<queue, run, reply>>
     \/ /\ ~closer.failed /\ active = None
        /\ AwaitQueue("emptying")
        /\ UNCHANGED <<run, reply>>
     \/ /\ ~closer.failed /\ active # None
        /\ Comes("turns")
        /\ Interrupted
        /\ UNCHANGED queue
  /\ UNCHANGED <<records, pending, entry, resolved, caller, active, drive,
                 failures>>

CloseWaits ==
  /\ closer.at = "turns"
  /\ \/ drive[run.of].at = "done" /\ AwaitQueue("emptying")
     \/ drive[run.of].at = "lost" /\ Comes("failed") /\ UNCHANGED queue
  /\ UNCHANGED <<records, userVars, caller, active, run, drive, failures>>

-----------------------------------------------------------------------------
QueueStep ==
  \/ Start \/ Launch \/ LaunchFails \/ RecordStartFailed \/ StartFails
  \/ RecordEvent \/ Register \/ RecordRequest \/ EventFails
  \/ RecordFinish \/ Finish \/ FinishFails
  \/ Answer \/ RecordAnswer \/ AnswerFails
  \/ CancelAll \/ (\E r \in Requests : Cancel(r)) \/ CancelFails \/ CancelEnds
  \/ InterruptTurn \/ QueueDrained

DriveStep == \E t \in Turns : DriveTakes(t) \/ DriveLeaves(t) \/ DriveFinishes(t)

CallerStep == \E c \in Clients : AskCancel(c) \/ AskInterrupt(c) \/ InterruptReturns(c)

CloseStep ==
  \/ \E r \in Requests : CloseLooks(r) \/ CloseRequest(r) \/ CloseFails(r)
  \/ CloseTurns \/ CloseWaits

\* What the run does without anybody's help.
RunStep == Stops \/ TakesAnswer

Next ==
  \/ QueueStep \/ DriveStep \/ CallerStep \/ CloseStep \/ RunStep
  \/ Emits \/ Compacts \/ Suspends \/ Completes \/ StreamThrows
  \/ \E r \in Requests : Asks(r) \/ \E how \in {"yes", "no"} : AnswerRequest(r, how)
  \/ \E t \in Turns : StartTurn(t) \/ \E c \in Clients : Interrupt(c, t)
  \/ Close

\* Records are written, promises resume, and an aborted stream ends.  Nothing
\* makes a model answer, a user decide or a client call.
Fairness ==
  /\ WF_vars(QueueStep) /\ WF_vars(DriveStep) /\ WF_vars(CallerStep)
  /\ WF_vars(CloseStep) /\ WF_vars(RunStep)

Spec == Init /\ [][Next]_vars /\ Fairness

-----------------------------------------------------------------------------
(***************************************************************************)
(* Properties                                                              *)
(***************************************************************************)

Places == {"idle", "stopping", "cancelling", "cancelled", "asking", "waiting",
           "returned", "refused"}

\* Every variable keeps the shape that the operations give it.
TypeOK ==
  /\ turn \in [Turns -> {"none", "inProgress"} \cup Endings]
  /\ pending \subseteq Requests /\ entry \subseteq Requests
  /\ active \in Turns \cup {None}
  /\ \A i \in 1..Len(queue) :
       /\ queue[i].kind \in {"start", "event", "finish", "answer", "cancel",
                             "interrupt", "mark"}
       /\ queue[i].step \in 0..2
       /\ queue[i].todo \subseteq Requests
       /\ i > 1 => queue[i].step = 0
  /\ run.of \in Turns \cup {None}
  /\ run.phase \in {"none", "streaming", "committing", "suspended", "over"}
  /\ run.result \in {"none", "rejected"} \cup Endings
  /\ run.emitted \in 0..MaxEvents
  /\ \A i \in 1..Len(run.buffer) : run.buffer[i] \in Events
  /\ reply \in [Requests -> {"none", "open", "yes", "no", "used"}]
  /\ \A t \in Turns : drive[t].at \in {"none", "pull", "event", "result",
                                       "finish", "again", "done", "lost"}
  /\ \A c \in Clients : caller[c].at \in Places
  /\ closer.at \in {"open", "draining", "requests", "turns", "emptying",
                    "closed", "failed"}
  /\ failures \in 0..MaxFailures
  /\ ended \in [Turns -> Nat] /\ resolved \in [Requests -> Nat]

\* A request is resolved by one record, however an answer, an interruption
\* and the end of the Server meet: a second record would make the projection
\* of the log fail whenever the thread is read (interactions.ts, records.ts).
ResolvedOnce == \A r \in Requests : resolved[r] <= 1

\* A request that the snapshot shows can be answered until the Server closes:
\* interactions.ts still has its entry.  A run that has consumed the answer
\* leaves one behind only when the record of it failed.
PendingIsAnswerable ==
  ~Closing => /\ pending \subseteq entry
              /\ failures = 0 => \A r \in pending : ~Consumed(r) \/ At("answer", 1)

\* A turn is ended by one record unless an append has failed, and then by no
\* more than the second attempt's (consumeAgentRun, finishAgentRun).
EndsOnce == \A t \in Turns : ended[t] <= IF failures = 0 THEN 1 ELSE 2

\* Until an append fails, a turn is in progress exactly while it is being
\* started or is the active one whose end is not yet recorded (turns.ts).
InProgressIsDriven ==
  failures = 0 =>
    \A t \in Turns :
      turn[t] = "inProgress" <=>
        \/ (At("start", 1) \/ At("start", 2)) /\ Argument = t
        \/ active = t /\ ~At("finish", 1)

\* turn/interrupt returns only when its turn is over, and never hands back a
\* turn that is in progress.
InterruptedIsOver ==
  \A c \in Clients :
    caller[c].at = "returned" => turn[caller[c].target] \in Endings

\* Once close has released the lease nothing of this Server touches the
\* thread's log: no operation is left, no run goes on, no turn is driven.
ClosedIsQuiet ==
  closer.at = "closed" =>
    /\ queue = <<>> /\ ~Live /\ active = None
    /\ \A t \in Turns : drive[t].at \in {"none", "done"}

\* The run waits for the record of a compaction whose event nobody takes.
Uncommitted == run.phase = "committing" /\ drive[run.of].at = "result"

\* An interruption and a close come to an end, unless the run waits for a
\* record that will not come.
StopsEnd ==
  /\ \A c \in Clients :
       caller[c].at = "waiting" ~> caller[c].at # "waiting" \/ Uncommitted
  /\ Closing ~> closer.at \in {"closed", "failed"} \/ Uncommitted

\* What a suspended run waits for is asked of the user, unless its event could
\* not be recorded.
SuspendedIsAsked ==
  \A r \in Requests :
    LET waits == run.phase = "suspended" /\ Asked(r) /\ reply[r] = "open"
    IN waits ~> ~waits \/ r \in pending \/ drive[run.of].broken

\* An interruption ends no other turn than the one it names: a "stale turn id"
\* has to "fail fast" (tests/thread/thread-manager.test.ts:140).
StaleInterruptIsHarmless ==
  \A t \in Turns :
    turn[t] = "interrupted" => Closing \/ \E c \in Clients : caller[c].target = t

=============================================================================
