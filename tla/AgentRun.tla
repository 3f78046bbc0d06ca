------------------------------- MODULE AgentRun -------------------------------
(***************************************************************************)
(* The run of a primary Agent and what it is told while it runs: run.ts    *)
(* drives one engine stream after another, engine/run-control.ts holds the *)
(* steering messages of a stream, engine/run-state.ts decides whether a    *)
(* stream goes on, and subagents/task-service.ts hands out the             *)
(* notifications of the Agent Tasks that have ended.                       *)
(*                                                                         *)
(* A notification is named as its task.  JavaScript runs to completion: an *)
(* action is what happens between two waits for something outside, be it   *)
(* the model, a tool, the recorder of events or a user.  The messages that *)
(* a model has been given are kept in seen, a history variable.            *)
(***************************************************************************)
EXTENDS Naturals, Sequences

CONSTANTS
  Tasks,      \* the Agent Tasks of the thread, and their notifications
  Steers,     \* what users may steer the run with
  Budget,     \* the message the engine itself puts in its steering queue
  MaxTurns,   \* maxTurns of one stream
  MaxRounds,  \* bound: how many runs start, and approvals are answered
  MaxTroubles \* bound: restarts, and answers that exhaust the reasoning budget

ASSUME InputsAssumption == Tasks \cap Steers = {} /\ Budget \notin Tasks \cup Steers
ASSUME LimitsAssumption == MaxTurns \in Nat \ {0} /\ MaxRounds \in Nat
                                                  /\ MaxTroubles \in Nat

VARIABLES
  task,      \* the row of each task and its notification
  reserved,  \* reservedNotifications of the service
  run,       \* the RunningAgent
  engine,    \* the stream of the run
  orphan,    \* an engine loop whose run has ended under it
  consumed,  \* history: the steers that have been reported as consumed
  lost,      \* history: those of them whose stream ended before its first turn
  sent,      \* the steers that have been sent
  seen,      \* history: the inputs that a model has been given
  rounds,    \* how many runs were started, and approvals answered
  troubles,  \* how many restarts and exhausted reasoning budgets
  causes     \* history: what the properties except

vars == <<task, reserved, run, engine, orphan, consumed, lost, sent, seen,
          rounds, troubles, causes>>
history == <<consumed, lost, sent, seen>>

Inputs == Tasks \cup Steers

\* pendingInputs and waitingInputs, initialNotificationIds and the system
\* notification that createCommands keeps for the run.
Idle == [phase |-> "none", interrupted |-> FALSE, pendingInputs |-> <<>>,
         waitingInputs |-> <<>>, initial |-> {}, system |-> {}, result |-> "none"]
Stopped == [at |-> "idle", steering |-> <<>>, prompt |-> {}, turns |-> 0, stop |-> "none"]
NoOrphan == [alive |-> FALSE, took |-> FALSE]

Pending == {t \in Tasks : task[t] = "pending"}
Active  == {t \in Tasks : task[t] = "active"}
Free    == Pending \ reserved

\* A Server starts: recoverRunning has failed the tasks of the last one.
Init ==
  /\ task \in [Tasks -> {"absent", "pending"}]
  /\ reserved = {}
  /\ run = Idle
  /\ engine = Stopped
  /\ orphan = NoOrphan
  /\ consumed = {} /\ lost = {} /\ sent = {} /\ seen = {}
  /\ rounds = 0 /\ troubles = 0
  /\ causes = {}

-----------------------------------------------------------------------------
(***************************************************************************)
(* The run: streams, continuations, end                                    *)
(***************************************************************************)

Notified(inputs) == {t \in Tasks : \E i \in 1..Len(inputs) : inputs[i] = t}

\* What a run in state r has reserved and not yet acknowledged.
HeldBy(r) == r.initial \cup r.system \cup Notified(r.pendingInputs)
                                     \cup Notified(r.waitingInputs)

\* The run goes on, from state r, with another stream: its inputs in waiting
\* are forwarded to the new stream, those in pendingInputs stay behind.
StartStream(r, prompt) ==
  /\ engine' = [Stopped EXCEPT !.at = "turn", !.prompt = prompt,
                               !.steering = r.waitingInputs]
  /\ run' = [r EXCEPT !.phase = "streaming", !.waitingInputs = <<>>,
                      !.pendingInputs = @ \o r.waitingInputs]

\* finally: whatever is left is released, kept being what was reserved.
Ends(r, result, kept) ==
  /\ run' = [Idle EXCEPT !.phase = "closed", !.result = result]
  /\ reserved' = kept \ HeldBy(r)
  /\ engine' = Stopped

\* waitForContinuation in the segment that follows a stream.
Continue ==
  IF Free # {}
  THEN /\ StartStream([run EXCEPT !.initial = Free], Free)
       /\ reserved' = reserved \cup Free
  ELSE IF Active # {}
  THEN /\ run' = [run EXCEPT !.phase = "waiting"]
       /\ engine' = Stopped
       /\ UNCHANGED reserved
  ELSE Ends(run, "completed", reserved)

Throws(result) == Ends(run, IF run.interrupted THEN "interrupted" ELSE result, reserved)

Round == rounds < MaxRounds /\ rounds' = rounds + 1

StartRun ==
  /\ run.phase \in {"none", "closed"}
  /\ Round /\ StartStream(Idle, {})
  /\ UNCHANGED <<task, reserved, orphan, history, troubles, causes>>

\* An engine that stops with messages in its steering queue leaves their
\* inputs at the head of pendingInputs.
LeavesUnread == IF engine.steering # <<>> THEN causes \cup {"unread"} ELSE causes

EngineEnds(stop) == engine.at = "completing" /\ engine.stop = stop /\ run.phase = "streaming"

FinalInterrupted ==
  /\ engine.at = "completing" /\ run.phase = "streaming"
  /\ run.interrupted \/ engine.stop = "interrupted"
  /\ Ends(run, "interrupted", reserved)
  /\ UNCHANGED <<task, orphan, history, rounds, troubles, causes>>

FinalDeferred ==
  /\ EngineEnds("deferred") /\ ~run.interrupted
  /\ run' = [run EXCEPT !.phase = "deferred"]
  /\ engine' = Stopped
  /\ causes' = LeavesUnread
  /\ UNCHANGED <<task, reserved, orphan, history, rounds, troubles>>

\* A stream at its last turn may have nothing to show, which is a failure.
FinalFailed ==
  /\ EngineEnds("max-turns") /\ ~run.interrupted
  /\ Ends(run, "failed", reserved)
  /\ UNCHANGED <<task, orphan, history, rounds, troubles, causes>>

FinalContinues ==
  /\ EngineEnds("max-turns") \/ EngineEnds("natural")
  /\ ~run.interrupted
  /\ Continue
  /\ causes' = IF engine.stop = "max-turns" THEN LeavesUnread ELSE causes
  /\ UNCHANGED <<task, orphan, history, rounds, troubles>>

\* The user has answered: the engine resumes with an empty steering queue.
ResolveDeferred ==
  /\ run.phase = "deferred"
  /\ Round /\ StartStream(run, {})
  /\ UNCHANGED <<task, reserved, orphan, history, troubles, causes>>

RejectDeferred ==
  /\ run.phase = "deferred"
  /\ Throws("failed")
  /\ UNCHANGED <<task, orphan, history, rounds, troubles, causes>>

Interrupt ==
  /\ run.phase \in {"streaming", "deferred", "waiting"} /\ ~run.interrupted
  /\ IF run.phase = "streaming"
     THEN /\ run' = [run EXCEPT !.interrupted = TRUE]
          /\ UNCHANGED <<reserved, engine>>
     ELSE Ends(run, "interrupted", reserved)
  /\ UNCHANGED <<task, orphan, history, rounds, troubles, causes>>

-----------------------------------------------------------------------------
(***************************************************************************)
(* What the run is told                                                    *)
(***************************************************************************)

\* A message that comes when the engine will not look again is left.
Late == IF engine.at = "completing" THEN causes \cup {"unread"} ELSE causes

\* enqueueInput while a stream runs.
Enqueue(i) ==
  /\ causes' = Late
  /\ run.phase = "streaming"
  /\ engine' = [engine EXCEPT !.steering = Append(@, i)]
  /\ run' = [run EXCEPT !.pendingInputs = Append(@, i)]

\* MUTANT of Wake: the input is kept and nobody woken.
WakeNobody(i, free) ==
  /\ run.phase = "waiting"
  /\ run' = [run EXCEPT !.waitingInputs = Append(@, i)]
  /\ UNCHANGED <<engine, causes>>

\* enqueueInput while the run waits: what the service has meanwhile to
\* deliver goes first, and the input is forwarded to that stream.
Wake(i, free) ==
  /\ run.phase = "waiting"
  /\ UNCHANGED causes
  /\ IF free # {}
     THEN StartStream([run EXCEPT !.initial = free, !.waitingInputs = <<i>>], free)
     ELSE StartStream([run EXCEPT !.initial = {i} \cap Tasks], {i})

\* A steer that wakes the run is reported as consumed there and then.
Steer(s) ==
  /\ s \notin sent
  /\ \/ Enqueue(s) /\ UNCHANGED consumed
     \/ Wake(s, {}) /\ consumed' = consumed \cup {s}
  /\ sent' = sent \cup {s}
  /\ UNCHANGED <<task, reserved, orphan, lost, seen, rounds, troubles>>

\* settle: the notification is created with the terminal status, published
\* to whoever waits, and offered to the run by the notifier.
Settle(t) ==
  /\ task[t] = "active"
  /\ task' = [task EXCEPT ![t] = "pending"]
  /\ \/ Enqueue(t) /\ reserved' = reserved \cup {t}
     \/ Wake(t, Free) /\ reserved' = reserved \cup Free \cup {t}
     \/ run.phase \notin {"streaming", "waiting"}
        /\ UNCHANGED <<run, engine, reserved, causes>>
  /\ UNCHANGED <<orphan, history, rounds, troubles>>

\* spawn_agent.
Spawn(t) ==
  /\ engine.at = "tools" \/ orphan.alive
  /\ task[t] = "absent"
  /\ task' = [task EXCEPT ![t] = "active"]
  /\ UNCHANGED <<reserved, run, engine, orphan, history, rounds, troubles, causes>>

-----------------------------------------------------------------------------
(***************************************************************************)
(* The engine                                                              *)
(***************************************************************************)

Aborted == run.interrupted
Goes(at) == engine' = [engine EXCEPT !.at = at]
Stops(why) == engine' = [engine EXCEPT !.at = "completing", !.stop = why]

\* The prompt is dropped with the stream; a steer may be in it.
DropsPrompt == lost' = lost \cup (engine.prompt \cap Steers)

\* beginRunTurn finds the signal aborted.
TurnInterrupted ==
  /\ engine.at = "turn" /\ Aborted
  /\ Stops("interrupted")
  /\ DropsPrompt
  /\ UNCHANGED <<task, reserved, run, orphan, consumed, sent, seen, rounds, troubles, causes>>

\* publishConsumedInputs: the first pending input is taken for the message
\* that the engine has drained.
Correlate ==
  LET i == Head(run.pendingInputs) IN
  /\ run' = [run EXCEPT !.pendingInputs = Tail(@)]
  /\ consumed' = consumed \cup ({i} \cap Steers)
  /\ task' = IF i \in Tasks THEN [task EXCEPT ![i] = "delivered"] ELSE task
  /\ reserved' = reserved \ {i}

\* beginRunTurn: the prompt and at most one steering message join the model's
\* messages, and the run is told how many.
BeginTurn ==
  /\ engine.at = "turn" /\ ~Aborted
  /\ seen' = seen \cup engine.prompt
                  \cup (IF engine.steering = <<>> THEN {} ELSE {Head(engine.steering)} \cap Inputs)
  /\ \/ /\ engine.steering = <<>>
        /\ engine' = [engine EXCEPT !.at = "input", !.prompt = {}]
        /\ UNCHANGED <<task, reserved, run, orphan, consumed>>
     \/ /\ engine.steering # <<>> /\ run.pendingInputs # <<>>
        /\ Correlate
        /\ engine' = [engine EXCEPT !.at = "input", !.prompt = {}, !.steering = Tail(@)]
        /\ UNCHANGED orphan
     \/ \* The run throws while the engine goes on.
        /\ engine.steering # <<>> /\ run.pendingInputs = <<>>
        /\ Throws("failed")
        /\ orphan' = [alive |-> TRUE, took |-> FALSE]
        /\ UNCHANGED <<task, consumed>>
  /\ UNCHANGED <<lost, sent, rounds, troubles, causes>>

\* buildModelInput: the system section takes the notifications there are.
BuildInput ==
  /\ engine.at = "input"
  /\ Goes("call")
  /\ LET taken == IF run.system = {} THEN Free ELSE {} IN
     /\ run' = [run EXCEPT !.system = @ \cup taken]
     /\ reserved' = reserved \cup taken
  /\ UNCHANGED <<task, orphan, history, rounds, troubles, causes>>

\* MUTANT of CallModel: what is to be told is acknowledged, called or not.
CallModelAcknowledging ==
  /\ engine.at = "call"
  /\ IF Aborted THEN Stops("interrupted") ELSE Goes("answer")
  /\ LET told == run.system \cup run.initial IN
     /\ task' = [t \in Tasks |-> IF t \in told THEN "delivered" ELSE task[t]]
     /\ reserved' = reserved \ told
     /\ run' = [run EXCEPT !.system = {}, !.initial = {}]
     /\ seen' = IF Aborted THEN seen ELSE seen \cup run.system
  /\ UNCHANGED <<orphan, consumed, lost, sent, rounds, troubles, causes>>

\* callModel up to model.started, where the run acknowledges what the request
\* holds.
CallModel ==
  /\ engine.at = "call"
  /\ IF Aborted
     THEN Stops("interrupted") /\ UNCHANGED <<task, reserved, run, seen>>
     ELSE LET told == run.system \cup run.initial IN
          /\ Goes("answer")
          /\ task' = [t \in Tasks |-> IF t \in told THEN "delivered" ELSE task[t]]
          /\ reserved' = reserved \ told
          /\ run' = [run EXCEPT !.system = {}, !.initial = {}]
          /\ seen' = seen \cup run.system
  /\ UNCHANGED <<orphan, consumed, lost, sent, rounds, troubles, causes>>

ToolCalls ==
  /\ engine.at = "answer"
  /\ Goes("tools")
  /\ UNCHANGED <<task, reserved, run, orphan, history, rounds, troubles, causes>>

\* MUTANT of EndTurn: a natural stop is found before the queued work.
EndTurnNaturally(how) ==
  LET turns == engine.turns + 1
      stop  == IF Aborted THEN "interrupted"
               ELSE IF how = "deferred" THEN "deferred"
               ELSE IF turns >= MaxTurns THEN "max-turns"
               ELSE IF how = "tools" THEN "none" ELSE "natural"
  IN engine' = [engine EXCEPT !.turns = turns, !.stop = stop,
                              !.at = IF stop = "none" THEN "turn" ELSE "completing"]

\* completeRunTurn and shouldStopRun.  The order of the tests is the code's.
EndTurn(how) ==
  LET turns == engine.turns + 1
      stop  == IF Aborted THEN "interrupted"
               ELSE IF how = "deferred" THEN "deferred"
               ELSE IF turns >= MaxTurns THEN "max-turns"
               ELSE IF engine.steering # <<>> \/ how = "tools" THEN "none"
               ELSE "natural"
  IN engine' = [engine EXCEPT !.turns = turns, !.stop = stop,
                              !.at = IF stop = "none" THEN "turn" ELSE "completing"]

Answer ==
  /\ \/ engine.at = "answer" /\ EndTurn("answer")
     \/ engine.at = "tools" /\ \E how \in {"tools", "deferred"} : EndTurn(how)
  /\ UNCHANGED <<task, reserved, run, orphan, history, rounds, troubles, causes>>

\* The answer exhausts its reasoning budget: the engine steers itself.
BudgetExceeded ==
  /\ engine.at = "answer" /\ ~Aborted
  /\ troubles < MaxTroubles
  /\ troubles' = troubles + 1
  /\ causes' = causes \cup {"budget"}
  /\ LET turns == engine.turns + 1 IN
     engine' = [engine EXCEPT !.steering = Append(@, Budget), !.turns = turns,
                  !.at   = IF turns >= MaxTurns THEN "completing" ELSE "turn",
                  !.stop = IF turns >= MaxTurns THEN "max-turns" ELSE "none"]
  /\ UNCHANGED <<task, reserved, run, orphan, history, rounds>>

\* Building the input, the call or a tool throws: failRunState.
EngineThrows ==
  /\ engine.at \in {"input", "call", "answer", "tools"}
  /\ Throws("failed")
  /\ UNCHANGED <<task, orphan, history, rounds, troubles, causes>>

\* An engine whose run has ended still builds inputs, and may end any time.
OrphanTakes ==
  /\ orphan.alive /\ ~orphan.took
  /\ orphan' = [orphan EXCEPT !.took = TRUE]
  /\ reserved' = reserved \cup Free
  /\ UNCHANGED <<task, run, engine, history, rounds, troubles, causes>>

OrphanEnds ==
  /\ orphan.alive
  /\ orphan' = NoOrphan
  /\ UNCHANGED <<task, reserved, run, engine, history, rounds, troubles, causes>>

-----------------------------------------------------------------------------
(***************************************************************************)
(* Outside of any run                                                      *)
(***************************************************************************)

\* thread/compact/start before the first run: an agent is built and its model
\* input too, and closed without the notifications the input has taken.
Compact ==
  /\ run.phase = "none" /\ Free # {}
  /\ reserved' = reserved \cup Free
  /\ causes' = causes \cup {"compact"}
  /\ UNCHANGED <<task, run, engine, orphan, history, rounds, troubles>>

\* The Server dies and another one starts.
Restart ==
  /\ troubles < MaxTroubles
  /\ troubles' = troubles + 1
  /\ task' = [t \in Tasks |-> IF task[t] = "active" THEN "pending" ELSE task[t]]
  /\ reserved' = {}
  /\ run' = Idle /\ engine' = Stopped /\ orphan' = NoOrphan
  /\ DropsPrompt
  /\ UNCHANGED <<consumed, sent, seen, rounds, causes>>

EngineStep ==
  \/ TurnInterrupted \/ BeginTurn \/ BuildInput \/ CallModel \/ ToolCalls
  \/ Answer \/ BudgetExceeded \/ EngineThrows
  \/ FinalInterrupted \/ FinalDeferred \/ FinalFailed \/ FinalContinues

Next ==
  \/ StartRun \/ Interrupt \/ ResolveDeferred \/ RejectDeferred
  \/ EngineStep
  \/ \E s \in Steers : Steer(s)
  \/ \E t \in Tasks : Spawn(t) \/ Settle(t)
  \/ OrphanTakes \/ OrphanEnds
  \/ Compact \/ Restart

\* A model answers or fails, and a task ends some time.  Nobody has to answer
\* an approval, to steer or to interrupt.
Fairness ==
  /\ WF_vars(EngineStep)
  /\ \A t \in Tasks : WF_vars(Settle(t))

Spec     == Init /\ [][Next]_vars
FairSpec == Spec /\ Fairness

-----------------------------------------------------------------------------
(***************************************************************************)
(* Properties                                                              *)
(***************************************************************************)

\* The type of every variable, for the run and the engine of run.ts:135.
TypeOK ==
  /\ task \in [Tasks -> {"absent", "active", "pending", "delivered"}]
  /\ reserved \subseteq Tasks
  /\ run.phase \in {"none", "streaming", "deferred", "waiting", "closed"}
  /\ run.interrupted \in BOOLEAN
  /\ run.pendingInputs \in Seq(Inputs) /\ run.waitingInputs = <<>>
  /\ run.initial \subseteq Tasks /\ run.system \subseteq Tasks
  /\ run.result \in {"none", "completed", "failed", "interrupted"}
  /\ engine.at \in {"idle", "turn", "input", "call", "answer", "tools", "completing"}
  /\ engine.at = "idle" <=> run.phase # "streaming"
  /\ engine.prompt \subseteq Inputs
  /\ engine.turns \in 0..MaxTurns
  /\ orphan.alive \in BOOLEAN
  /\ consumed \subseteq Steers /\ lost \subseteq Steers /\ sent \subseteq Steers
  /\ seen \subseteq Inputs
  /\ causes \subseteq {"unread", "budget", "compact"}

\* A notification is reserved exactly while the run holds it (task-service.ts
\* takeNotifications, release and acknowledge): none is held by a run that
\* has ended and none is held without a reservation, so each is delivered or
\* offered again.  Excepted are a compaction before the first run, which
\* never releases what it takes, and an engine that outlives its run.
ReservedIsHeld ==
  causes \cap {"compact", "budget"} = {} =>
    reserved = HeldBy(run) /\ reserved \subseteq Pending

\* The steering queue of the engine is the end of the run's pendingInputs
\* (run.ts:332, 378 and 605), so that no drain finds too few, unless the
\* engine has steered itself.
SteeringIsPending ==
  "budget" \notin causes =>
    LET n == Len(run.pendingInputs)
        k == Len(engine.steering)
    IN k <= n /\ engine.steering = SubSeq(run.pendingInputs, n - k + 1, n)

\* What is marked delivered is in the messages of a model
\* (docs/subagents/persistence-and-projection.md:149), and so is a steer that
\* is reported consumed, but for one that has woken a waiting run: it is
\* reported at once (run.ts:275), in the prompt of a stream that has not had
\* its first turn, and no model reads it if the run is interrupted or the
\* Server dies before that (lost).  Both unless a stream has ended with
\* steering messages unread or the engine has steered itself.
DeliveredWasSeen ==
  causes \cap {"unread", "budget"} = {} =>
    /\ {t \in Tasks : task[t] = "delivered"} \subseteq seen
    /\ consumed \subseteq seen \cup engine.prompt \cup lost

\* A run that completes has told its model of every task it could: none is
\* active or undelivered, and no steer it has accepted is unread
\* (run.ts waitForContinuation), with the exceptions above.
CompletesInformed ==
  [][ run'.result = "completed" /\ run'.result # run.result /\ causes' = {} =>
        /\ \A t \in Tasks : task'[t] \in {"absent", "delivered"}
        /\ run.pendingInputs = <<>> ]_vars

\* A notification that is there while a run streams or waits is delivered
\* (task-service.ts notify and waitForNotification, run.ts waitForContinuation),
\* unless the run fails, is interrupted or asks for an approval first.
PendingIsDelivered ==
  \A t \in Tasks :
    (task[t] = "pending" /\ run.phase \in {"streaming", "waiting"}) ~>
      (\/ task[t] = "delivered" \/ causes # {}
       \/ run.phase \in {"none", "deferred"} \/ run.result \in {"failed", "interrupted"})

=============================================================================
