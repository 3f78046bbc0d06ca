----------------------------- MODULE CommandRun ------------------------------
(***************************************************************************)
(* One Command Run (features/command/runtime.ts): a batch of Command       *)
(* Frames, grouped by step into phases.  A phase is prepared as a whole    *)
(* before any of its Commands starts, then runs in waves: the Commands     *)
(* that are safe to run concurrently share a wave, any other has one of    *)
(* its own.  A failed or denied Command raises a barrier for the later     *)
(* steps, approvals and deferred Commands suspend the run into a           *)
(* checkpoint, and an abort blocks what has not started.                   *)
(*                                                                         *)
(* A step of the model is the code between two awaits that other code can  *)
(* observe.  Emitting an event only queues it, so the records written in a *)
(* loop of emits are written in one step: the signal, which is all that    *)
(* could change meanwhile, is read again after the loop.                   *)
(*                                                                         *)
(* Frames are their index in the batch, starting at 1, and steps are       *)
(* their rank: phase p holds the frames whose step is p.                   *)
(***************************************************************************)
EXTENDS Integers, FiniteSets

CONSTANTS
  N,             \* how many Frames the batch has
  Policies       \* the onFailure values the batch may use

ASSUME NAssumption == N \in Nat \ {0}
ASSUME PoliciesAssumption == Policies \subseteq {"stop", "continue", "diagnose"}

Frames == 1..N

\* Who may block a Frame: a Frame, the interruption of the run as a whole
\* ('command-run-interrupted') or blockerFor's fallback.
Nobody   == 0
TheRun   == N + 1
Fallback == N + 2
Blockers == 0..(N + 2)

VARIABLES
  batch,         \* state.frames: step, onFailure and deferred of each Frame
  pc,            \* where executeState stands, or how the transition ended
  cursor,        \* state.phaseCursor
  answer,        \* status of the latest record of each Frame
  records,       \* how many records state.results holds of each Frame
  blockedBy,     \* blockedBy of the latest blocked record
  approved,      \* the Frames state.approvals holds an approval of
  barrier,       \* state.barrier: the Frame it names
  interruptedBy, \* state.interruptedBy
  aborted,       \* context.signal.aborted
  prep,          \* what prepareCommand found of each Frame of the phase
  safe,          \* capabilities.concurrencySafe as it found it
  todo,          \* the Frames of the waves not yet started
  wave,          \* the Frames of the current wave
  executing,     \* the Frames whose operation has been called
  executions,    \* how often each operation has been called
  pending        \* checkpoint.pendingCommandIds of a suspended run

frameVars == <<answer, records, blockedBy>>
waveVars  == <<todo, wave, executing, executions>>
vars == <<batch, pc, cursor, frameVars, approved, barrier, interruptedBy,
          aborted, prep, safe, waveVars, pending>>

Statuses == {"none", "completed", "failed", "denied", "blocked", "interrupted"}
Preparations ==
  {"none", "pending", "failed", "interrupted", "disabled", "denied",
   "required", "auto"}

Unprepared == [f \in Frames |-> "none"]

\* Steps do not decrease along the batch (schema.ts:96).
Batches ==
  [step : {s \in [Frames -> Frames] :
             /\ s[1] = 1
             /\ \A f \in Frames \ {N} : s[f + 1] \in {s[f], s[f] + 1}},
   onFailure : [Frames -> Policies],
   deferred : SUBSET Frames]

Init ==
  /\ batch \in Batches
  /\ pc = "phase" /\ cursor = 1
  /\ answer = [f \in Frames |-> "none"]
  /\ records = [f \in Frames |-> 0]
  /\ blockedBy = [f \in Frames |-> Nobody]
  /\ approved = {}
  /\ barrier = Nobody /\ interruptedBy = Nobody
  /\ aborted = FALSE
  /\ prep = Unprepared
  /\ safe = [f \in Frames |-> FALSE]
  /\ todo = {} /\ wave = {} /\ executing = {}
  /\ executions = [f \in Frames |-> 0]
  /\ pending = {}

-----------------------------------------------------------------------------
(***************************************************************************)
(* Helpers                                                                 *)
(***************************************************************************)

Phase(p) == {f \in Frames : batch.step[f] = p}
Phases   == {batch.step[f] : f \in Frames}

\* remaining: the Frames of the current phase without a record.
Unanswered == {f \in Phase(cursor) : answer[f] = "none"}

\* The first of a set of Frames in batch order.
First(S) == CHOOSE f \in S : \A g \in S : f <= g

\* The Frames of phase p whose record raises a barrier.
Stopping(p, ans) ==
  {f \in Phase(p) : \/ ans[f] = "denied"
                    \/ ans[f] = "failed" /\ batch.onFailure[f] # "continue"}

\* phaseBarrierFor: the barrier once phase p is over.
BarrierAfter(p) ==
  IF barrier # Nobody \/ interruptedBy # Nobody \/ Stopping(p, answer) = {}
  THEN barrier
  ELSE First(Stopping(p, answer))

\* blockerFor.
Blocker(interrupter) ==
  IF interrupter # Nobody THEN interrupter
  ELSE IF barrier # Nobody THEN barrier ELSE Fallback

\* Push one record for each Frame of new's domain, with its status there; a
\* blocked one names by.
Record(new, by) ==
  /\ answer' = [f \in Frames |-> IF f \in DOMAIN new THEN new[f] ELSE answer[f]]
  /\ records' = [f \in Frames |->
                   IF f \in DOMAIN new THEN records[f] + 1 ELSE records[f]]
  /\ blockedBy' = [f \in Frames |->
                     IF f \in DOMAIN new /\ new[f] = "blocked" THEN by
                                                              ELSE blockedBy[f]]

Block(S, by) == Record([f \in S |-> "blocked"], by)

\* The locals of one turn of the loop go out of scope.
Forget == prep' = Unprepared /\ safe' = [f \in Frames |-> FALSE]

NextPhase == cursor' = cursor + 1 /\ pc' = "phase" /\ Forget

\* isSafeDiagnostic: concurrencySafe already implies readOnly and not
\* destructive (catalog.ts:482).
SafeDiagnostic(f) ==
  batch.onFailure[f] = "diagnose" /\ safe[f] /\ f \notin batch.deferred

\* createCommandWaves, one wave at a time: the next wave of S.
NextWave(S) ==
  IF safe[First(S)] THEN {f \in S : \A g \in S : g <= f => safe[g]}
                    ELSE {First(S)}

-----------------------------------------------------------------------------
(***************************************************************************)
(* Entering a phase                                                        *)
(***************************************************************************)

\* Everything in the phase is answered, as after a resume that denied the
\* last of it.
SkipPhase ==
  /\ pc = "phase" /\ cursor \in Phases /\ Unanswered = {}
  /\ barrier' = BarrierAfter(cursor)
  /\ NextPhase
  /\ UNCHANGED <<batch, frameVars, approved, interruptedBy, aborted, waveVars, pending>>

\* MUTANT of BlockPhase: the Frames with a record are blocked again.
BlockPhaseAgain ==
  /\ pc = "phase" /\ cursor \in Phases /\ Unanswered # {}
  /\ aborted \/ interruptedBy # Nobody
  /\ interruptedBy' = IF interruptedBy = Nobody THEN TheRun ELSE interruptedBy
  /\ Block(Phase(cursor), Blocker(interruptedBy'))
  /\ NextPhase
  /\ UNCHANGED <<batch, approved, barrier, aborted, waveVars, pending>>

\* MUTANT of BlockPhase: the Frames are blocked before interruptedBy is set.
BlockPhaseEarly ==
  /\ pc = "phase" /\ cursor \in Phases /\ Unanswered # {}
  /\ aborted \/ interruptedBy # Nobody
  /\ Block(Unanswered, Blocker(interruptedBy))
  /\ interruptedBy' = IF interruptedBy = Nobody THEN TheRun ELSE interruptedBy
  /\ NextPhase
  /\ UNCHANGED <<batch, approved, barrier, aborted, waveVars, pending>>

\* The run is interrupted: the whole phase is blocked.
BlockPhase ==
  /\ pc = "phase" /\ cursor \in Phases /\ Unanswered # {}
  /\ aborted \/ interruptedBy # Nobody
  /\ interruptedBy' = IF interruptedBy = Nobody THEN TheRun ELSE interruptedBy
  /\ Block(Unanswered, Blocker(interruptedBy'))
  /\ NextPhase
  /\ UNCHANGED <<batch, approved, barrier, aborted, waveVars, pending>>

\* Behind a barrier all but the diagnostic Frames are blocked; the others are
\* prepared together.
PreparePhase ==
  /\ pc = "phase" /\ cursor \in Phases /\ Unanswered # {}
  /\ ~aborted /\ interruptedBy = Nobody
  /\ LET behind == {f \in Unanswered :
                      barrier # Nobody /\ batch.onFailure[f] # "diagnose"}
     IN  /\ Block(behind, Blocker(interruptedBy))
         /\ prep' = [f \in Frames |-> IF f \in Unanswered \ behind
                                      THEN "pending" ELSE "none"]
  /\ safe' = [f \in Frames |-> FALSE]
  /\ pc' = "preparing"
  /\ UNCHANGED <<batch, cursor, approved, barrier, interruptedBy, aborted,
                 waveVars, pending>>

\* prepareCommand returns the Command, with the effects and the approval it
\* declares now; a Frame the user approved is not asked about again.
Prepare(f) ==
  /\ pc = "preparing" /\ prep[f] = "pending"
  /\ \E found \in {"disabled", "denied", "required", "auto"}, s \in BOOLEAN :
       /\ f \in approved => found \in {"disabled", "auto"}
       /\ prep' = [prep EXCEPT ![f] = found]
       /\ safe' = [safe EXCEPT ![f] = s]
  /\ UNCHANGED <<batch, pc, cursor, frameVars, approved, barrier, interruptedBy,
                 aborted, waveVars, pending>>

\* prepareCommand throws, or the signal ends its wait for the gate.
PrepareFails(f) ==
  /\ pc = "preparing" /\ prep[f] = "pending"
  /\ prep' = [prep EXCEPT ![f] = IF aborted THEN "interrupted" ELSE "failed"]
  /\ UNCHANGED <<batch, pc, cursor, frameVars, approved, barrier, interruptedBy,
                 aborted, safe, waveVars, pending>>

-----------------------------------------------------------------------------
(***************************************************************************)
(* Settling the preparation                                                *)
(***************************************************************************)

Prepared == pc = "preparing" /\ \A f \in Frames : prep[f] # "pending"

Found(results) == {f \in Frames : prep[f] \in results}

\* Interrupted meanwhile: failures are recorded, the rest is blocked.
InterruptPreparation ==
  /\ Prepared
  /\ aborted \/ Found({"interrupted"}) # {}
  /\ interruptedBy' = IF Found({"interrupted"}) # {}
                      THEN First(Found({"interrupted"})) ELSE TheRun
  /\ Record([f \in Unanswered |-> IF prep[f] \in {"failed", "interrupted"}
                                  THEN prep[f] ELSE "blocked"],
            Blocker(interruptedBy'))
  /\ NextPhase
  /\ UNCHANGED <<batch, approved, barrier, aborted, waveVars, pending>>

\* Prepared diagnostics that turn out not to be safe behind the barrier.
UnsafeDiagnostics ==
  {f \in Found({"disabled", "denied", "required", "auto"}) :
     barrier # Nobody /\ ~SafeDiagnostic(f)}

\* The Frames that are neither failed, blocked, disabled nor denied.
ToRun == Found({"required", "auto"}) \ UnsafeDiagnostics

\* MUTANT of AwaitingApproval: the run is suspended only if the whole phase
\* needs approval.
AwaitingApprovalOfAll == IF ToRun \subseteq Found({"required"}) THEN ToRun ELSE {}

AwaitingApproval == {f \in ToRun : prep[f] = "required"}

\* Record every Frame that will not run.
SettlePreparation ==
  /\ Prepared /\ ~aborted /\ Found({"interrupted"}) = {}
  /\ Record([f \in Found(Preparations \ {"none"}) \ ToRun |->
               IF f \in UnsafeDiagnostics THEN "blocked"
               ELSE IF prep[f] = "denied" THEN "denied" ELSE "failed"],
            Blocker(interruptedBy))
  /\ UNCHANGED <<batch, cursor, approved, barrier, interruptedBy, aborted, wave,
                 executing, executions>>

\* Any approval holds back the whole phase.
SuspendForApprovals ==
  /\ SettlePreparation
  /\ AwaitingApproval # {}
  /\ pending' = AwaitingApproval
  /\ pc' = "approval" /\ Forget
  /\ UNCHANGED todo

\* So does a deferred Command, the first of the phase.
SuspendForDeferred ==
  /\ SettlePreparation
  /\ AwaitingApproval = {} /\ ToRun \cap batch.deferred # {}
  /\ pending' = {First(ToRun \cap batch.deferred)}
  /\ pc' = "deferred" /\ Forget
  /\ UNCHANGED todo

StartWaves ==
  /\ SettlePreparation
  /\ AwaitingApproval = {} /\ ToRun \cap batch.deferred = {}
  /\ todo' = ToRun
  /\ pc' = "waves"
  /\ prep' = [f \in Frames |-> IF f \in ToRun THEN prep[f] ELSE "none"]
  /\ UNCHANGED <<safe, pending>>

-----------------------------------------------------------------------------
(***************************************************************************)
(* Waves                                                                   *)
(***************************************************************************)

BetweenWaves == pc = "waves" /\ wave = {}

StartWave ==
  /\ BetweenWaves /\ todo # {}
  /\ ~aborted /\ interruptedBy = Nobody
  /\ wave' = NextWave(todo)
  /\ todo' = todo \ wave'
  /\ UNCHANGED <<batch, pc, cursor, frameVars, approved, barrier, interruptedBy,
                 aborted, prep, safe, executing, executions, pending>>

\* The run was interrupted in the wave before this one.
BlockWave ==
  /\ BetweenWaves /\ todo # {}
  /\ aborted \/ interruptedBy # Nobody
  /\ interruptedBy' = IF interruptedBy = Nobody THEN TheRun ELSE interruptedBy
  /\ Block(NextWave(todo), Blocker(interruptedBy'))
  /\ todo' = todo \ NextWave(todo)
  /\ UNCHANGED <<batch, pc, cursor, approved, barrier, aborted, prep, safe, wave,
                 executing, executions, pending>>

Waiting(f) == pc = "waves" /\ f \in wave /\ f \notin executing /\ answer[f] = "none"

\* runGated gets past the gate and the signal, and calls the operation.
Execute(f) ==
  /\ Waiting(f) /\ ~aborted
  /\ executing' = executing \union {f}
  /\ executions' = [executions EXCEPT ![f] = @ + 1]
  /\ UNCHANGED <<batch, pc, cursor, frameVars, approved, barrier, interruptedBy,
                 aborted, prep, safe, todo, wave, pending>>

\* The signal ends the wait for the gate.
CancelWait(f) ==
  /\ Waiting(f) /\ aborted
  /\ Record([g \in {f} |-> "interrupted"], Nobody)
  /\ UNCHANGED <<batch, pc, cursor, approved, barrier, interruptedBy, aborted,
                 prep, safe, waveVars, pending>>

\* The operation returns (a shell exit code other than 0 is a failure,
\* whatever the signal) or throws.
Finish(f) ==
  /\ pc = "waves" /\ f \in executing
  /\ executing' = executing \ {f}
  /\ \E status \in {"completed", "failed", "interrupted"} :
       /\ status = "interrupted" => aborted
       /\ Record([g \in {f} |-> status], Nobody)
  /\ UNCHANGED <<batch, pc, cursor, approved, barrier, interruptedBy, aborted,
                 prep, safe, todo, wave, executions, pending>>

\* Promise.all over the wave: the first interrupted Command, or the signal,
\* interrupts the run.
EndWave ==
  /\ pc = "waves" /\ wave # {}
  /\ \A f \in wave : answer[f] # "none"
  /\ LET cut == {f \in wave : answer[f] = "interrupted"}
     IN  interruptedBy' = IF cut # {} THEN First(cut)
                          ELSE IF aborted THEN TheRun ELSE interruptedBy
  /\ wave' = {}
  /\ UNCHANGED <<batch, pc, cursor, frameVars, approved, barrier, aborted, prep,
                 safe, todo, executing, executions, pending>>

\* The phase is over: block what an interruption left, or commit the barrier.
EndPhase ==
  /\ BetweenWaves /\ todo = {}
  /\ IF interruptedBy # Nobody
     THEN Block(Unanswered, Blocker(interruptedBy)) /\ UNCHANGED barrier
     ELSE barrier' = BarrierAfter(cursor) /\ UNCHANGED frameVars
  /\ NextPhase
  /\ UNCHANGED <<batch, approved, interruptedBy, aborted, waveVars,
                 pending>>

\* The cursor is past the last phase: resultFor, and the transition is
\* 'completed'.
Complete ==
  /\ pc = "phase" /\ cursor \notin Phases
  /\ pc' = "completed"
  /\ UNCHANGED <<batch, cursor, frameVars, approved, barrier, interruptedBy,
                 aborted, prep, safe, waveVars, pending>>

-----------------------------------------------------------------------------
(***************************************************************************)
(* Resuming from a checkpoint                                              *)
(***************************************************************************)

\* legacyCheckpointBarrier: the barrier the phases before the cursor commit.
RecomputedBarrier ==
  LET stops == {f \in Frames : \E p \in 1..(cursor - 1) : f \in Stopping(p, answer)}
  IN  IF stops = {} THEN Nobody ELSE First(stops)

\* restoreState: what the checkpoint does not carry starts anew, under the
\* fresh signal of the resuming context.
Restore ==
  /\ barrier' = IF barrier # Nobody THEN barrier ELSE RecomputedBarrier
  /\ interruptedBy' = Nobody
  /\ aborted' = FALSE
  /\ pending' = {}
  /\ pc' = "phase"
  /\ UNCHANGED <<batch, prep, safe, waveVars>>

\* The user decides on every pending approval.
ResumeApprovals ==
  /\ pc = "approval"
  /\ \E granted \in SUBSET pending :
       /\ approved' = approved \union granted
       /\ Record([f \in pending \ granted |-> "denied"], Nobody)
  /\ Restore
  /\ UNCHANGED cursor

\* The host answers a deferred Command: the rest of the batch is blocked by
\* it and no phase is left to run.
ResumeDeferred ==
  /\ pc = "deferred"
  /\ \E d \in pending :
       Record([f \in d..N |-> IF f = d THEN "completed" ELSE "blocked"], d)
  /\ Restore
  /\ cursor' = N + 1
  /\ UNCHANGED approved

\* validateCheckpoint or applyResumeDecisions throws: the Command Catalog
\* changed, or a decision or the deferred result is missing.
RejectResume ==
  /\ pc \in {"approval", "deferred"}
  /\ pc' = "rejected"
  /\ UNCHANGED <<batch, cursor, frameVars, approved, barrier, interruptedBy,
                 aborted, prep, safe, waveVars, pending>>

\* The signal of the Command Run fires.
Abort ==
  /\ pc \in {"phase", "preparing", "waves"} /\ ~aborted
  /\ aborted' = TRUE
  /\ UNCHANGED <<batch, pc, cursor, frameVars, approved, barrier, interruptedBy,
                 prep, safe, waveVars, pending>>

\* The transition has been returned, or resume has thrown.
Ended == pc \in {"completed", "rejected"} /\ UNCHANGED vars

\* What executeState does once started, with the Commands it waits for.
RunStep ==
  \/ SkipPhase \/ BlockPhase \/ PreparePhase
  \/ InterruptPreparation
  \/ SuspendForApprovals \/ SuspendForDeferred
  \/ StartWaves \/ StartWave \/ BlockWave \/ EndWave \/ EndPhase
  \/ Complete
  \/ \E f \in Frames :
       Prepare(f) \/ PrepareFails(f) \/ Execute(f) \/ CancelWait(f) \/ Finish(f)

Next ==
  \/ RunStep
  \/ ResumeApprovals \/ ResumeDeferred \/ RejectResume
  \/ Abort
  \/ Ended

Spec == Init /\ [][Next]_vars

\* A Command settles and a granted gate resumes its caller; nobody has to
\* answer an approval or fire the signal.
FairSpec == Spec /\ WF_vars(RunStep)

-----------------------------------------------------------------------------
(***************************************************************************)
(* Properties                                                              *)
(***************************************************************************)

TypeOK ==
  /\ batch \in Batches
  /\ pc \in {"phase", "preparing", "waves", "approval", "deferred", "completed",
             "rejected"}
  /\ cursor \in 1..(N + 1)
  /\ answer \in [Frames -> Statuses]
  /\ records \in [Frames -> Nat]
  /\ blockedBy \in [Frames -> Blockers]
  /\ approved \subseteq Frames
  /\ barrier \in Frames \union {Nobody}
  /\ interruptedBy \in Frames \union {Nobody, TheRun}
  /\ aborted \in BOOLEAN
  /\ prep \in [Frames -> Preparations]
  /\ safe \in [Frames -> BOOLEAN]
  /\ todo \subseteq Frames /\ wave \subseteq Frames /\ executing \subseteq Frames
  /\ executions \in [Frames -> Nat]
  /\ pending \subseteq Frames

Suspended == pc \in {"approval", "deferred"}

\* The host's answer to d cut the batch off, and f stands behind d in the
\* same step.
CutBehind(d, f) ==
  d \in batch.deferred /\ answer[d] = "completed" /\ batch.step[d] = batch.step[f]

\* No Command is executed twice and none is recorded twice, over every number
\* of suspensions: preparing a phase again does not replay what it answered.
\* The exception is a Frame behind a deferred one in its step: the host's
\* answer records it blocked whether it has a record or not.
OneRecordEach ==
  \A f \in Frames :
    /\ executions[f] <= 1
    /\ records[f] > 1 => \E d \in 1..(f - 1) : CutBehind(d, f)

\* A Command runs only when every lower step is settled, and behind a failed
\* or denied Command of a lower step only if it is a safe diagnostic.  This
\* is read off the records, not off state.barrier.
PhaseOrder ==
  \A f \in executing, g \in Frames :
    batch.step[g] < batch.step[f] =>
      /\ answer[g] \notin {"none", "interrupted"}
      /\ g \in Stopping(batch.step[g], answer) => SafeDiagnostic(f)

\* While a decision is pending nothing of its step or a later one has run; a
\* Command that needs an approval runs only with it, and a denied one never.
NothingRunsBeforeDecision ==
  \A f \in Frames :
    /\ Suspended /\ batch.step[f] >= cursor => executions[f] = 0
    /\ answer[f] = "denied" => executions[f] = 0
    /\ f \in executing => prep[f] # "required"

\* Every blocked Frame names what blocked it: the interruption, the failed or
\* denied Frame of a lower step, or the deferred Frame ahead of it.  So
\* blockerFor's fallback is never used.
BlockedByCause ==
  \A f \in Frames : answer[f] = "blocked" =>
    \/ blockedBy[f] = TheRun /\ interruptedBy = TheRun
    \/ LET b == blockedBy[f]
       IN  /\ b \in Frames \ {f}
           /\ \/ answer[b] = "interrupted" /\ interruptedBy = b
              \/ batch.step[b] < batch.step[f] /\ b \in Stopping(batch.step[b], answer)
              \/ b < f /\ b \in batch.deferred /\ answer[b] = "completed"

\* A completed run answered every Frame, but for those ahead of a deferred
\* Frame in its step (see EveryFrameAnswered).
AnswersComplete ==
  pc = "completed" =>
    \A f \in Frames :
      answer[f] # "none" \/ \E d \in (f + 1)..N : CutBehind(d, f)

\* A checkpoint loses nothing: what it does not carry (interruptedBy and the
\* waves) is empty, and the barrier restoreState recomputes for a checkpoint
\* without one is no barrier.
CheckpointComplete ==
  Suspended =>
    /\ interruptedBy = Nobody
    /\ todo = {} /\ wave = {} /\ executing = {}
    /\ barrier = Nobody => RecomputedBarrier = Nobody

\* A run that goes on reaches an end or a suspension.
Settles ==
  pc \in {"phase", "preparing", "waves"} ~> pc \notin {"phase", "preparing", "waves"}

(***************************************************************************)
(* What the documentation says and the code does not do                    *)
(***************************************************************************)

\* A Frame that was not executed is recorded blocked
\* (docs/tools/tool-scheduler.md:62), and the Frames of one step are all
\* attempted (schema.ts:48).
EveryFrameAnswered ==
  pc = "completed" => \A f \in Frames : answer[f] # "none"
=============================================================================
