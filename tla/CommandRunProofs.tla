--------------------------- MODULE CommandRunProofs ----------------------------
(***************************************************************************)
(* Proofs about CommandRun, for a batch of any length and any policies.    *)
(*                                                                         *)
(* What a step records is right because of where the run stands: a Frame   *)
(* of a lower step has its record, one of a higher step has none, and one  *)
(* of the step at work has none exactly if it is being prepared, waits for *)
(* its wave or is in it.  The invariant says that of every Frame, with     *)
(* what the barrier, the interruption and a blocked record rest on.  Only  *)
(* a deferred Command that the host answers breaks this order: it ends the *)
(* batch, so that no phase is left to suffer from it.                      *)
(***************************************************************************)
EXTENDS CommandRun, WellFoundedInduction, TLAPS

\* Where the Commands of the phase are: prepared once each, then waiting for
\* their wave, then in it; and nothing of a phase is left when it is over.
WorkInPhase ==
  /\ pc \in {"preparing", "waves", "approval", "deferred"} => cursor \in Phases
  /\ pc = "completed" => cursor \notin Phases
  /\ pc # "waves" => todo = {} /\ wave = {} /\ executing = {}
  /\ pc = "preparing" => \A f \in Frames : prep[f] # "none" <=> f \in Unanswered
  /\ todo \subseteq Unanswered /\ wave \subseteq Phase(cursor) /\ todo \cap wave = {}
  /\ executing \subseteq wave \cap Unanswered
  /\ pc = "waves" => Unanswered \subseteq todo \cup wave
  /\ \A f \in todo \cup wave :
       /\ prep[f] = "auto" /\ f \notin batch.deferred
       /\ barrier # Nobody => SafeDiagnostic(f)
  /\ pc = "approval" => pending \subseteq Unanswered
  /\ pc = "deferred" => pending \subseteq Unanswered \cap batch.deferred

\* Who interrupted the run, and that it is not interrupted where it must not be.
InterruptionKnown ==
  /\ pc \in {"preparing", "approval", "deferred"} \/ wave # {} => interruptedBy = Nobody
  /\ interruptedBy \in Frames => answer[interruptedBy] = "interrupted"
  /\ interruptedBy = Nobody => \A f \in Frames : answer[f] = "interrupted" => f \in wave

\* What has been recorded and executed of the steps before, at and after the
\* cursor.
RecordOf(f) ==
  /\ answer[f] = "none" <=> records[f] = 0
  /\ batch.step[f] > cursor => answer[f] = "none" /\ executions[f] = 0
  /\ batch.step[f] = cursor /\ pc # "waves" => executions[f] = 0
  /\ batch.step[f] < cursor => answer[f] # "none" \/ \E d \in (f + 1)..N : CutBehind(d, f)
  /\ executions[f] <= 1
  /\ executions[f] > 0 => answer[f] # "none" \/ f \in executing
  /\ answer[f] = "denied" => executions[f] = 0
  /\ records[f] > 1 => \E d \in 1..(f - 1) : CutBehind(d, f)
  /\ f \in batch.deferred /\ answer[f] = "completed" => cursor = N + 1

RecordsInOrder == \A f \in Frames : RecordOf(f)

\* The Frame has a record that raises a barrier.
Stops(f) == \/ answer[f] = "denied"
            \/ answer[f] = "failed" /\ batch.onFailure[f] # "continue"

\* The barrier is raised by a Frame of a lower step that stops, and by every one.
BarrierStands == barrier # Nobody => batch.step[barrier] < cursor /\ Stops(barrier)
BarrierRaised ==
  cursor \in Phases /\ interruptedBy = Nobody =>
    \A f \in Frames : batch.step[f] < cursor /\ Stops(f) => barrier # Nobody

\* What b has to be to block f.
Cause(b, f) ==
  \/ b = TheRun /\ interruptedBy = TheRun
  \/ /\ b \in Frames \ {f}
     /\ \/ answer[b] = "interrupted" /\ interruptedBy = b
        \/ batch.step[b] < batch.step[f] /\ Stops(b)
        \/ b < f /\ b \in batch.deferred /\ answer[b] = "completed"

\* Every blocked Frame has a cause.
BlockedHasCause == \A f \in Frames : answer[f] = "blocked" => Cause(blockedBy[f], f)

\* The inductive invariant.
IInv ==
  /\ TypeOK /\ WorkInPhase /\ InterruptionKnown /\ RecordsInOrder
  /\ BarrierStands /\ BarrierRaised /\ BlockedHasCause

-----------------------------------------------------------------------------
(***************************************************************************)
(* Batches: the least Frame of a set, steps along the batch                *)
(***************************************************************************)

\* A nonempty set of Frames has a first one, and First is it.
LEMMA FirstSpec ==
  ASSUME NEW S \in SUBSET Frames, S # {}
  PROVE  First(S) \in S /\ \A g \in S : First(S) <= g
<1> DEFINE R == {p \in Nat \X Nat : p[1] < p[2]}
<1>1. IsWellFoundedOn(R, Nat)
  BY NatLessThanWellFounded DEF OpToRel
<1>2. S \subseteq Nat
  BY NAssumption DEF Frames
<1>3. \E x \in S : \A y \in S : ~(<<y, x>> \in R)
  <2> HIDE DEF R
  <2> QED BY <1>1, <1>2, WFMin
<1>4. PICK x \in S : \A y \in S : ~(<<y, x>> \in R)
  BY <1>3
<1>5. ASSUME NEW y \in S PROVE x <= y
  <2>1. x \in Nat /\ y \in Nat /\ ~(<<y, x>> \in R)
    BY <1>2, <1>4
  <2>2. y < x => <<y, x>> \in R
    <3> DEFINE p == <<y, x>>
    <3>1. p \in Nat \X Nat /\ p[1] = y /\ p[2] = x
      BY <2>1
    <3> QED BY <3>1
  <2> QED BY <2>1, <2>2
<1> QED BY <1>5 DEF First

\* Steps do not decrease along the batch.
LEMMA StepsMonotone ==
  ASSUME batch \in Batches, NEW f \in Frames, NEW g \in Frames, f <= g
  PROVE  batch.step[f] <= batch.step[g]
<1> DEFINE S == {h \in Frames : f <= h /\ batch.step[h] < batch.step[f]}
<1>1. batch.step \in [Frames -> Frames]
      /\ \A h \in Frames \ {N} : batch.step[h + 1] \in {batch.step[h], batch.step[h] + 1}
  BY DEF Batches
<1>0. \A h \in Frames : batch.step[h] \in Nat
  BY <1>1, NAssumption DEF Frames
<1>2. S = {}
  <2> SUFFICES ASSUME S # {} PROVE FALSE
    OBVIOUS
  <2>1. First(S) \in S /\ \A h \in S : First(S) <= h
    <3> S \in SUBSET Frames
      OBVIOUS
    <3> HIDE DEF S
    <3> QED BY FirstSpec
  <2>2. PICK h \in Frames : h \in S /\ \A g2 \in S : h <= g2
    BY <2>1
  <2>3. f <= h /\ batch.step[h] < batch.step[f]
    BY <2>2
  <2>4. f # h /\ batch.step[f] \in Nat /\ batch.step[h] \in Nat
    BY <1>0, <2>3
  <2>5. PICK k \in Frames \ {N} : k + 1 = h /\ f <= k /\ k < h
    <3>1. h - 1 \in Frames \ {N} /\ (h - 1) + 1 = h /\ f <= h - 1 /\ h - 1 < h
      BY <2>3, <2>4, NAssumption DEF Frames
    <3> QED BY <3>1
  <2>6. batch.step[k] <= batch.step[h] /\ batch.step[k] \in Nat
    <3>1. batch.step[k + 1] \in {batch.step[k], batch.step[k] + 1} /\ batch.step[k] \in 1..N
      BY <1>1, <2>5 DEF Frames
    <3> QED BY <2>4, <2>5, <3>1, NAssumption
  <2>7. batch.step[k] < batch.step[f]
    BY <2>3, <2>4, <2>6
  <2>8. k \in S
    BY <2>5, <2>7
  <2>9. h <= k
    BY <2>2, <2>8
  <2> QED BY <2>5, <2>9, NAssumption DEF Frames
<1> QED BY <1>0, <1>2, NAssumption

\* Steps leave no gap: a step that no Frame has is past the last one.
LEMMA PhasesContiguous ==
  ASSUME batch \in Batches, NEW p \in 1..(N + 1), p \notin Phases, NEW f \in Frames
  PROVE  batch.step[f] < p
<1> DEFINE S == {h \in Frames : batch.step[h] >= p}
<1>1. batch.step \in [Frames -> Frames] /\ batch.step[1] = 1
      /\ \A h \in Frames \ {N} : batch.step[h + 1] \in {batch.step[h], batch.step[h] + 1}
  BY DEF Batches
<1>0. \A h \in Frames : batch.step[h] \in Nat
  BY <1>1, NAssumption DEF Frames
<1>2. S = {}
  <2> SUFFICES ASSUME S # {} PROVE FALSE
    OBVIOUS
  <2>1. First(S) \in S /\ \A h \in S : First(S) <= h
    <3> S \in SUBSET Frames
      OBVIOUS
    <3> HIDE DEF S
    <3> QED BY FirstSpec
  <2>2. PICK h \in Frames : h \in S /\ \A g2 \in S : h <= g2
    BY <2>1
  <2>3. batch.step[h] >= p /\ batch.step[h] # p /\ batch.step[h] \in Nat
    BY <1>0, <2>2 DEF Phases
  <2>4. h # 1
    BY <1>1, <2>3, NAssumption
  <2>5. PICK k \in Frames \ {N} : k + 1 = h /\ k < h
    <3>1. h - 1 \in Frames \ {N} /\ (h - 1) + 1 = h /\ h - 1 < h
      BY <2>4, NAssumption DEF Frames
    <3> QED BY <3>1
  <2>6. batch.step[k] >= p
    <3>1. batch.step[k + 1] \in {batch.step[k], batch.step[k] + 1} /\ batch.step[k] \in 1..N
      BY <1>1, <2>5 DEF Frames
    <3> QED BY <2>3, <2>5, <3>1, NAssumption
  <2>7. k \in S
    BY <2>5, <2>6
  <2>8. h <= k
    BY <2>2, <2>7
  <2> QED BY <2>5, <2>8, NAssumption DEF Frames
<1> QED BY <1>0, <1>2, NAssumption

\* A wave is taken from the Frames that are left.
LEMMA NextWaveSpec ==
  ASSUME NEW S \in SUBSET Frames, S # {}
  PROVE  NextWave(S) \subseteq S
BY FirstSpec DEF NextWave

\* The barrier of a phase is the one there was or a Frame of it that stops.
LEMMA BarrierAfterSpec ==
  ASSUME NEW p
  PROVE  \/ BarrierAfter(p) = barrier
            /\ (barrier # Nobody \/ interruptedBy # Nobody \/ Stopping(p, answer) = {})
         \/ BarrierAfter(p) \in Stopping(p, answer) /\ barrier = Nobody
<1>1. Stopping(p, answer) \in SUBSET Frames
  BY DEF Stopping, Phase
<1> HIDE DEF Stopping
<1> QED BY <1>1, FirstSpec DEF BarrierAfter

\* A recomputed barrier is a Frame of a lower step that stops.
LEMMA RecomputedSpec ==
  RecomputedBarrier = Nobody \/
    \E p \in 1..(cursor - 1) : RecomputedBarrier \in Stopping(p, answer)
<1> DEFINE stops == {f \in Frames : \E p \in 1..(cursor - 1) : f \in Stopping(p, answer)}
<1>1. stops \in SUBSET Frames
  OBVIOUS
<1>2. RecomputedBarrier = IF stops = {} THEN Nobody ELSE First(stops)
  BY DEF RecomputedBarrier
<1>3. stops # {} => First(stops) \in stops
  <2> HIDE DEF stops
  <2> QED BY <1>1, FirstSpec
<1> QED BY <1>2, <1>3

-----------------------------------------------------------------------------
(***************************************************************************)
(* What a step does to the records                                         *)
(***************************************************************************)

\* The numbers that name blockers.
LEMMA Numbers ==
  /\ Frames \subseteq Nat /\ 1 \in Frames /\ N \in Frames
  /\ Nobody \notin Frames /\ TheRun \notin Frames /\ Fallback \notin Frames
  /\ TheRun # Nobody /\ Nobody \in Blockers /\ TheRun \in Blockers /\ Fallback \in Blockers
  /\ Frames \subseteq Blockers /\ Frames \subseteq 1..(N + 1)
  /\ \A p \in Frames : p + 1 \in 1..(N + 1) /\ p # N + 1
BY NAssumption DEF Frames, Nobody, TheRun, Fallback, Blockers

\* The parts of a batch.
LEMMA BatchType ==
  ASSUME batch \in Batches
  PROVE  /\ batch.step \in [Frames -> Frames] /\ batch.onFailure \in [Frames -> Policies]
         /\ batch.deferred \subseteq Frames
         /\ Phases \subseteq Frames
BY DEF Batches, Phases

\* Stopping says of a phase what Stops says of a Frame.
LEMMA StoppingIsStops ==
  ASSUME NEW f \in Frames, NEW p
  PROVE  f \in Stopping(p, answer) <=> batch.step[f] = p /\ Stops(f)
BY DEF Stopping, Phase, Stops

\* While a phase is at work no deferred Command has cut the batch off.
LEMMA PhaseUncut ==
  ASSUME IInv, cursor \in Phases
  PROVE  /\ cursor \in Frames
         /\ \A f \in Frames :
              /\ records[f] <= 1 /\ (batch.step[f] < cursor => answer[f] # "none")
              /\ ~(f \in batch.deferred /\ answer[f] = "completed")
<1>1. cursor \in Frames /\ cursor # N + 1
  BY BatchType, Numbers DEF IInv, TypeOK
<1>2. \A d, f \in Frames : ~CutBehind(d, f)
  BY <1>1 DEF IInv, RecordsInOrder, RecordOf, CutBehind
<1>3. \A f \in Frames : 1..(f - 1) \subseteq Frames /\ (f + 1)..N \subseteq Frames
  BY NAssumption DEF Frames
<1>4. \A f \in Frames : records[f] \in Nat
  BY DEF IInv, TypeOK
<1> QED BY <1>1, <1>2, <1>3, <1>4 DEF IInv, RecordsInOrder, RecordOf

\* What pushing records does, Frame by Frame.
LEMMA Recorded ==
  ASSUME TypeOK, NEW new, NEW by \in Blockers, Record(new, by),
         \A f \in Frames : f \in DOMAIN new => new[f] \in Statuses
  PROVE  /\ answer' \in [Frames -> Statuses] /\ records' \in [Frames -> Nat]
         /\ blockedBy' \in [Frames -> Blockers]
         /\ \A f \in Frames :
              IF f \in DOMAIN new
              THEN /\ answer'[f] = new[f] /\ records'[f] = records[f] + 1
                   /\ blockedBy'[f] = IF new[f] = "blocked" THEN by ELSE blockedBy[f]
              ELSE /\ answer'[f] = answer[f] /\ records'[f] = records[f]
                   /\ blockedBy'[f] = blockedBy[f]
BY DEF TypeOK, Record

\* Blocked Frames keep their cause if the run is not interrupted by another one
\* and no Frame loses its record.
LEMMA CausesKept ==
  ASSUME IInv, UNCHANGED batch,
         interruptedBy' = interruptedBy \/ interruptedBy = Nobody,
         \A f \in Frames : answer[f] # "none" => answer'[f] = answer[f] /\ blockedBy'[f] = blockedBy[f],
         \A f \in Frames : answer[f] = "none" /\ answer'[f] = "blocked" => Cause(blockedBy[f], f)'
  PROVE  BlockedHasCause'
<1> SUFFICES ASSUME NEW f \in Frames, answer'[f] = "blocked"
             PROVE  Cause(blockedBy[f], f)'
  BY DEF BlockedHasCause
<1>1. CASE answer[f] = "none"
  BY <1>1
<1>2. CASE answer[f] # "none"
  <2> DEFINE b == blockedBy[f]
  <2>1. answer[f] = "blocked" /\ blockedBy'[f] = b
    BY <1>2
  <2>2. Cause(b, f)
    BY <2>1 DEF IInv, BlockedHasCause
  <2> HIDE DEF b
  <2>3. CASE b = TheRun /\ interruptedBy = TheRun
    BY <2>1, <2>3, Numbers DEF Cause
  <2>4. CASE ~(b = TheRun /\ interruptedBy = TheRun)
    <3>1. b \in Frames \ {f} /\ answer[b] # "none" /\ answer'[b] = answer[b]
      BY <2>2, <2>4 DEF Cause, Stops
    <3> QED BY <2>1, <2>2, <2>4, <3>1, Numbers DEF Cause, Stops
  <2> QED BY <2>3, <2>4
<1> QED BY <1>1, <1>2

-----------------------------------------------------------------------------
(***************************************************************************)
(* The invariant, one action at a time                                     *)
(***************************************************************************)

\* The invariant holds when the run starts.
LEMMA InitIInv == ASSUME Init PROVE IInv
<1> USE Numbers DEF Init
<1>1. TypeOK
  <2>1. barrier \in Frames \union {Nobody} /\ interruptedBy \in Frames \union {Nobody, TheRun}
    OBVIOUS
  <2>2. answer \in [Frames -> Statuses] /\ prep \in [Frames -> Preparations]
    BY DEF Statuses, Preparations, Unprepared
  <2> QED BY <2>1, <2>2 DEF TypeOK
<1>2. WorkInPhase
  BY DEF WorkInPhase
<1>3. InterruptionKnown
  BY DEF InterruptionKnown
<1>4. RecordsInOrder
  <2> SUFFICES ASSUME NEW f \in Frames PROVE RecordOf(f)
    BY DEF RecordsInOrder
  <2>1. batch.step[f] \in Nat /\ batch.step[f] >= 1
    BY BatchType DEF Frames
  <2>2. answer[f] = "none" /\ records[f] = 0 /\ executions[f] = 0 /\ cursor = 1 /\ pc # "waves"
    OBVIOUS
  <2> QED BY <2>1, <2>2 DEF RecordOf
<1>5. BarrierStands /\ BarrierRaised
  BY DEF BarrierStands, BarrierRaised, Stops
<1>6. BlockedHasCause
  BY DEF BlockedHasCause
<1> QED BY <1>1, <1>2, <1>3, <1>4, <1>5, <1>6 DEF IInv

\* One phase: Frames without a record get one, and the cursor stays or goes on
\* when all of the phase have one.
LEMMA RecordsKept ==
  ASSUME IInv, cursor \in Phases, UNCHANGED <<batch, executions>>,
         cursor' \in {cursor, cursor + 1},
         \A f \in Frames :
           \/ answer'[f] = answer[f] /\ records'[f] = records[f]
           \/ /\ f \in Unanswered /\ answer'[f] # "none" /\ records'[f] = records[f] + 1
              /\ f \in batch.deferred => answer'[f] # "completed"
              /\ pc = "waves" => answer'[f] # "denied",
         cursor' # cursor => \A f \in Unanswered : answer'[f] # "none",
         \A f \in executing : f \in executing' \/ answer'[f] # "none",
         pc = "waves" => pc' = "waves" \/ cursor' # cursor
  PROVE  RecordsInOrder'
<1> SUFFICES ASSUME NEW f \in Frames PROVE RecordOf(f)'
  BY DEF RecordsInOrder
<1>1. /\ batch.step[f] \in Nat /\ cursor \in Nat /\ records[f] \in Nat /\ executions[f] \in Nat
      /\ cursor # N + 1
  BY BatchType, PhaseUncut, Numbers DEF IInv, TypeOK
<1>2. /\ records[f] <= 1 /\ (batch.step[f] < cursor => answer[f] # "none")
      /\ ~(f \in batch.deferred /\ answer[f] = "completed")
  BY PhaseUncut
<1>3. RecordOf(f)
  BY DEF IInv, RecordsInOrder
<1>4. f \in Unanswered <=> batch.step[f] = cursor /\ answer[f] = "none"
  BY DEF Unanswered, Phase
<1>5. batch'.step[f] = batch.step[f] /\ batch'.deferred = batch.deferred /\ executions'[f] = executions[f]
  OBVIOUS
<1>6. CASE answer'[f] = answer[f] /\ records'[f] = records[f]
  BY <1>1, <1>2, <1>3, <1>4, <1>5, <1>6 DEF RecordOf
<1>7. CASE /\ f \in Unanswered /\ answer'[f] # "none" /\ records'[f] = records[f] + 1
           /\ f \in batch.deferred => answer'[f] # "completed"
           /\ pc = "waves" => answer'[f] # "denied"
  BY <1>1, <1>2, <1>3, <1>4, <1>5, <1>7 DEF RecordOf
<1> QED BY <1>6, <1>7

\* The barrier stays, or another Frame below the cursor raises it.
LEMMA BarrierKept ==
  ASSUME IInv, UNCHANGED batch, cursor' \in Nat, cursor' >= cursor,
         barrier' \in Frames \union {Nobody},
         \A f \in Frames : batch.step[f] < cursor /\ Stops(f) => answer'[f] = answer[f],
         \/ barrier' = barrier
         \/ \E f \in Frames : barrier' = f /\ batch.step[f] < cursor' /\ Stops(f)'
  PROVE  BarrierStands'
<1>1. CASE barrier' = barrier
  <2> SUFFICES ASSUME barrier # Nobody PROVE batch.step[barrier] < cursor' /\ Stops(barrier)'
    BY <1>1 DEF BarrierStands
  <2>1. barrier \in Frames /\ batch.step[barrier] < cursor /\ Stops(barrier)
    BY <1>1 DEF IInv, BarrierStands
  <2>2. batch.step[barrier] \in Nat /\ cursor \in Nat
    BY <2>1, BatchType, Numbers DEF IInv, TypeOK
  <2>3. Stops(barrier)'
    BY <1>1, <2>1 DEF Stops
  <2> QED BY <2>1, <2>2, <2>3
<1>2. ASSUME NEW f \in Frames, barrier' = f, batch.step[f] < cursor', Stops(f)'
      PROVE  BarrierStands'
  BY <1>2 DEF BarrierStands, Stops
<1> QED BY <1>1, <1>2

\* phaseBarrierFor commits the barrier of the phase that is over.
LEMMA BarrierCommitted ==
  ASSUME IInv, cursor \in Phases, UNCHANGED <<batch, answer, interruptedBy>>,
         cursor' = cursor + 1, barrier' = BarrierAfter(cursor)
  PROVE  barrier' \in Frames \union {Nobody} /\ BarrierStands' /\ BarrierRaised'
<1>1. \A f \in Frames : batch.step[f] \in Nat
  BY BatchType, Numbers DEF IInv, TypeOK
<1>2. cursor \in Frames /\ cursor \in Nat
  BY PhaseUncut, Numbers
<1>3. \A f \in Frames : f \in Stopping(cursor, answer) <=> batch.step[f] = cursor /\ Stops(f)
  BY StoppingIsStops
<1>4. Stopping(cursor, answer) \subseteq Frames /\ barrier \in Frames \union {Nobody}
  BY DEF Stopping, Phase, IInv, TypeOK
<1>5. \A f \in Frames : Stops(f)' <=> Stops(f)
  BY DEF Stops
<1>6. barrier' \in Frames \union {Nobody}
  BY <1>4, BarrierAfterSpec
<1>7. BarrierStands'
  <2>1. CASE barrier' = barrier
    BY <1>2, <1>6, <2>1, BarrierKept
  <2>2. CASE barrier' \in Stopping(cursor, answer)
    <3>1. barrier' \in Frames /\ batch.step[barrier'] = cursor
      BY <1>3, <1>4, <2>2
    <3>2. PICK f \in Frames : f = barrier'
      BY <3>1
    <3>3. batch.step[f] < cursor' /\ Stops(f)'
      BY <1>2, <1>3, <1>5, <2>2, <3>1, <3>2
    <3> QED BY <1>2, <1>6, <3>2, <3>3, BarrierKept
  <2> QED BY <2>1, <2>2, BarrierAfterSpec
<1>8. BarrierRaised'
  <2> SUFFICES ASSUME interruptedBy = Nobody, NEW f \in Frames, batch.step[f] < cursor + 1, Stops(f)
               PROVE  barrier' # Nobody
    BY <1>5 DEF BarrierRaised
  <2>1. CASE batch.step[f] = cursor
    BY <1>3, <1>4, <2>1, BarrierAfterSpec, Numbers
  <2>2. CASE batch.step[f] < cursor
    BY <1>4, <2>2, BarrierAfterSpec, Numbers DEF IInv, BarrierRaised
  <2> QED BY <1>1, <1>2, <2>1, <2>2
<1> QED BY <1>6, <1>7, <1>8

\* A step that writes no record and leaves the cursor, the barrier and the
\* interruption alone.
LEMMA RecordsUntouched ==
  ASSUME IInv, UNCHANGED <<batch, cursor, frameVars, barrier, interruptedBy, executing, executions>>,
         pc = "waves" => pc' = "waves"
  PROVE  RecordsInOrder' /\ BarrierStands' /\ BarrierRaised' /\ BlockedHasCause'
<1> USE DEF frameVars
<1>1. RecordsInOrder'
  BY DEF IInv, RecordsInOrder, RecordOf, CutBehind
<1>2. BarrierStands'
  BY DEF IInv, BarrierStands, Stops
<1>3. BarrierRaised'
  BY DEF IInv, BarrierRaised, Stops, Phases
<1>4. BlockedHasCause'
  BY CausesKept
<1> QED BY <1>1, <1>2, <1>3, <1>4

\* A phase with nothing left to run commits its barrier.
LEMMA SkipPhaseKeeps == ASSUME IInv, SkipPhase PROVE IInv'
<1> USE DEF SkipPhase, NextPhase, Forget, frameVars, waveVars
<1>1. barrier' \in Frames \union {Nobody} /\ BarrierStands' /\ BarrierRaised'
  BY BarrierCommitted
<1>2. TypeOK'
  <2>1. cursor' \in 1..(N + 1) /\ prep' \in [Frames -> Preparations] /\ safe' \in [Frames -> BOOLEAN]
    BY PhaseUncut, Numbers DEF Unprepared, Preparations
  <2> QED BY <1>1, <2>1 DEF IInv, TypeOK
<1>3. WorkInPhase'
  BY DEF IInv, WorkInPhase, Unanswered, Phase
<1>4. InterruptionKnown'
  BY DEF IInv, InterruptionKnown
<1>5. RecordsInOrder'
  BY RecordsKept
<1>6. BlockedHasCause'
  BY CausesKept
<1> QED BY <1>1, <1>2, <1>3, <1>4, <1>5, <1>6 DEF IInv

\* A whole phase is blocked by what interrupted the run.
LEMMA BlockPhaseKeeps == ASSUME IInv, BlockPhase PROVE IInv'
<1> DEFINE new == [f \in Unanswered |-> "blocked"]
<1>0. /\ cursor \in Phases /\ batch' = batch /\ cursor' = cursor + 1 /\ pc' = "phase"
      /\ barrier' = barrier /\ executions' = executions /\ pc = "phase"
  BY DEF BlockPhase, NextPhase, Forget, waveVars
<1>1. /\ interruptedBy' \in Frames \union {TheRun} /\ interruptedBy' # Nobody
      /\ interruptedBy' = IF interruptedBy = Nobody THEN TheRun ELSE interruptedBy
  BY Numbers DEF BlockPhase, IInv, TypeOK
<1>2. Record(new, interruptedBy')
  BY <1>1 DEF BlockPhase, Block, Blocker
<1>3. DOMAIN new = Unanswered /\ (\A f \in Unanswered : new[f] = "blocked") /\ "blocked" \in Statuses
  BY DEF Statuses
<1> HIDE DEF new
<1>4. /\ answer' \in [Frames -> Statuses] /\ records' \in [Frames -> Nat]
      /\ blockedBy' \in [Frames -> Blockers]
      /\ \A f \in Frames :
           IF f \in Unanswered
           THEN answer'[f] = "blocked" /\ records'[f] = records[f] + 1 /\ blockedBy'[f] = interruptedBy'
           ELSE answer'[f] = answer[f] /\ records'[f] = records[f] /\ blockedBy'[f] = blockedBy[f]
  BY <1>1, <1>2, <1>3, Recorded, Numbers DEF IInv
<1>5. cursor \in Nat /\ cursor' \in Nat /\ cursor' >= cursor /\ cursor' \in 1..(N + 1)
  <2>1. cursor \in Frames
    BY <1>0, PhaseUncut
  <2> QED BY <1>0, <2>1, Numbers
<1>6. \A f \in Frames : answer[f] # "none" => f \notin Unanswered
  BY DEF Unanswered
<1>7. TypeOK'
  <2>1. prep' \in [Frames -> Preparations] /\ safe' \in [Frames -> BOOLEAN]
    BY DEF BlockPhase, NextPhase, Forget, Unprepared, Preparations
  <2> QED BY <1>0, <1>1, <1>4, <1>5, <2>1 DEF BlockPhase, IInv, TypeOK, waveVars
<1>8. WorkInPhase'
  BY <1>0 DEF BlockPhase, NextPhase, Forget, IInv, WorkInPhase, waveVars
<1>9. InterruptionKnown'
  <2>1. interruptedBy # Nobody => interruptedBy' = interruptedBy
    BY <1>1
  <2> QED BY <1>0, <1>1, <1>4, <1>6, <2>1, Numbers DEF BlockPhase, IInv, InterruptionKnown, waveVars, WorkInPhase
<1>10. RecordsInOrder'
  <2>1. \A f \in Frames :
           \/ answer'[f] = answer[f] /\ records'[f] = records[f]
           \/ /\ f \in Unanswered /\ answer'[f] # "none" /\ records'[f] = records[f] + 1
              /\ f \in batch.deferred => answer'[f] # "completed"
              /\ pc = "waves" => answer'[f] # "denied"
    BY <1>4
  <2>2. \A f \in Unanswered : answer'[f] # "none"
    BY <1>4 DEF Unanswered, Phase
  <2>3. executing = {}
    BY <1>0 DEF IInv, WorkInPhase
  <2> QED BY <1>0, <2>1, <2>2, <2>3, RecordsKept
<1>11. BarrierStands' /\ BarrierRaised'
  <2>1. BarrierStands'
    BY <1>0, <1>4, <1>5, <1>6, BarrierKept DEF IInv, TypeOK, Stops
  <2> QED BY <1>1, <2>1 DEF BarrierRaised
<1>12. BlockedHasCause'
  <2>1. ASSUME NEW f \in Frames, answer[f] = "none", answer'[f] = "blocked"
        PROVE  Cause(blockedBy[f], f)'
    <3>1. f \in Unanswered /\ blockedBy'[f] = interruptedBy'
      BY <1>4, <2>1
    <3>2. interruptedBy' \in Frames => answer'[interruptedBy'] = "interrupted" /\ interruptedBy' # f
      BY <1>9, <2>1 DEF InterruptionKnown
    <3> QED BY <1>1, <3>1, <3>2 DEF Cause
  <2> QED BY <1>0, <1>1, <1>4, <1>6, <2>1, CausesKept
<1> QED BY <1>7, <1>8, <1>9, <1>10, <1>11, <1>12 DEF IInv

\* Behind a barrier all but the diagnostics are blocked by it.
LEMMA PreparePhaseKeeps == ASSUME IInv, PreparePhase PROVE IInv'
<1> DEFINE behind == {f \in Unanswered : barrier # Nobody /\ batch.onFailure[f] # "diagnose"}
           new == [f \in behind |-> "blocked"]
<1>0. /\ cursor \in Phases /\ batch' = batch /\ cursor' = cursor /\ pc' = "preparing" /\ pc = "phase"
      /\ barrier' = barrier /\ executions' = executions /\ interruptedBy' = interruptedBy
      /\ interruptedBy = Nobody /\ UNCHANGED waveVars /\ aborted' = aborted /\ pending' = pending
      /\ approved' = approved
  BY DEF PreparePhase, waveVars
<1>1. Blocker(interruptedBy) \in Blockers /\ (barrier # Nobody => Blocker(interruptedBy) = barrier)
  BY <1>0, Numbers DEF Blocker, IInv, TypeOK
<1>2. Record(new, Blocker(interruptedBy))
  BY DEF PreparePhase, Block
<1>3. DOMAIN new = behind /\ (\A f \in behind : new[f] = "blocked") /\ "blocked" \in Statuses
  BY DEF Statuses
<1>4. \A f \in Frames : f \in behind <=> f \in Unanswered /\ barrier # Nobody /\ batch.onFailure[f] # "diagnose"
  OBVIOUS
<1>5. prep' = [f \in Frames |-> IF f \in Unanswered \ behind THEN "pending" ELSE "none"]
      /\ safe' = [f \in Frames |-> FALSE]
  BY DEF PreparePhase
<1> HIDE DEF new, behind
<1>6. /\ answer' \in [Frames -> Statuses] /\ records' \in [Frames -> Nat]
      /\ blockedBy' \in [Frames -> Blockers]
      /\ \A f \in Frames :
           IF f \in behind
           THEN answer'[f] = "blocked" /\ records'[f] = records[f] + 1 /\ blockedBy'[f] = Blocker(interruptedBy)
           ELSE answer'[f] = answer[f] /\ records'[f] = records[f] /\ blockedBy'[f] = blockedBy[f]
  BY <1>1, <1>2, <1>3, Recorded DEF IInv
<1>7. \A f \in Frames : f \in Unanswered <=> batch.step[f] = cursor /\ answer[f] = "none"
  BY DEF Unanswered, Phase
<1>8. \A f \in Frames : f \in Unanswered' <=> batch.step[f] = cursor /\ answer'[f] = "none"
  BY <1>0 DEF Unanswered, Phase
<1>9. TypeOK'
  BY <1>0, <1>5, <1>6 DEF IInv, TypeOK, waveVars, Preparations
<1>10. WorkInPhase'
  <2>1. Phases' = Phases
    BY <1>0 DEF Phases
  <2>2. \A f \in Frames : prep'[f] # "none" <=> f \in Unanswered'
    BY <1>4, <1>5, <1>6, <1>7, <1>8
  <2>3. todo' = {} /\ wave' = {} /\ executing' = {}
    BY <1>0 DEF IInv, WorkInPhase, waveVars
  <2> QED BY <1>0, <2>1, <2>2, <2>3 DEF WorkInPhase
<1>11. InterruptionKnown'
  BY <1>0, <1>6, Numbers DEF IInv, InterruptionKnown, waveVars
<1>12. RecordsInOrder'
  <2>1. \A f \in Frames :
           \/ answer'[f] = answer[f] /\ records'[f] = records[f]
           \/ /\ f \in Unanswered /\ answer'[f] # "none" /\ records'[f] = records[f] + 1
              /\ f \in batch.deferred => answer'[f] # "completed"
              /\ pc = "waves" => answer'[f] # "denied"
    BY <1>4, <1>6
  <2>2. executing = {}
    BY <1>0 DEF IInv, WorkInPhase
  <2> QED BY <1>0, <2>1, <2>2, RecordsKept
<1>13. \A f \in Frames : answer[f] # "none" => answer'[f] = answer[f] /\ blockedBy'[f] = blockedBy[f]
  BY <1>4, <1>6, <1>7
<1>14. cursor \in Frames
  BY <1>0, PhaseUncut
<1>15. BarrierStands'
  <2>1. cursor' \in Nat /\ cursor' >= cursor
    BY <1>0, <1>14, Numbers
  <2> QED BY <1>0, <1>13, <2>1, BarrierKept DEF IInv, TypeOK, Stops
<1>16. BarrierRaised'
  <2>1. \A f \in Frames : batch.step[f] < cursor => answer[f] # "none"
    BY <1>0, PhaseUncut
  <2>2. \A f \in Frames : batch.step[f] < cursor => (Stops(f)' <=> Stops(f))
    BY <1>0, <1>13, <2>1 DEF Stops
  <2> QED BY <1>0, <2>2 DEF IInv, BarrierRaised
<1>17. BlockedHasCause'
  <2>1. ASSUME NEW f \in Frames, answer[f] = "none", answer'[f] = "blocked"
        PROVE  Cause(blockedBy[f], f)'
    <3>1. barrier # Nobody /\ f \in Unanswered /\ blockedBy'[f] = barrier
      BY <1>1, <1>4, <1>6, <2>1
    <3>2. barrier \in Frames /\ batch.step[barrier] < cursor /\ batch.step[f] = cursor /\ Stops(barrier)
      BY <1>7, <3>1 DEF IInv, TypeOK, BarrierStands
    <3>3. batch.step[barrier] # cursor
      BY <1>14, <3>2, BatchType, Numbers DEF IInv, TypeOK
    <3>4. answer[barrier] # "none" /\ answer'[barrier] = answer[barrier]
      BY <1>13, <3>2 DEF Stops
    <3> QED BY <1>0, <3>1, <3>2, <3>3, <3>4 DEF Cause, Stops
  <2> QED BY <1>0, <1>13, <2>1, CausesKept
<1> QED BY <1>9, <1>10, <1>11, <1>12, <1>15, <1>16, <1>17 DEF IInv

\* A Command of the phase is prepared, or its preparation fails.
LEMMA PrepareKeeps == ASSUME IInv, NEW f \in Frames, Prepare(f) \/ PrepareFails(f) PROVE IInv'
<1>0. /\ pc = "preparing" /\ prep[f] = "pending"
      /\ UNCHANGED <<batch, pc, cursor, frameVars, approved, barrier, interruptedBy, aborted,
                     waveVars, pending>>
  BY DEF Prepare, PrepareFails
<1>1. PICK found \in Preparations \ {"none"} : prep' = [prep EXCEPT ![f] = found]
  BY DEF Prepare, PrepareFails, Preparations
<1>2. safe' \in [Frames -> BOOLEAN]
  BY DEF IInv, TypeOK, Prepare, PrepareFails
<1>3. TypeOK'
  BY <1>0, <1>1, <1>2 DEF IInv, TypeOK, frameVars, waveVars
<1>4. Unanswered' = Unanswered /\ Phases' = Phases
  BY <1>0 DEF Unanswered, Phase, Phases, frameVars
<1>5. WorkInPhase'
  <2>1. \A g \in Frames : prep'[g] # "none" <=> g \in Unanswered
    BY <1>0, <1>1 DEF IInv, WorkInPhase, TypeOK
  <2> QED BY <1>0, <1>4, <2>1 DEF IInv, WorkInPhase, waveVars
<1>6. InterruptionKnown'
  BY <1>0 DEF IInv, InterruptionKnown, frameVars, waveVars
<1>7. RecordsInOrder' /\ BarrierStands' /\ BarrierRaised' /\ BlockedHasCause'
  BY <1>0, RecordsUntouched DEF waveVars
<1> QED BY <1>3, <1>5, <1>6, <1>7 DEF IInv

\* What settling the preparation records, for whatever comes after it.
LEMMA Settled ==
  ASSUME IInv, SettlePreparation
  PROVE  /\ answer' \in [Frames -> Statuses] /\ records' \in [Frames -> Nat]
         /\ blockedBy' \in [Frames -> Blockers]
         /\ ToRun \subseteq Unanswered
         /\ \A f \in Unanswered : answer'[f] = "none" <=> f \in ToRun
         /\ \A f \in Frames : answer'[f] = "interrupted" => answer[f] = "interrupted"
         /\ RecordsInOrder' /\ BarrierStands' /\ BarrierRaised' /\ BlockedHasCause'
<1> DEFINE S == Found(Preparations \ {"none"}) \ ToRun
           new == [f \in S |-> IF f \in UnsafeDiagnostics THEN "blocked"
                               ELSE IF prep[f] = "denied" THEN "denied" ELSE "failed"]
<1>0. /\ pc = "preparing" /\ \A f \in Frames : prep[f] \notin {"pending", "interrupted"}
      /\ UNCHANGED <<batch, cursor, approved, barrier, interruptedBy, aborted, wave,
                     executing, executions>>
  BY DEF SettlePreparation, Prepared, Found
<1>1. cursor \in Phases /\ interruptedBy = Nobody /\ executing = {}
  BY <1>0 DEF IInv, WorkInPhase, InterruptionKnown
<1>2. \A f \in Frames : f \in Unanswered <=> prep[f] # "none"
  BY <1>0 DEF IInv, WorkInPhase
<1>3. \A f \in Frames : f \in Unanswered <=> batch.step[f] = cursor /\ answer[f] = "none"
  BY DEF Unanswered, Phase
<1>4. /\ ToRun \subseteq Unanswered /\ S \subseteq Unanswered
      /\ \A f \in Unanswered : f \in S <=> f \notin ToRun
      /\ \A f \in UnsafeDiagnostics : barrier # Nobody
  BY <1>2, <1>3 DEF ToRun, Found, UnsafeDiagnostics, IInv, TypeOK, Unanswered, Phase
<1>5. Blocker(interruptedBy) \in Blockers /\ (barrier # Nobody => Blocker(interruptedBy) = barrier)
  BY <1>1, Numbers DEF Blocker, IInv, TypeOK
<1>6. Record(new, Blocker(interruptedBy))
  BY DEF SettlePreparation
<1>7. DOMAIN new = S /\ (\A f \in S : new[f] \in {"blocked", "denied", "failed"}
                                      /\ (new[f] = "blocked" => f \in UnsafeDiagnostics))
      /\ {"blocked", "denied", "failed"} \subseteq Statuses
  BY DEF Statuses
<1> HIDE DEF new, S
<1>8. /\ answer' \in [Frames -> Statuses] /\ records' \in [Frames -> Nat]
      /\ blockedBy' \in [Frames -> Blockers]
      /\ \A f \in Frames :
           IF f \in S
           THEN /\ answer'[f] \in {"blocked", "denied", "failed"} /\ records'[f] = records[f] + 1
                /\ answer'[f] = "blocked" => barrier # Nobody /\ blockedBy'[f] = barrier
           ELSE answer'[f] = answer[f] /\ records'[f] = records[f] /\ blockedBy'[f] = blockedBy[f]
  BY <1>4, <1>5, <1>6, <1>7, Recorded DEF IInv
<1>9. \A f \in Frames : answer[f] # "none" => answer'[f] = answer[f] /\ blockedBy'[f] = blockedBy[f]
  BY <1>3, <1>4, <1>8
<1>10. \A f \in Unanswered : answer'[f] = "none" <=> f \in ToRun
  BY <1>3, <1>4, <1>8 DEF Unanswered, Phase
<1>11. RecordsInOrder'
  <2>1. \A f \in Frames :
           \/ answer'[f] = answer[f] /\ records'[f] = records[f]
           \/ /\ f \in Unanswered /\ answer'[f] # "none" /\ records'[f] = records[f] + 1
              /\ f \in batch.deferred => answer'[f] # "completed"
              /\ pc = "waves" => answer'[f] # "denied"
    BY <1>0, <1>4, <1>8
  <2> QED BY <1>0, <1>1, <2>1, RecordsKept
<1>12. cursor \in Frames
  BY <1>1, PhaseUncut
<1>13. BarrierStands'
  <2>1. cursor' \in Nat /\ cursor' >= cursor
    BY <1>0, <1>12, Numbers
  <2> QED BY <1>0, <1>9, <2>1, BarrierKept DEF IInv, TypeOK, Stops
<1>14. BarrierRaised'
  <2>1. \A f \in Frames : batch.step[f] < cursor => answer[f] # "none"
    BY <1>1, PhaseUncut
  <2>2. \A f \in Frames : batch.step[f] < cursor => (Stops(f)' <=> Stops(f))
    BY <1>0, <1>9, <2>1 DEF Stops
  <2> QED BY <1>0, <1>1, <2>2 DEF IInv, BarrierRaised
<1>15. BlockedHasCause'
  <2>1. ASSUME NEW f \in Frames, answer[f] = "none", answer'[f] = "blocked"
        PROVE  Cause(blockedBy[f], f)'
    <3>1. barrier # Nobody /\ f \in Unanswered /\ blockedBy'[f] = barrier
      BY <1>4, <1>8, <2>1
    <3>2. barrier \in Frames /\ batch.step[barrier] < cursor /\ batch.step[f] = cursor /\ Stops(barrier)
      BY <1>3, <3>1 DEF IInv, TypeOK, BarrierStands
    <3>3. batch.step[barrier] # cursor
      BY <1>12, <3>2, BatchType, Numbers DEF IInv, TypeOK
    <3>4. answer[barrier] # "none" /\ answer'[barrier] = answer[barrier]
      BY <1>9, <3>2 DEF Stops
    <3> QED BY <1>0, <3>1, <3>2, <3>3, <3>4 DEF Cause, Stops
  <2> QED BY <1>0, <1>9, <2>1, CausesKept
<1>16. \A f \in Frames : answer'[f] = "interrupted" => answer[f] = "interrupted"
  BY <1>8
<1> QED BY <1>4, <1>8, <1>10, <1>11, <1>13, <1>14, <1>15, <1>16

\* Suspended, with only Frames of the phase that have no record pending.
LEMMA SuspendKeeps ==
  ASSUME IInv, SuspendForApprovals \/ SuspendForDeferred
  PROVE  IInv'
<1>0. /\ SettlePreparation /\ pc = "preparing"
      /\ UNCHANGED <<batch, cursor, approved, barrier, interruptedBy, aborted, wave,
                     executing, executions, todo>>
      /\ prep' = Unprepared /\ safe' = [f \in Frames |-> FALSE]
  BY DEF SuspendForApprovals, SuspendForDeferred, SettlePreparation, Prepared, Forget
<1>1. pc' \in {"approval", "deferred"} /\ pending' \subseteq ToRun
      /\ (pc' = "deferred" => pending' \subseteq batch.deferred)
  <2>1. CASE SuspendForApprovals
    BY <2>1 DEF SuspendForApprovals, AwaitingApproval
  <2>2. CASE SuspendForDeferred
    <3>1. ToRun \cap batch.deferred \in SUBSET Frames /\ ToRun \cap batch.deferred # {}
      BY <2>2 DEF SuspendForDeferred, ToRun, Found
    <3> QED BY <2>2, <3>1, FirstSpec DEF SuspendForDeferred
  <2> QED BY <2>1, <2>2
<1>2. /\ answer' \in [Frames -> Statuses] /\ records' \in [Frames -> Nat]
      /\ blockedBy' \in [Frames -> Blockers]
      /\ ToRun \subseteq Unanswered
      /\ \A f \in Unanswered : answer'[f] = "none" <=> f \in ToRun
      /\ \A f \in Frames : answer'[f] = "interrupted" => answer[f] = "interrupted"
      /\ RecordsInOrder' /\ BarrierStands' /\ BarrierRaised' /\ BlockedHasCause'
  BY <1>0, Settled
<1>3. TypeOK'
  BY <1>0, <1>1, <1>2 DEF IInv, TypeOK, Unprepared, Preparations, ToRun, Found
<1>4. ToRun \subseteq Unanswered'
  BY <1>0, <1>2 DEF Unanswered, Phase
<1>5. WorkInPhase'
  <2>1. Phases' = Phases /\ todo = {} /\ wave = {} /\ executing = {} /\ cursor \in Phases
    BY <1>0 DEF Phases, IInv, WorkInPhase
  <2> QED BY <1>0, <1>1, <1>4, <2>1 DEF WorkInPhase
<1>6. InterruptionKnown'
  BY <1>0, <1>2, Numbers DEF IInv, InterruptionKnown
<1> QED BY <1>2, <1>3, <1>5, <1>6 DEF IInv

\* What goes into the waves needs no approval and is not deferred.
LEMMA StartWavesKeeps == ASSUME IInv, StartWaves PROVE IInv'
<1>0. /\ SettlePreparation /\ pc = "preparing" /\ pc' = "waves" /\ todo' = ToRun
      /\ AwaitingApproval = {} /\ ToRun \cap batch.deferred = {}
      /\ prep' = [f \in Frames |-> IF f \in ToRun THEN prep[f] ELSE "none"]
      /\ UNCHANGED <<batch, cursor, approved, barrier, interruptedBy, aborted, wave,
                     executing, executions, safe, pending>>
  BY DEF StartWaves, SettlePreparation, Prepared
<1>2. /\ answer' \in [Frames -> Statuses] /\ records' \in [Frames -> Nat]
      /\ blockedBy' \in [Frames -> Blockers]
      /\ ToRun \subseteq Unanswered
      /\ \A f \in Unanswered : answer'[f] = "none" <=> f \in ToRun
      /\ \A f \in Frames : answer'[f] = "interrupted" => answer[f] = "interrupted"
      /\ RecordsInOrder' /\ BarrierStands' /\ BarrierRaised' /\ BlockedHasCause'
  BY <1>0, Settled
<1>3. TypeOK'
  BY <1>0, <1>2 DEF IInv, TypeOK, Preparations, ToRun, Found
<1>4. Unanswered' = ToRun
  <2>1. \A f \in Frames : f \notin Unanswered /\ batch.step[f] = cursor => answer[f] # "none"
    BY DEF Unanswered, Phase
  <2>2. \A f \in Frames : answer[f] # "none" => answer'[f] # "none"
    <3>1. \A f \in Frames : f \in Found(Preparations \ {"none"}) \ ToRun => answer[f] = "none"
      BY <1>0 DEF IInv, WorkInPhase, Found, Unanswered
    <3> QED BY <1>0, <3>1 DEF SettlePreparation, Record
  <2> QED BY <1>0, <1>2, <2>1, <2>2 DEF Unanswered, Phase
<1>5. WorkInPhase'
  <2>1. Phases' = Phases /\ todo = {} /\ wave = {} /\ executing = {} /\ cursor \in Phases
    BY <1>0 DEF Phases, IInv, WorkInPhase
  <2>2. \A f \in ToRun : f \in Frames /\ prep'[f] = "auto" /\ f \notin batch.deferred
    BY <1>0 DEF ToRun, Found, AwaitingApproval
  <2>3. \A f \in ToRun : barrier # Nobody => SafeDiagnostic(f)
    BY DEF ToRun, Found, UnsafeDiagnostics
  <2>4. \A f \in Frames : SafeDiagnostic(f)' <=> SafeDiagnostic(f)
    BY <1>0 DEF SafeDiagnostic
  <2> QED BY <1>0, <1>4, <2>1, <2>2, <2>3, <2>4 DEF WorkInPhase
<1>6. InterruptionKnown'
  <2>1. interruptedBy = Nobody
    BY <1>0 DEF IInv, InterruptionKnown
  <2> QED BY <1>0, <1>2, <2>1, Numbers DEF IInv, InterruptionKnown
<1> QED BY <1>2, <1>3, <1>5, <1>6 DEF IInv

\* An interrupted run records some Frames of the phase and blocks the others of
\* them by what interrupted it.
LEMMA InterruptedRecords ==
  ASSUME IInv, cursor \in Phases, UNCHANGED <<batch, barrier, executions, executing>>,
         cursor' \in {cursor, cursor + 1}, pc = "waves" => pc' = "waves" \/ cursor' # cursor,
         NEW S \in SUBSET Unanswered, cursor' # cursor => S = Unanswered,
         \A f \in Frames :
           IF f \in S
           THEN /\ answer'[f] \in {"blocked", "failed", "interrupted"} /\ records'[f] = records[f] + 1
                /\ answer'[f] = "blocked" => blockedBy'[f] = interruptedBy'
           ELSE answer'[f] = answer[f] /\ records'[f] = records[f] /\ blockedBy'[f] = blockedBy[f],
         interruptedBy' \in Frames \cup {TheRun},
         interruptedBy' = interruptedBy \/ interruptedBy = Nobody,
         interruptedBy' # interruptedBy /\ interruptedBy' \in Frames
           => answer'[interruptedBy'] = "interrupted"
  PROVE  /\ interruptedBy' \in Frames => answer'[interruptedBy'] = "interrupted"
         /\ RecordsInOrder' /\ BarrierStands' /\ BarrierRaised' /\ BlockedHasCause'
<1>1. \A f \in Frames : f \in Unanswered <=> batch.step[f] = cursor /\ answer[f] = "none"
  BY DEF Unanswered, Phase
<1>2. interruptedBy' # Nobody
  BY Numbers
<1>3. \A f \in Frames : answer[f] # "none" => answer'[f] = answer[f] /\ blockedBy'[f] = blockedBy[f]
  BY <1>1
<1>4. cursor' \in Nat /\ cursor' >= cursor
  <2>1. cursor \in Frames
    BY PhaseUncut
  <2> QED BY <2>1, Numbers
<1>5. interruptedBy' \in Frames => answer'[interruptedBy'] = "interrupted"
  BY <1>3 DEF IInv, InterruptionKnown
<1>6. RecordsInOrder'
  <2>1. \A f \in Frames :
           \/ answer'[f] = answer[f] /\ records'[f] = records[f]
           \/ /\ f \in Unanswered /\ answer'[f] # "none" /\ records'[f] = records[f] + 1
              /\ f \in batch.deferred => answer'[f] # "completed"
              /\ pc = "waves" => answer'[f] # "denied"
    OBVIOUS
  <2>2. cursor' # cursor => \A f \in Unanswered : answer'[f] # "none"
    BY DEF Unanswered, Phase
  <2> QED BY <2>1, <2>2, RecordsKept
<1>7. BarrierStands' /\ BarrierRaised'
  <2>1. BarrierStands'
    BY <1>3, <1>4, BarrierKept DEF IInv, TypeOK, Stops
  <2> QED BY <1>2, <2>1 DEF BarrierRaised
<1>8. BlockedHasCause'
  <2>1. ASSUME NEW f \in Frames, answer[f] = "none", answer'[f] = "blocked"
        PROVE  Cause(blockedBy[f], f)'
    <3>1. blockedBy'[f] = interruptedBy'
      BY <2>1
    <3>2. interruptedBy' \in Frames => answer'[interruptedBy'] = "interrupted" /\ interruptedBy' # f
      BY <1>5, <2>1
    <3> QED BY <3>1, <3>2 DEF Cause
  <2> QED BY <1>3, <2>1, CausesKept
<1> QED BY <1>5, <1>6, <1>7, <1>8

\* The preparation is cut off: failures are recorded, the rest is blocked.
LEMMA InterruptPreparationKeeps == ASSUME IInv, InterruptPreparation PROVE IInv'
<1> DEFINE new == [f \in Unanswered |-> IF prep[f] \in {"failed", "interrupted"}
                                        THEN prep[f] ELSE "blocked"]
           cut == Found({"interrupted"})
<1>0. /\ pc = "preparing" /\ pc' = "phase" /\ cursor' = cursor + 1
      /\ UNCHANGED <<batch, approved, barrier, aborted, todo, wave, executing, executions, pending>>
      /\ prep' = Unprepared /\ safe' = [f \in Frames |-> FALSE]
      /\ interruptedBy' = IF cut # {} THEN First(cut) ELSE TheRun
  BY DEF InterruptPreparation, Prepared, NextPhase, Forget, waveVars
<1>1. cursor \in Phases /\ interruptedBy = Nobody
      /\ todo = {} /\ wave = {} /\ executing = {}
  BY <1>0 DEF IInv, WorkInPhase, InterruptionKnown
<1>2. cut \in SUBSET Frames /\ \A f \in cut : prep[f] = "interrupted"
  BY DEF Found
<1>3. Unanswered \subseteq Frames /\ \A f \in Frames : f \in Unanswered <=> prep[f] # "none"
  BY <1>0 DEF IInv, WorkInPhase, Unanswered, Phase
<1>4. /\ interruptedBy' \in Frames \cup {TheRun}
      /\ interruptedBy' \in Frames => prep[interruptedBy'] = "interrupted"
  <2> HIDE DEF cut
  <2> QED BY <1>0, <1>2, FirstSpec, Numbers
<1>5. Blocker(interruptedBy') = interruptedBy' /\ interruptedBy' \in Blockers
  BY <1>4, Numbers DEF Blocker
<1>6. Record(new, interruptedBy')
  BY <1>5 DEF InterruptPreparation
<1>7. /\ DOMAIN new = Unanswered
      /\ \A f \in Unanswered : new[f] \in {"blocked", "failed", "interrupted"}
                               /\ (prep[f] = "interrupted" => new[f] = "interrupted")
      /\ {"blocked", "failed", "interrupted"} \subseteq Statuses
  BY DEF Statuses
<1> HIDE DEF new, cut
<1>8. /\ answer' \in [Frames -> Statuses] /\ records' \in [Frames -> Nat]
      /\ blockedBy' \in [Frames -> Blockers]
      /\ \A f \in Frames :
           IF f \in Unanswered
           THEN /\ answer'[f] \in {"blocked", "failed", "interrupted"} /\ records'[f] = records[f] + 1
                /\ answer'[f] = "blocked" => blockedBy'[f] = interruptedBy'
                /\ prep[f] = "interrupted" => answer'[f] = "interrupted"
           ELSE answer'[f] = answer[f] /\ records'[f] = records[f] /\ blockedBy'[f] = blockedBy[f]
  BY <1>5, <1>6, <1>7, Recorded DEF IInv
<1>9. interruptedBy' \in Frames => answer'[interruptedBy'] = "interrupted"
  BY <1>3, <1>4, <1>8
<1>10. /\ interruptedBy' \in Frames => answer'[interruptedBy'] = "interrupted"
       /\ RecordsInOrder' /\ BarrierStands' /\ BarrierRaised' /\ BlockedHasCause'
  BY <1>0, <1>1, <1>4, <1>8, <1>9, InterruptedRecords
<1>11. TypeOK'
  <2>1. cursor' \in 1..(N + 1)
    BY <1>0, <1>1, PhaseUncut, Numbers
  <2> QED BY <1>0, <1>4, <1>8, <2>1 DEF IInv, TypeOK, Unprepared, Preparations
<1>12. WorkInPhase'
  BY <1>0, <1>1 DEF WorkInPhase
<1>13. InterruptionKnown'
  BY <1>0, <1>1, <1>4, <1>10, Numbers DEF InterruptionKnown
<1> QED BY <1>10, <1>11, <1>12, <1>13 DEF IInv

\* Some of the Frames that are left become the wave.
LEMMA StartWaveKeeps == ASSUME IInv, StartWave PROVE IInv'
<1>0. /\ pc = "waves" /\ wave = {} /\ todo # {} /\ interruptedBy = Nobody
      /\ wave' = NextWave(todo) /\ todo' = todo \ wave'
      /\ UNCHANGED <<batch, pc, cursor, frameVars, approved, barrier, interruptedBy,
                     aborted, prep, safe, executing, executions, pending>>
  BY DEF StartWave, BetweenWaves
<1>1. todo \subseteq Unanswered /\ Unanswered \subseteq Phase(cursor) /\ Phase(cursor) \subseteq Frames
  BY DEF IInv, WorkInPhase, Unanswered, Phase
<1>2. wave' \subseteq todo
  BY <1>0, <1>1, NextWaveSpec
<1>3. TypeOK'
  BY <1>0, <1>1, <1>2 DEF IInv, TypeOK, frameVars
<1>4. WorkInPhase'
  <2>1. Unanswered' = Unanswered /\ Phases' = Phases /\ Phase(cursor)' = Phase(cursor)
    BY <1>0 DEF Unanswered, Phase, Phases, frameVars
  <2>2. \A f \in Frames : SafeDiagnostic(f)' <=> SafeDiagnostic(f)
    BY <1>0 DEF SafeDiagnostic
  <2>3. executing = {} /\ Unanswered \subseteq todo
    BY <1>0 DEF IInv, WorkInPhase
  <2>4. \A f \in todo : prep[f] = "auto" /\ f \notin batch.deferred /\ (barrier # Nobody => SafeDiagnostic(f))
    BY DEF IInv, WorkInPhase
  <2>5. cursor \in Phases
    BY <1>0 DEF IInv, WorkInPhase
  <2>6. wave' \cup todo' = todo /\ wave' \cap todo' = {}
    BY <1>0, <1>2
  <2> QED BY <1>0, <1>1, <1>2, <2>1, <2>2, <2>3, <2>4, <2>5, <2>6 DEF WorkInPhase
<1>5. InterruptionKnown'
  BY <1>0 DEF IInv, InterruptionKnown, frameVars
<1>6. RecordsInOrder' /\ BarrierStands' /\ BarrierRaised' /\ BlockedHasCause'
  BY <1>0, RecordsUntouched
<1> QED BY <1>3, <1>4, <1>5, <1>6 DEF IInv

\* A wave that an interruption forestalls is blocked by it.
LEMMA BlockWaveKeeps == ASSUME IInv, BlockWave PROVE IInv'
<1> DEFINE S == NextWave(todo)
           new == [f \in S |-> "blocked"]
<1>0. /\ pc = "waves" /\ wave = {} /\ todo # {} /\ todo' = todo \ S
      /\ interruptedBy' = IF interruptedBy = Nobody THEN TheRun ELSE interruptedBy
      /\ UNCHANGED <<batch, pc, cursor, approved, barrier, aborted, prep, safe, wave,
                     executing, executions, pending>>
  BY DEF BlockWave, BetweenWaves
<1>1. /\ todo \subseteq Unanswered /\ todo \subseteq Frames /\ Unanswered \subseteq todo
      /\ cursor \in Phases /\ executing = {}
  BY <1>0 DEF IInv, WorkInPhase, Unanswered, Phase
<1>2. S \subseteq todo
  BY <1>0, <1>1, NextWaveSpec
<1>3. interruptedBy' \in Frames \cup {TheRun} /\ interruptedBy' # Nobody /\ interruptedBy' \in Blockers
  BY <1>0, Numbers DEF IInv, TypeOK
<1>4. Record(new, interruptedBy')
  BY <1>3 DEF BlockWave, Block, Blocker
<1>5. DOMAIN new = S /\ (\A f \in S : new[f] = "blocked") /\ "blocked" \in Statuses
  BY DEF Statuses
<1> HIDE DEF new, S
<1>6. /\ answer' \in [Frames -> Statuses] /\ records' \in [Frames -> Nat]
      /\ blockedBy' \in [Frames -> Blockers]
      /\ \A f \in Frames :
           IF f \in S
           THEN answer'[f] = "blocked" /\ records'[f] = records[f] + 1 /\ blockedBy'[f] = interruptedBy'
           ELSE answer'[f] = answer[f] /\ records'[f] = records[f] /\ blockedBy'[f] = blockedBy[f]
  BY <1>3, <1>4, <1>5, Recorded DEF IInv
<1>7. interruptedBy' = interruptedBy \/ (interruptedBy = Nobody /\ interruptedBy' = TheRun)
  BY <1>0
<1>8. S \in SUBSET Unanswered
  BY <1>1, <1>2
<1>9. /\ interruptedBy' \in Frames => answer'[interruptedBy'] = "interrupted"
      /\ RecordsInOrder' /\ BarrierStands' /\ BarrierRaised' /\ BlockedHasCause'
  BY <1>0, <1>1, <1>3, <1>6, <1>7, <1>8, InterruptedRecords, Numbers
<1>10. TypeOK'
  BY <1>0, <1>1, <1>2, <1>3, <1>6 DEF IInv, TypeOK
<1>11. WorkInPhase'
  <2>1. \A f \in Frames : f \in Unanswered' <=> f \in Unanswered /\ f \notin S
    BY <1>0, <1>6 DEF Unanswered, Phase
  <2>2. Unanswered' = todo'
    BY <1>0, <1>1, <2>1 DEF Unanswered, Phase
  <2>3. Phases' = Phases /\ Phase(cursor)' = Phase(cursor)
    BY <1>0 DEF Phase, Phases
  <2>4. \A f \in Frames : SafeDiagnostic(f)' <=> SafeDiagnostic(f)
    BY <1>0 DEF SafeDiagnostic
  <2>5. \A f \in todo : prep[f] = "auto" /\ f \notin batch.deferred /\ (barrier # Nobody => SafeDiagnostic(f))
    BY DEF IInv, WorkInPhase
  <2> QED BY <1>0, <1>1, <2>2, <2>3, <2>4, <2>5 DEF WorkInPhase
<1>12. InterruptionKnown'
  BY <1>0, <1>3, <1>9, Numbers DEF InterruptionKnown
<1> QED BY <1>9, <1>10, <1>11, <1>12 DEF IInv

\* A Command without a record is executed for the first time.
LEMMA ExecuteKeeps == ASSUME IInv, NEW f \in Frames, Execute(f) PROVE IInv'
<1>0. /\ pc = "waves" /\ f \in wave /\ f \notin executing /\ answer[f] = "none"
      /\ executing' = executing \union {f}
      /\ executions' = [executions EXCEPT ![f] = executions[f] + 1]
      /\ UNCHANGED <<batch, pc, cursor, frameVars, approved, barrier, interruptedBy,
                     aborted, prep, safe, todo, wave, pending>>
  BY DEF Execute, Waiting
<1> USE DEF frameVars
<1>1. executions \in [Frames -> Nat]
  BY DEF IInv, TypeOK
<1>2. TypeOK'
  BY <1>0, <1>1 DEF IInv, TypeOK
<1>3. f \in Unanswered /\ batch.step[f] = cursor
  BY <1>0 DEF IInv, WorkInPhase, Unanswered, Phase
<1>4. WorkInPhase'
  <2>1. Unanswered' = Unanswered /\ Phases' = Phases /\ Phase(cursor)' = Phase(cursor)
    BY <1>0 DEF Unanswered, Phase, Phases
  <2>2. \A g \in Frames : SafeDiagnostic(g)' <=> SafeDiagnostic(g)
    BY <1>0 DEF SafeDiagnostic
  <2>3. todo \subseteq Frames /\ wave \subseteq Frames
    BY DEF IInv, TypeOK
  <2> QED BY <1>0, <1>3, <2>1, <2>2, <2>3 DEF IInv, WorkInPhase
<1>5. InterruptionKnown'
  BY <1>0 DEF IInv, InterruptionKnown
<1>6. RecordsInOrder'
  <2> SUFFICES ASSUME NEW g \in Frames PROVE RecordOf(g)'
    BY DEF RecordsInOrder
  <2>1. RecordOf(g) /\ executions[g] \in Nat
    BY <1>1 DEF IInv, RecordsInOrder
  <2>2. CASE g = f
    <3>1. executions[g] = 0 /\ executions'[g] = 1
      BY <1>0, <1>1, <2>1, <2>2 DEF RecordOf
    <3>2. cursor \in Nat
      BY Numbers DEF IInv, TypeOK
    <3> QED BY <1>0, <1>3, <2>1, <2>2, <3>1, <3>2 DEF RecordOf, CutBehind
  <2>3. CASE g # f
    <3>1. executions'[g] = executions[g] /\ (g \in executing' <=> g \in executing)
      BY <1>0, <1>1, <2>3
    <3> QED BY <1>0, <2>1, <3>1 DEF RecordOf, CutBehind
  <2> QED BY <2>2, <2>3
<1>7. BarrierStands'
  BY <1>0 DEF IInv, BarrierStands, Stops
<1>8. BarrierRaised'
  BY <1>0 DEF IInv, BarrierRaised, Stops, Phases
<1>9. BlockedHasCause'
  BY <1>0, CausesKept
<1> QED BY <1>2, <1>4, <1>5, <1>6, <1>7, <1>8, <1>9 DEF IInv

\* A Command of the wave settles, executed or not.
LEMMA FrameSettles ==
  ASSUME IInv, NEW f \in wave \cap Unanswered, pc = "waves",
         NEW status \in {"completed", "failed", "interrupted"},
         Record([g \in {f} |-> status], Nobody), executing' = executing \ {f},
         UNCHANGED <<batch, pc, cursor, approved, barrier, interruptedBy, aborted, prep, safe,
                     todo, wave, executions, pending>>
  PROVE  IInv'
<1> DEFINE new == [g \in {f} |-> status]
<1>1. DOMAIN new = {f} /\ new[f] = status /\ status \in Statuses
  BY DEF Statuses
<1>2. Record(new, Nobody)
  OBVIOUS
<1> HIDE DEF new
<1>0. f \in Frames /\ batch.step[f] = cursor /\ answer[f] = "none" /\ f \in wave
      /\ f \notin todo /\ f \notin batch.deferred
      /\ cursor \in Phases /\ interruptedBy = Nobody
  BY DEF IInv, WorkInPhase, InterruptionKnown, Unanswered, Phase
<1>3. /\ answer' \in [Frames -> Statuses] /\ records' \in [Frames -> Nat]
      /\ blockedBy' \in [Frames -> Blockers]
      /\ answer'[f] = status /\ records'[f] = records[f] + 1
      /\ \A g \in Frames \ {f} :
           answer'[g] = answer[g] /\ records'[g] = records[g] /\ blockedBy'[g] = blockedBy[g]
  BY <1>0, <1>1, <1>2, Recorded, Numbers DEF IInv
<1>4. TypeOK'
  BY <1>3 DEF IInv, TypeOK
<1>5. WorkInPhase'
  <2>1. Unanswered' = Unanswered \ {f}
    BY <1>0, <1>3 DEF Unanswered, Phase
  <2>2. Phases' = Phases /\ Phase(cursor)' = Phase(cursor)
    BY DEF Phase, Phases
  <2>3. \A g \in Frames : SafeDiagnostic(g)' <=> SafeDiagnostic(g)
    BY DEF SafeDiagnostic
  <2>4. todo \subseteq Frames /\ wave \subseteq Frames
    BY DEF IInv, TypeOK
  <2> QED BY <1>0, <2>1, <2>2, <2>3, <2>4 DEF IInv, WorkInPhase
<1>6. InterruptionKnown'
  BY <1>0, <1>3, Numbers DEF IInv, InterruptionKnown
<1>7. \A g \in Frames : answer[g] # "none" => answer'[g] = answer[g] /\ blockedBy'[g] = blockedBy[g]
  BY <1>0, <1>3
<1>8. RecordsInOrder'
  <2>1. \A g \in Frames :
           \/ answer'[g] = answer[g] /\ records'[g] = records[g]
           \/ /\ g \in Unanswered /\ answer'[g] # "none" /\ records'[g] = records[g] + 1
              /\ g \in batch.deferred => answer'[g] # "completed"
              /\ pc = "waves" => answer'[g] # "denied"
    BY <1>0, <1>3
  <2>2. \A g \in executing : g \in executing' \/ answer'[g] # "none"
    BY <1>0, <1>3
  <2> QED BY <1>0, <2>1, <2>2, RecordsKept
<1>9. BarrierStands'
  <2>1. cursor' \in Nat /\ cursor' >= cursor
    BY Numbers DEF IInv, TypeOK
  <2> QED BY <1>7, <2>1, BarrierKept DEF IInv, TypeOK, Stops
<1>10. BarrierRaised'
  <2>1. \A g \in Frames : batch.step[g] < cursor => answer[g] # "none"
    BY <1>0, PhaseUncut
  <2>2. \A g \in Frames : batch.step[g] < cursor => (Stops(g)' <=> Stops(g))
    BY <1>7, <2>1 DEF Stops
  <2> QED BY <1>0, <2>2 DEF IInv, BarrierRaised
<1>11. BlockedHasCause'
  <2>1. \A g \in Frames : answer[g] = "none" => answer'[g] # "blocked"
    BY <1>0, <1>3
  <2> QED BY <1>7, <2>1, CausesKept
<1> QED BY <1>4, <1>5, <1>6, <1>8, <1>9, <1>10, <1>11 DEF IInv

\* A Command is interrupted before it is executed.
LEMMA CancelWaitKeeps == ASSUME IInv, NEW f \in Frames, CancelWait(f) PROVE IInv'
<1>1. pc = "waves" /\ f \in wave /\ f \notin executing /\ answer[f] = "none"
  BY DEF CancelWait, Waiting
<1>2. f \in Unanswered /\ executing' = executing \ {f}
  BY <1>1 DEF IInv, WorkInPhase, Unanswered, Phase, CancelWait, waveVars
<1> QED BY <1>1, <1>2, FrameSettles DEF CancelWait, waveVars

\* A Command returns or throws.
LEMMA FinishKeeps == ASSUME IInv, NEW f \in Frames, Finish(f) PROVE IInv'
<1>1. pc = "waves" /\ f \in wave \cap Unanswered
  BY DEF IInv, WorkInPhase, Finish
<1>2. PICK status \in {"completed", "failed", "interrupted"} : Record([g \in {f} |-> status], Nobody)
  BY DEF Finish
<1> QED BY <1>1, <1>2, FrameSettles DEF Finish

\* A wave is over: its first interrupted Command interrupts the run.
LEMMA EndWaveKeeps == ASSUME IInv, EndWave PROVE IInv'
<1> DEFINE cut == {f \in wave : answer[f] = "interrupted"}
<1>0. /\ pc = "waves" /\ wave # {} /\ wave' = {} /\ \A f \in wave : answer[f] # "none"
      /\ interruptedBy' = IF cut # {} THEN First(cut)
                          ELSE IF aborted THEN TheRun ELSE interruptedBy
      /\ UNCHANGED <<batch, pc, cursor, frameVars, approved, barrier, aborted, prep,
                     safe, todo, executing, executions, pending>>
  BY DEF EndWave
<1> USE DEF frameVars
<1>1. interruptedBy = Nobody /\ executing = {} /\ cursor \in Phases /\ wave \subseteq Frames
  BY <1>0 DEF IInv, InterruptionKnown, WorkInPhase, Unanswered, TypeOK
<1>2. cut \in SUBSET Frames /\ \A f \in wave : f \in cut <=> answer[f] = "interrupted"
  BY <1>1
<1>3. interruptedBy' \in Frames \cup {Nobody, TheRun}
      /\ (interruptedBy' \in Frames => answer[interruptedBy'] = "interrupted")
      /\ (interruptedBy' = Nobody => cut = {})
  <2>1. \A f \in cut : answer[f] = "interrupted"
    OBVIOUS
  <2> HIDE DEF cut
  <2> QED BY <1>0, <1>1, <1>2, <2>1, FirstSpec, Numbers
<1>4. TypeOK'
  BY <1>0, <1>3 DEF IInv, TypeOK
<1>5. WorkInPhase'
  <2>1. Unanswered' = Unanswered /\ Phases' = Phases /\ Phase(cursor)' = Phase(cursor)
    BY <1>0 DEF Unanswered, Phase, Phases
  <2>2. \A g \in Frames : SafeDiagnostic(g)' <=> SafeDiagnostic(g)
    BY <1>0 DEF SafeDiagnostic
  <2>3. todo \subseteq Frames /\ Unanswered \subseteq todo
    BY <1>0 DEF IInv, TypeOK, WorkInPhase, Unanswered
  <2> QED BY <1>0, <1>1, <2>1, <2>2, <2>3 DEF IInv, WorkInPhase
<1>6. InterruptionKnown'
  <2> HIDE DEF cut
  <2> QED BY <1>0, <1>1, <1>2, <1>3 DEF IInv, InterruptionKnown
<1>7. RecordsInOrder'
  BY <1>0 DEF IInv, RecordsInOrder, RecordOf, CutBehind
<1>8. BarrierStands'
  BY <1>0 DEF IInv, BarrierStands, Stops
<1>9. BarrierRaised'
  BY <1>0, <1>1 DEF IInv, BarrierRaised, Stops, Phases
<1>10. BlockedHasCause'
  BY <1>0, <1>1, CausesKept
<1> QED BY <1>4, <1>5, <1>6, <1>7, <1>8, <1>9, <1>10 DEF IInv

\* A phase is over: it commits its barrier, or the run is interrupted.
LEMMA EndPhaseKeeps == ASSUME IInv, EndPhase PROVE IInv'
<1>0. /\ pc = "waves" /\ wave = {} /\ todo = {} /\ cursor' = cursor + 1 /\ pc' = "phase"
      /\ prep' = Unprepared /\ safe' = [f \in Frames |-> FALSE]
      /\ UNCHANGED <<batch, approved, interruptedBy, aborted, todo, wave, executing, executions, pending>>
  BY DEF EndPhase, BetweenWaves, NextPhase, Forget, waveVars
<1>1. cursor \in Phases /\ Unanswered = {} /\ executing = {}
  BY <1>0 DEF IInv, WorkInPhase
<1>2. cursor' \in 1..(N + 1) /\ prep' \in [Frames -> Preparations] /\ safe' \in [Frames -> BOOLEAN]
  <2>1. cursor \in Frames
    BY <1>1, PhaseUncut
  <2> QED BY <1>0, <2>1, Numbers DEF Unprepared, Preparations
<1>3. UNCHANGED frameVars
  <2>1. CASE interruptedBy # Nobody
    <3> DEFINE new == [f \in Unanswered |-> "blocked"]
    <3>1. Record(new, Blocker(interruptedBy)) /\ DOMAIN new = {}
      BY <1>1, <2>1 DEF EndPhase, Block
    <3> HIDE DEF new
    <3> QED BY <3>1 DEF Record, frameVars, IInv, TypeOK
  <2>2. CASE interruptedBy = Nobody
    BY <2>2 DEF EndPhase
  <2> QED BY <2>1, <2>2
<1> USE DEF frameVars
<1>4. barrier' \in Frames \union {Nobody} /\ BarrierStands' /\ BarrierRaised'
  <2>1. CASE interruptedBy # Nobody
    <3>1. barrier' = barrier
      BY <2>1 DEF EndPhase
    <3>2. cursor' \in Nat /\ cursor' >= cursor
      <4>1. cursor \in Frames
        BY <1>1, PhaseUncut
      <4> QED BY <1>0, <4>1, Numbers
    <3>3. BarrierStands'
      BY <1>0, <1>3, <3>1, <3>2, BarrierKept DEF IInv, TypeOK
    <3> QED BY <1>0, <2>1, <3>1, <3>3 DEF BarrierRaised, IInv, TypeOK
  <2>2. CASE interruptedBy = Nobody
    <3>1. barrier' = BarrierAfter(cursor)
      BY <2>2 DEF EndPhase
    <3> QED BY <1>0, <1>1, <1>3, <3>1, BarrierCommitted
  <2> QED BY <2>1, <2>2
<1>5. TypeOK'
  BY <1>0, <1>2, <1>3, <1>4 DEF IInv, TypeOK
<1>6. WorkInPhase'
  BY <1>0, <1>1 DEF WorkInPhase
<1>7. InterruptionKnown'
  BY <1>0, <1>3 DEF IInv, InterruptionKnown
<1>8. RecordsInOrder'
  BY <1>0, <1>1, <1>3, RecordsKept
<1>9. BlockedHasCause'
  BY <1>0, <1>3, CausesKept
<1> QED BY <1>4, <1>5, <1>6, <1>7, <1>8, <1>9 DEF IInv

\* The run has no phase left.
LEMMA CompleteKeeps == ASSUME IInv, Complete PROVE IInv'
<1>0. /\ pc = "phase" /\ pc' = "completed" /\ cursor \notin Phases
      /\ UNCHANGED <<batch, cursor, frameVars, approved, barrier, interruptedBy,
                     aborted, prep, safe, waveVars, pending>>
  BY DEF Complete
<1> USE DEF frameVars, waveVars
<1>1. TypeOK' /\ WorkInPhase' /\ InterruptionKnown'
  BY <1>0 DEF IInv, TypeOK, WorkInPhase, InterruptionKnown, Phases
<1> QED BY <1>0, <1>1, RecordsUntouched DEF IInv

\* The signal fires.
LEMMA AbortKeeps == ASSUME IInv, Abort PROVE IInv'
<1>0. /\ aborted' = TRUE
      /\ UNCHANGED <<batch, pc, cursor, frameVars, approved, barrier, interruptedBy,
                     prep, safe, waveVars, pending>>
  BY DEF Abort
<1> USE DEF frameVars, waveVars
<1>1. TypeOK' /\ InterruptionKnown'
  BY <1>0 DEF IInv, TypeOK, InterruptionKnown
<1>2. WorkInPhase'
  BY <1>0 DEF IInv, WorkInPhase, Unanswered, Phase, Phases, SafeDiagnostic
<1> QED BY <1>0, <1>1, <1>2, RecordsUntouched DEF IInv

\* The checkpoint is refused.
LEMMA RejectResumeKeeps == ASSUME IInv, RejectResume PROVE IInv'
<1>0. /\ pc \in {"approval", "deferred"} /\ pc' = "rejected"
      /\ UNCHANGED <<batch, cursor, frameVars, approved, barrier, interruptedBy,
                     aborted, prep, safe, waveVars, pending>>
  BY DEF RejectResume
<1> USE DEF frameVars, waveVars
<1>1. TypeOK' /\ InterruptionKnown'
  BY <1>0 DEF IInv, TypeOK, InterruptionKnown
<1>2. WorkInPhase'
  BY <1>0 DEF IInv, WorkInPhase
<1> QED BY <1>0, <1>1, <1>2, RecordsUntouched DEF IInv

\* A suspended run has committed its barrier: recomputing it finds none.
LEMMA NothingToRecompute ==
  ASSUME IInv, cursor \in Phases, interruptedBy = Nobody, barrier = Nobody
  PROVE  RecomputedBarrier = Nobody
<1>1. ASSUME NEW p \in 1..(cursor - 1), RecomputedBarrier \in Stopping(p, answer) PROVE FALSE
  <2>1. PICK f \in Frames : f = RecomputedBarrier
    BY <1>1 DEF Stopping, Phase
  <2>2. batch.step[f] = p /\ Stops(f)
    BY <1>1, <2>1, StoppingIsStops
  <2>3. p < cursor
    <3>1. cursor \in Frames
      BY PhaseUncut
    <3> QED BY <3>1, Numbers
  <2> QED BY <2>2, <2>3 DEF IInv, BarrierRaised
<1> QED BY <1>1, RecomputedSpec

\* A resumed run stands where the suspended one stood.
LEMMA RestoreSpec ==
  ASSUME IInv, pc \in {"approval", "deferred"}, Restore
  PROVE  /\ cursor \in Phases /\ interruptedBy = Nobody
         /\ UNCHANGED <<batch, barrier, interruptedBy, prep, safe, todo, wave, executing, executions>>
         /\ aborted' = FALSE /\ pending' = {} /\ pc' = "phase"
         /\ todo = {} /\ wave = {} /\ executing = {}
<1>1. cursor \in Phases /\ interruptedBy = Nobody /\ todo = {} /\ wave = {} /\ executing = {}
  BY DEF IInv, WorkInPhase, InterruptionKnown
<1> QED BY <1>1, NothingToRecompute DEF Restore, waveVars

\* The Commands that the user denies are recorded, the phase starts anew.
LEMMA ResumeApprovalsKeeps == ASSUME IInv, ResumeApprovals PROVE IInv'
<1>0. pc = "approval" /\ Restore /\ cursor' = cursor
  BY DEF ResumeApprovals
<1>1. PICK granted \in SUBSET pending :
        approved' = approved \union granted /\ Record([f \in pending \ granted |-> "denied"], Nobody)
  BY DEF ResumeApprovals
<1>2. /\ cursor \in Phases /\ interruptedBy = Nobody
      /\ UNCHANGED <<batch, barrier, interruptedBy, prep, safe, todo, wave, executing, executions>>
      /\ aborted' = FALSE /\ pending' = {} /\ pc' = "phase"
      /\ todo = {} /\ wave = {} /\ executing = {}
  BY <1>0, RestoreSpec
<1>3. pending \subseteq Unanswered /\ pending \subseteq Frames
  BY <1>0 DEF IInv, WorkInPhase, TypeOK
<1> DEFINE S == pending \ granted
           new == [f \in S |-> "denied"]
<1>4. Record(new, Nobody)
  BY <1>1
<1>5. DOMAIN new = S /\ (\A f \in S : new[f] = "denied") /\ "denied" \in Statuses /\ S \subseteq Unanswered
  BY <1>3 DEF Statuses
<1> HIDE DEF new, S
<1>6. /\ answer' \in [Frames -> Statuses] /\ records' \in [Frames -> Nat]
      /\ blockedBy' \in [Frames -> Blockers]
      /\ \A f \in Frames :
           IF f \in S
           THEN answer'[f] = "denied" /\ records'[f] = records[f] + 1
           ELSE answer'[f] = answer[f] /\ records'[f] = records[f] /\ blockedBy'[f] = blockedBy[f]
  BY <1>4, <1>5, Recorded, Numbers DEF IInv
<1>7. \A f \in Frames : f \in Unanswered <=> batch.step[f] = cursor /\ answer[f] = "none"
  BY DEF Unanswered, Phase
<1>8. \A f \in Frames : answer[f] # "none" => answer'[f] = answer[f] /\ blockedBy'[f] = blockedBy[f]
  BY <1>5, <1>6, <1>7
<1>9. TypeOK'
  BY <1>0, <1>1, <1>2, <1>3, <1>6 DEF IInv, TypeOK
<1>10. WorkInPhase'
  BY <1>2 DEF WorkInPhase
<1>11. InterruptionKnown'
  BY <1>2, <1>6, Numbers DEF IInv, InterruptionKnown
<1>12. RecordsInOrder'
  <2>1. \A f \in Frames :
           \/ answer'[f] = answer[f] /\ records'[f] = records[f]
           \/ /\ f \in Unanswered /\ answer'[f] # "none" /\ records'[f] = records[f] + 1
              /\ f \in batch.deferred => answer'[f] # "completed"
              /\ pc = "waves" => answer'[f] # "denied"
    BY <1>0, <1>5, <1>6
  <2> QED BY <1>0, <1>2, <2>1, RecordsKept
<1>13. BarrierStands'
  <2>1. cursor' \in Nat /\ cursor' >= cursor
    BY <1>0, Numbers DEF IInv, TypeOK
  <2> QED BY <1>2, <1>8, <2>1, BarrierKept DEF IInv, TypeOK, Stops
<1>14. BarrierRaised'
  <2>1. \A f \in Frames : batch.step[f] < cursor => answer[f] # "none"
    BY <1>2, PhaseUncut
  <2>2. \A f \in Frames : batch.step[f] < cursor => (Stops(f)' <=> Stops(f))
    BY <1>2, <1>8, <2>1 DEF Stops
  <2> QED BY <1>0, <1>2, <2>2 DEF IInv, BarrierRaised
<1>15. BlockedHasCause'
  <2>1. \A f \in Frames : answer[f] = "none" => answer'[f] # "blocked"
    BY <1>6
  <2> QED BY <1>2, <1>8, <2>1, CausesKept
<1> QED BY <1>9, <1>10, <1>11, <1>12, <1>13, <1>14, <1>15 DEF IInv

\* The host answers a deferred Command: the rest of the batch is blocked by it.
LEMMA ResumeDeferredKeeps == ASSUME IInv, ResumeDeferred PROVE IInv'
<1>0. pc = "deferred" /\ Restore /\ cursor' = N + 1 /\ approved' = approved
  BY DEF ResumeDeferred
<1>1. PICK d \in pending : Record([f \in d..N |-> IF f = d THEN "completed" ELSE "blocked"], d)
  BY DEF ResumeDeferred
<1>2. /\ cursor \in Phases /\ interruptedBy = Nobody
      /\ UNCHANGED <<batch, barrier, interruptedBy, prep, safe, todo, wave, executing, executions>>
      /\ aborted' = FALSE /\ pending' = {} /\ pc' = "phase"
      /\ todo = {} /\ wave = {} /\ executing = {}
  BY <1>0, RestoreSpec
<1>3. d \in Frames /\ d \in batch.deferred /\ batch.step[d] = cursor /\ answer[d] = "none"
  BY <1>0 DEF IInv, WorkInPhase, Unanswered, Phase
<1> DEFINE new == [f \in d..N |-> IF f = d THEN "completed" ELSE "blocked"]
<1>4. Record(new, d) /\ d \in Blockers
  BY <1>1, <1>3, Numbers
<1>5. /\ \A f \in Frames : f \in DOMAIN new <=> f >= d
      /\ \A f \in DOMAIN new : new[f] = IF f = d THEN "completed" ELSE "blocked"
      /\ {"completed", "blocked"} \subseteq Statuses
  BY <1>3, NAssumption DEF Frames, Statuses
<1> HIDE DEF new
<1>6. /\ answer' \in [Frames -> Statuses] /\ records' \in [Frames -> Nat]
      /\ blockedBy' \in [Frames -> Blockers]
      /\ \A f \in Frames :
           IF f >= d
           THEN /\ answer'[f] = IF f = d THEN "completed" ELSE "blocked"
                /\ records'[f] = records[f] + 1
                /\ f # d => blockedBy'[f] = d
           ELSE answer'[f] = answer[f] /\ records'[f] = records[f] /\ blockedBy'[f] = blockedBy[f]
  BY <1>4, <1>5, Recorded DEF IInv
<1>7. \A f \in Frames : (f >= d => batch.step[f] >= cursor) /\ (~(f >= d) => f < d /\ batch.step[f] <= cursor)
  <2>1. ASSUME NEW f \in Frames PROVE f \in Nat /\ d \in Nat
    BY <1>3, Numbers
  <2> QED BY <1>3, <2>1, StepsMonotone DEF IInv, TypeOK
<1>8. \A f \in Frames : batch.step[f] \in Frames /\ batch.step[f] \in Nat /\ f \in Nat
  BY BatchType, Numbers DEF IInv, TypeOK
<1>9. cursor \in Frames /\ cursor \in Nat /\ cursor' \notin Phases' /\ cursor' > cursor /\ cursor' \in Nat
      /\ cursor' \in 1..(N + 1) /\ d \in Nat
  <2>1. cursor \in Frames /\ Phases \subseteq Frames /\ Phases' = Phases
    BY <1>2, PhaseUncut, BatchType DEF IInv, TypeOK, Phases
  <2> QED BY <1>0, <1>3, <2>1, Numbers, NAssumption DEF Frames
<1>10. \A f \in Frames :
         /\ records[f] <= 1 /\ (batch.step[f] < cursor => answer[f] # "none")
         /\ ~(f \in batch.deferred /\ answer[f] = "completed")
  BY <1>2, PhaseUncut
<1>11. TypeOK'
  BY <1>0, <1>2, <1>6, <1>9 DEF IInv, TypeOK
<1>12. WorkInPhase'
  BY <1>2 DEF WorkInPhase
<1>13. InterruptionKnown'
  <2>1. \A f \in Frames : answer[f] # "interrupted"
    BY <1>2 DEF IInv, InterruptionKnown
  <2> QED BY <1>2, <1>6, <2>1, Numbers DEF InterruptionKnown
<1>14. RecordsInOrder'
  <2> SUFFICES ASSUME NEW f \in Frames PROVE RecordOf(f)'
    BY DEF RecordsInOrder
  <2>1. RecordOf(f) /\ records[f] \in Nat
    BY DEF IInv, RecordsInOrder, TypeOK
  <2>2. batch.step[f] <= N /\ batch.step[f] >= 1 /\ f <= N /\ f >= 1
    BY <1>8, NAssumption DEF Frames
  <2>3. d <= N /\ d >= 1
    BY <1>3, NAssumption DEF Frames
  <2>4. \A g \in Frames : batch.step[g] = cursor => CutBehind(d, g)'
    BY <1>2, <1>3, <1>6, <1>9 DEF CutBehind
  <2>5. CASE f >= d
    <3>1. records'[f] > 1 => batch.step[f] = cursor /\ f # d
      <4> SUFFICES ASSUME records'[f] > 1 PROVE batch.step[f] = cursor /\ f # d
        OBVIOUS
      <4>1. records'[f] = records[f] + 1 /\ batch.step[f] >= cursor
        BY <1>6, <1>7, <2>5
      <4>2. records[f] # 0
        BY <2>1, <4>1
      <4>3. answer[f] # "none" /\ ~(batch.step[f] > cursor)
        BY <2>1, <4>2 DEF RecordOf
      <4>4. batch.step[f] \in Nat /\ cursor \in Nat
        BY <1>8, <1>9
      <4> QED BY <1>3, <4>1, <4>3, <4>4
    <3>2. records'[f] > 1 => \E e \in 1..(f - 1) : CutBehind(e, f)'
      <4>1. f \in Nat /\ d \in Nat
        BY <1>8, <1>9
      <4>2. f # d => d \in 1..(f - 1)
        BY <2>3, <2>5, <4>1
      <4> QED BY <2>4, <3>1, <4>2
    <3>3. answer'[f] \in {"completed", "blocked"} /\ records'[f] # 0
      BY <1>6, <2>1, <2>5
    <3> QED BY <1>0, <1>2, <1>8, <2>1, <2>2, <3>2, <3>3, NAssumption DEF RecordOf
  <2>6. CASE ~(f >= d)
    <3>1. answer'[f] = answer[f] /\ records'[f] = records[f]
      BY <1>6, <2>6
    <3>2. answer[f] # "none" \/ batch.step[f] = cursor
      <4>1. batch.step[f] \in Nat /\ cursor \in Nat /\ batch.step[f] <= cursor
        BY <1>7, <1>8, <1>9, <2>6
      <4>2. batch.step[f] < cursor \/ batch.step[f] = cursor
        BY <4>1
      <4> QED BY <1>10, <4>2
    <3>3. d \in (f + 1)..N
      BY <1>8, <1>9, <2>2, <2>3, <2>6
    <3>4. answer'[f] # "none" \/ \E e \in (f + 1)..N : CutBehind(e, f)'
      BY <2>4, <3>1, <3>2, <3>3
    <3>5. records[f] <= 1
      BY <1>10
    <3> QED BY <1>0, <1>2, <1>8, <2>1, <2>2, <3>1, <3>4, <3>5, NAssumption DEF RecordOf
  <2> QED BY <2>5, <2>6
<1>15. \A f \in Frames : batch.step[f] < cursor => answer'[f] = answer[f]
  BY <1>6, <1>7, <1>8, <1>9
<1>16. BarrierStands'
  BY <1>2, <1>9, <1>15, BarrierKept DEF IInv, TypeOK
<1>17. BarrierRaised'
  BY <1>9 DEF BarrierRaised
<1>18. BlockedHasCause'
  <2> SUFFICES ASSUME NEW f \in Frames, answer'[f] = "blocked" PROVE Cause(blockedBy[f], f)'
    BY DEF BlockedHasCause
  <2>1. CASE f >= d
    <3>1. blockedBy'[f] = d /\ d < f /\ answer'[d] = "completed"
      BY <1>3, <1>6, <1>8, <1>9, <2>1
    <3> QED BY <1>2, <1>3, <1>9, <3>1 DEF Cause
  <2>2. CASE ~(f >= d)
    <3>1. PICK b : b = blockedBy[f]
      OBVIOUS
    <3>2. answer[f] = "blocked" /\ blockedBy'[f] = b
      BY <1>6, <2>2, <3>1
    <3>3. b \in Frames \ {f} /\ batch.step[b] < batch.step[f] /\ Stops(b)
      <4>1. Cause(b, f)
        BY <3>1, <3>2 DEF IInv, BlockedHasCause
      <4> QED BY <1>2, <1>10, <4>1, Numbers DEF Cause
    <3>4. batch.step[b] < cursor
      <4>1. batch.step[f] \in Nat /\ batch.step[b] \in Nat /\ cursor \in Nat /\ batch.step[f] <= cursor
        BY <1>7, <1>8, <1>9, <2>2, <3>3
      <4> QED BY <3>3, <4>1
    <3>5. Stops(b)'
      BY <1>2, <1>15, <3>3, <3>4 DEF Stops
    <3> QED BY <1>2, <3>2, <3>3, <3>5 DEF Cause
  <2> QED BY <2>1, <2>2
<1> QED BY <1>11, <1>12, <1>13, <1>14, <1>16, <1>17, <1>18 DEF IInv

\* No step of the run breaks the invariant.
LEMMA NextIInv == ASSUME IInv, [Next]_vars PROVE IInv'
<1>1. CASE SkipPhase
  BY <1>1, SkipPhaseKeeps
<1>2. CASE BlockPhase
  BY <1>2, BlockPhaseKeeps
<1>3. CASE PreparePhase
  BY <1>3, PreparePhaseKeeps
<1>4. CASE InterruptPreparation
  BY <1>4, InterruptPreparationKeeps
<1>5. CASE SuspendForApprovals \/ SuspendForDeferred
  BY <1>5, SuspendKeeps
<1>6. CASE StartWaves
  BY <1>6, StartWavesKeeps
<1>7. CASE StartWave
  BY <1>7, StartWaveKeeps
<1>8. CASE BlockWave
  BY <1>8, BlockWaveKeeps
<1>9. CASE EndWave
  BY <1>9, EndWaveKeeps
<1>10. CASE EndPhase
  BY <1>10, EndPhaseKeeps
<1>11. CASE Complete
  BY <1>11, CompleteKeeps
<1>12. ASSUME NEW f \in Frames, Prepare(f) \/ PrepareFails(f) PROVE IInv'
  BY <1>12, PrepareKeeps
<1>13. ASSUME NEW f \in Frames, Execute(f) PROVE IInv'
  BY <1>13, ExecuteKeeps
<1>14. ASSUME NEW f \in Frames, CancelWait(f) PROVE IInv'
  BY <1>14, CancelWaitKeeps
<1>15. ASSUME NEW f \in Frames, Finish(f) PROVE IInv'
  BY <1>15, FinishKeeps
<1>16. CASE ResumeApprovals
  BY <1>16, ResumeApprovalsKeeps
<1>17. CASE ResumeDeferred
  BY <1>17, ResumeDeferredKeeps
<1>18. CASE RejectResume
  BY <1>18, RejectResumeKeeps
<1>19. CASE Abort
  BY <1>19, AbortKeeps
<1>20. CASE UNCHANGED vars
  <2> USE <1>20 DEF vars, frameVars, waveVars
  <2>1. TypeOK' /\ InterruptionKnown'
    BY DEF IInv, TypeOK, InterruptionKnown
  <2>2. WorkInPhase'
    BY DEF IInv, WorkInPhase, Unanswered, Phase, Phases, SafeDiagnostic
  <2> QED BY <2>1, <2>2, RecordsUntouched DEF IInv
<1> QED
  BY <1>1, <1>2, <1>3, <1>4, <1>5, <1>6, <1>7, <1>8, <1>9, <1>10, <1>11, <1>12, <1>13,
     <1>14, <1>15, <1>16, <1>17, <1>18, <1>19, <1>20 DEF Next, RunStep, Ended

\* The invariant holds throughout.
LEMMA Invariance == Spec => []IInv
BY InitIInv, NextIInv, PTL DEF Spec

-----------------------------------------------------------------------------
(***************************************************************************)
(* What follows from the invariant                                         *)
(***************************************************************************)

\* Every variable has its type: the cursor never leaves the batch, the
\* barrier and the interruption name a Frame, nobody or the run.
THEOREM TypeCorrect == Spec => []TypeOK
<1>1. IInv => TypeOK
  BY DEF IInv
<1> QED BY <1>1, Invariance, PTL

\* Whatever is suspended, denied, aborted and resumed, no Command runs twice,
\* and one is recorded twice only behind a deferred Command of its step that
\* the host answered (executeState, applyResumeDecisions).
THEOREM RecordedOnce == Spec => []OneRecordEach
<1>1. IInv => OneRecordEach
  BY DEF IInv, RecordsInOrder, RecordOf, OneRecordEach
<1> QED BY <1>1, Invariance, PTL

\* A Command runs only when every lower step is settled, and past a failed
\* or denied Command of a lower step only as a safe diagnostic.
THEOREM PhasesInOrder == Spec => []PhaseOrder
<1>1. ASSUME IInv, NEW f \in executing, NEW g \in Frames, batch.step[g] < batch.step[f]
      PROVE  /\ answer[g] \notin {"none", "interrupted"}
             /\ g \in Stopping(batch.step[g], answer) => SafeDiagnostic(f)
  <2>1. f \in wave /\ batch.step[f] = cursor /\ pc = "waves" /\ cursor \in Phases
    BY <1>1 DEF IInv, WorkInPhase, Unanswered, Phase
  <2>2. interruptedBy = Nobody /\ (answer[g] = "interrupted" => batch.step[g] = cursor)
    BY <1>1, <2>1 DEF IInv, InterruptionKnown, WorkInPhase, Phase
  <2>3. batch.step[g] \in Nat /\ cursor \in Nat
    <3>1. batch.step[g] \in Frames /\ cursor \in Frames
      BY <1>1, <2>1, BatchType, PhaseUncut DEF IInv, TypeOK
    <3> QED BY <3>1, Numbers
  <2>4. answer[g] # "none"
    BY <1>1, <2>1, PhaseUncut
  <2>5. g \in Stopping(batch.step[g], answer) => Stops(g)
    BY StoppingIsStops
  <2>6. Stops(g) => barrier # Nobody
    BY <1>1, <2>1, <2>2 DEF IInv, BarrierRaised
  <2>7. barrier # Nobody => SafeDiagnostic(f)
    BY <1>1, <2>1 DEF IInv, WorkInPhase
  <2> QED BY <1>1, <2>1, <2>2, <2>3, <2>4, <2>5, <2>6, <2>7
<1>2. IInv => PhaseOrder
  BY <1>1 DEF PhaseOrder
<1> QED BY <1>2, Invariance, PTL

\* While the run waits for a decision nothing of its step has run, a Command
\* that needs an approval runs only with one, and a denied one never runs.
THEOREM DecisionsFirst == Spec => []NothingRunsBeforeDecision
<1>1. ASSUME IInv, NEW f \in Frames
      PROVE  /\ Suspended /\ batch.step[f] >= cursor => executions[f] = 0
             /\ answer[f] = "denied" => executions[f] = 0
             /\ f \in executing => prep[f] # "required"
  <2>1. RecordOf(f)
    BY <1>1 DEF IInv, RecordsInOrder
  <2>3. batch.step[f] \in Nat /\ cursor \in Nat
    <3>1. batch.step[f] \in Frames
      BY <1>1, BatchType DEF IInv, TypeOK
    <3>2. cursor \in Nat
      BY <1>1, NAssumption DEF IInv, TypeOK
    <3> QED BY <3>1, <3>2, Numbers
  <2>2. f \in executing => prep[f] = "auto"
    BY <1>1 DEF IInv, WorkInPhase
  <2> QED BY <2>1, <2>2, <2>3 DEF RecordOf, Suspended
<1>2. IInv => NothingRunsBeforeDecision
  BY <1>1 DEF NothingRunsBeforeDecision
<1> QED BY <1>2, Invariance, PTL

\* A blocked Command always names what really blocked it, so the fallback
\* blocker is never recorded (blockerFor).
THEOREM BlockersAreCauses == Spec => []BlockedByCause
<1>1. ASSUME IInv, NEW f \in Frames, answer[f] = "blocked"
      PROVE  \/ blockedBy[f] = TheRun /\ interruptedBy = TheRun
             \/ LET b == blockedBy[f]
                IN  /\ b \in Frames \ {f}
                    /\ \/ answer[b] = "interrupted" /\ interruptedBy = b
                       \/ batch.step[b] < batch.step[f] /\ b \in Stopping(batch.step[b], answer)
                       \/ b < f /\ b \in batch.deferred /\ answer[b] = "completed"
  <2>1. PICK b : b = blockedBy[f]
    OBVIOUS
  <2>2. Cause(b, f)
    BY <1>1, <2>1 DEF IInv, BlockedHasCause
  <2>3. b \in Frames => (Stops(b) <=> b \in Stopping(batch.step[b], answer))
    BY StoppingIsStops
  <2> QED BY <2>1, <2>2, <2>3 DEF Cause
<1>2. IInv => BlockedByCause
  BY <1>1 DEF BlockedByCause
<1> QED BY <1>2, Invariance, PTL

\* A completed run leaves no Command without a record, but for those ahead of
\* a deferred Command of their step that the host answered.
THEOREM AnswersKept == Spec => []AnswersComplete
<1>1. ASSUME IInv, pc = "completed", NEW f \in Frames
      PROVE  answer[f] # "none" \/ \E d \in (f + 1)..N : CutBehind(d, f)
  <2>1. cursor \in 1..(N + 1) /\ cursor \notin Phases
    BY <1>1 DEF IInv, TypeOK, WorkInPhase
  <2>2. batch.step[f] < cursor
    BY <1>1, <2>1, PhasesContiguous DEF IInv, TypeOK
  <2> QED BY <1>1, <2>2 DEF IInv, RecordsInOrder, RecordOf
<1>2. IInv => AnswersComplete
  BY <1>1 DEF AnswersComplete
<1> QED BY <1>2, Invariance, PTL

\* A checkpoint loses nothing: the run is not interrupted, no wave is left,
\* and restoreState finds no barrier that the checkpoint does not carry.
THEOREM CheckpointsLoseNothing == Spec => []CheckpointComplete
<1>1. ASSUME IInv, Suspended
      PROVE  /\ interruptedBy = Nobody
             /\ todo = {} /\ wave = {} /\ executing = {}
             /\ barrier = Nobody => RecomputedBarrier = Nobody
  <2>1. cursor \in Phases /\ interruptedBy = Nobody /\ todo = {} /\ wave = {} /\ executing = {}
    BY <1>1 DEF IInv, WorkInPhase, InterruptionKnown, Suspended
  <2> QED BY <1>1, <2>1, NothingToRecompute
<1>2. IInv => CheckpointComplete
  BY <1>1 DEF CheckpointComplete
<1> QED BY <1>2, Invariance, PTL
=============================================================================
