-------------------------- MODULE EnvironmentGate ---------------------------
(***************************************************************************)
(* The read/write gate every command passes before it touches an           *)
(* Environment (features/environment/gate.ts).  All Agents whose handles   *)
(* name the same Environment generation share one gate, so its callers are *)
(* the operations of different Command Runs, each with the AbortSignal of  *)
(* its run.                                                                *)
(*                                                                         *)
(* The gate runs on one event loop: a method runs to its end before any    *)
(* other, and granting only resolves a promise, so the granted caller      *)
(* resumes in a later step.                                                *)
(***************************************************************************)
EXTENDS Integers, Sequences, FiniteSets

CONSTANT Callers      \* the operations that use one gate

ASSUME CallersFinite == IsFiniteSet(Callers)

VARIABLES
  mode,           \* the mode each caller asked for last
  stage,          \* where each caller is: idle, waiting, granted, running
  aborted,        \* the callers whose AbortSignal has fired
  queue,          \* this.queue, oldest waiter first
  activeReaders,  \* this.activeReaders
  writerActive    \* this.writerActive

vars == <<mode, stage, aborted, queue, activeReaders, writerActive>>

Modes  == {"shared", "exclusive"}
Stages == {"idle", "waiting", "granted", "running"}

Init ==
  /\ mode = [c \in Callers |-> "shared"]
  /\ stage = [c \in Callers |-> "idle"]
  /\ aborted = {}
  /\ queue = <<>>
  /\ activeReaders = 0
  /\ writerActive = FALSE

-----------------------------------------------------------------------------
(***************************************************************************)
(* dispatch                                                                *)
(***************************************************************************)

\* How many waiters at the front of q ask for the shared mode.
SharedPrefix(q, modes) ==
  CHOOSE n \in 0..Len(q) :
    /\ \A i \in 1..n : modes[q[i]] = "shared"
    /\ n < Len(q) => modes[q[n + 1]] = "exclusive"

\* MUTANT of Grantable: a writer enters while readers are inside.
GrantableIgnoringReaders(q, modes, readers, writer) ==
  IF writer \/ q = <<>> THEN 0
  ELSE IF modes[Head(q)] = "exclusive" THEN 1 ELSE SharedPrefix(q, modes)

\* How many waiters at the front of q one dispatch lets in.
Grantable(q, modes, readers, writer) ==
  IF writer \/ q = <<>> THEN 0
  ELSE IF modes[Head(q)] = "exclusive"
       THEN IF readers > 0 THEN 0 ELSE 1
       ELSE SharedPrefix(q, modes)

\* MUTANT of Dispatch: without a writer inside, every waiting reader enters,
\* those behind a waiting writer too.
DispatchReadersFirst(q, modes, readers, writer, st) ==
  LET reader(c) == modes[c] = "shared"
      granted == IF writer \/ q = <<>> THEN {}
                 ELSE IF readers = 0 /\ ~reader(Head(q)) THEN {Head(q)}
                 ELSE {c \in {q[i] : i \in 1..Len(q)} : reader(c)}
  IN  /\ queue' = SelectSeq(q, LAMBDA c : c \notin granted)
      /\ activeReaders' = readers + Cardinality({c \in granted : reader(c)})
      /\ writerActive' = (writer \/ \E c \in granted : ~reader(c))
      /\ stage' = [c \in Callers |-> IF c \in granted THEN "granted"
                                                      ELSE st[c]]

(***************************************************************************)
(* The tail of acquire, of the abort listener and of both release          *)
(* callbacks: dispatch a queue q given the counters the caller has just    *)
(* updated and the stages st of the callers.                               *)
(***************************************************************************)
Dispatch(q, modes, readers, writer, st) ==
  LET n       == Grantable(q, modes, readers, writer)
      granted == {q[i] : i \in 1..n}
      asWriter == n > 0 /\ modes[Head(q)] = "exclusive"
  IN  /\ queue' = SubSeq(q, n + 1, Len(q))
      /\ activeReaders' = IF asWriter THEN readers ELSE readers + n
      /\ writerActive' = (writer \/ asWriter)
      /\ stage' = [c \in Callers |-> IF c \in granted THEN "granted"
                                                      ELSE st[c]]

(***************************************************************************)
(* release: give up what c holds and dispatch.                             *)
(***************************************************************************)
Release(c) ==
  LET st == [stage EXCEPT ![c] = "idle"]
  IN  IF mode[c] = "exclusive"
      THEN Dispatch(queue, mode, activeReaders, FALSE, st)
      ELSE Dispatch(queue, mode, activeReaders - 1, writerActive, st)

\* The abort listener's indexOf and splice: q without the waiter c.
Without(q, c) ==
  LET at == CHOOSE i \in 1..Len(q) : q[i] = c
  IN  [i \in 1..(Len(q) - 1) |-> IF i < at THEN q[i] ELSE q[i + 1]]

-----------------------------------------------------------------------------
(***************************************************************************)
(* The operations                                                          *)
(***************************************************************************)

\* runShared and runExclusive up to the await in run: queue up and dispatch.
\* A signal that already fired throws before the waiter is made.
Request(c, m) ==
  /\ stage[c] = "idle"
  /\ c \notin aborted
  /\ mode' = [mode EXCEPT ![c] = m]
  /\ Dispatch(Append(queue, c), mode', activeReaders, writerActive,
              [stage EXCEPT ![c] = "waiting"])
  /\ UNCHANGED aborted

\* MUTANT of Abort: the listener removes the waiter and does not dispatch.
AbortWithoutDispatch(c) ==
  /\ c \notin aborted
  /\ aborted' = aborted \union {c}
  /\ IF stage[c] = "waiting"
     THEN queue' = Without(queue, c) /\ stage' = [stage EXCEPT ![c] = "idle"]
     ELSE UNCHANGED <<stage, queue>>
  /\ UNCHANGED <<mode, activeReaders, writerActive>>

\* The signal of c fires.  A waiter leaves the queue wherever it stands and
\* the queue is dispatched again; a caller already granted has no listener.
Abort(c) ==
  /\ c \notin aborted
  /\ aborted' = aborted \union {c}
  /\ IF stage[c] = "waiting"
     THEN Dispatch(Without(queue, c), mode, activeReaders, writerActive,
                   [stage EXCEPT ![c] = "idle"])
     ELSE UNCHANGED <<stage, queue, activeReaders, writerActive>>
  /\ UNCHANGED mode

\* run resumes after the grant and the signal has not fired: the operation
\* starts.
Begin(c) ==
  /\ stage[c] = "granted"
  /\ c \notin aborted
  /\ stage' = [stage EXCEPT ![c] = "running"]
  /\ UNCHANGED <<mode, aborted, queue, activeReaders, writerActive>>

\* MUTANT of GiveUp: the signal is checked outside the try block.
GiveUpLeaking(c) ==
  /\ stage[c] = "granted"
  /\ c \in aborted
  /\ stage' = [stage EXCEPT ![c] = "idle"]
  /\ UNCHANGED <<mode, aborted, queue, activeReaders, writerActive>>

\* run resumes after the grant and finds the signal fired: it throws and the
\* finally block releases.
GiveUp(c) ==
  /\ stage[c] = "granted"
  /\ c \in aborted
  /\ Release(c)
  /\ UNCHANGED <<mode, aborted>>

\* The operation settles, resolved or rejected, and the finally block
\* releases.  Nothing in the gate interrupts an operation that runs.
Finish(c) ==
  /\ stage[c] = "running"
  /\ Release(c)
  /\ UNCHANGED <<mode, aborted>>

\* The caller's next Command Run comes with a fresh signal.
Renew(c) ==
  /\ stage[c] = "idle"
  /\ c \in aborted
  /\ aborted' = aborted \ {c}
  /\ UNCHANGED <<mode, stage, queue, activeReaders, writerActive>>

Next ==
  \E c \in Callers :
    \/ \E m \in Modes : Request(c, m)
    \/ Abort(c)
    \/ Begin(c)
    \/ GiveUp(c)
    \/ Finish(c)
    \/ Renew(c)

Spec == Init /\ [][Next]_vars

(***************************************************************************)
(* A granted promise resumes, and an operation that runs settles: the      *)
(* commands that hold the gate have time limits of their own.              *)
(***************************************************************************)
Fairness ==
  \A c \in Callers : WF_vars(Begin(c)) /\ WF_vars(GiveUp(c)) /\ WF_vars(Finish(c))

FairSpec == Spec /\ Fairness

-----------------------------------------------------------------------------
(***************************************************************************)
(* Properties                                                              *)
(***************************************************************************)

Waiting == {queue[i] : i \in 1..Len(queue)}

\* The callers the gate has let in, in mode m.
Holders(m) == {c \in Callers : stage[c] \in {"granted", "running"} /\ mode[c] = m}

TypeOK ==
  /\ mode \in [Callers -> Modes]
  /\ stage \in [Callers -> Stages]
  /\ aborted \in SUBSET Callers
  /\ queue \in Seq(Callers)
  /\ activeReaders \in Nat
  /\ writerActive \in BOOLEAN

\* The queue holds each waiting caller once and nobody else: an aborted or
\* granted waiter is gone from it, whatever the order of grant and abort.
QueueIsTheWaiters ==
  /\ \A i, j \in 1..Len(queue) : queue[i] = queue[j] => i = j
  /\ Waiting = {c \in Callers : stage[c] = "waiting"}

\* The two counters dispatch reads agree with who is inside, through every
\* mix of grants, cancelled grants and releases.
CountersExact ==
  /\ activeReaders = Cardinality(Holders("shared"))
  /\ writerActive <=> Holders("exclusive") # {}

\* A caller inside in the exclusive mode is the only one inside.
Exclusion ==
  \A c, d \in Callers :
    c # d /\ c \in Holders("exclusive")
      => d \notin Holders("shared") \union Holders("exclusive")

\* Nobody waits without a reason: if the queue is not empty, a writer is
\* inside, or its head is a writer and a reader is inside.  Each of the four
\* places that change the queue or the counters has to dispatch for this.
NoLostWakeup ==
  queue # <<>> =>
    \/ writerActive
    \/ activeReaders > 0 /\ mode[Head(queue)] = "exclusive"

\* Writer fairness (gate.ts:34): a step that lets a waiter in leaves none of
\* the waiters that were ahead of it waiting.
NoOvertaking ==
  [][\A i, j \in 1..Len(queue) :
        i < j /\ stage'[queue[j]] = "granted" => stage'[queue[i]] # "waiting"]_vars

\* Every waiter gets in or is cancelled.
WaitersLeave ==
  \A c \in Callers : stage[c] = "waiting" ~> stage[c] # "waiting"

\* The gate implements the readers/writers promise.
Promise ==
  INSTANCE ReadersWriters WITH
    inside <- [c \in Callers |-> IF stage[c] \in {"granted", "running"}
                                 THEN mode[c] ELSE "out"]

ReadersWritersSpec == Promise!Spec
=============================================================================
