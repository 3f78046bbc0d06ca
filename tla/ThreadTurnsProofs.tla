--------------------------- MODULE ThreadTurnsProofs ---------------------------
(***************************************************************************)
(* Proofs about ThreadTurns, for any turns, requests and clients.          *)
(*                                                                         *)
(* Most of what must hold is said of an operation while it waits in the    *)
(* queue: what it will find when its turn comes.  So the invariant says it *)
(* of every operation (OpOK), says which operations exclude one another    *)
(* (Clash), and that behind the mark of a close only the drive's come.  An *)
(* event or an end in the queue stands for the one turn that is driven,    *)
(* whose drive says how many ends are recorded (EndsSoFar); an interaction *)
(* is on its way through the buffer and the queue until the snapshot shows *)
(* it, and is shown until one record resolves it (Unannounced, RequestOK). *)
(* An operation that settles a request never meets the close settling the  *)
(* same one: the queue has been drained by then.                           *)
(***************************************************************************)
EXTENDS ThreadTurns, TLAPS

\* What an operation of the queue is.
Kinds == {"start", "event", "finish", "answer", "cancel", "interrupt", "mark"}
Ops   == [kind : Kinds,
          arg : Turns \cup Events \cup Endings \cup (Requests \X {"yes", "no"})
                  \cup Clients \cup {None},
          step : 0..2, todo : SUBSET Requests]

Phases  == {"none", "streaming", "committing", "suspended", "over"}
Results == {"none", "rejected"} \cup Endings
Runs    == [of : Turns \cup {None}, phase : Phases, stopped : BOOLEAN,
            asks : Seq(Requests), buffer : Seq(Events), emitted : 0..MaxEvents,
            result : Results, threw : BOOLEAN]
Driving == {"pull", "event", "result", "finish", "again", "lost"}
Drives  == [at : Driving \cup {"none", "done"}, broken : BOOLEAN]
Replies == {"none", "open", "yes", "no", "used"}
Closers == [at : {"open", "draining", "requests", "turns", "emptying", "closed", "failed"},
            todo : SUBSET Requests, now : Requests \cup {None}, failed : BOOLEAN]

\* Every variable has its type, with the parts that TypeOK does not look into.
Types ==
  /\ turn \in [Turns -> {"none", "inProgress"} \cup Endings]
  /\ pending \subseteq Requests /\ entry \subseteq Requests
  /\ active \in Turns \cup {None}
  /\ queue \in Seq(Ops)
  /\ run \in Runs
  /\ reply \in [Requests -> Replies]
  /\ drive \in [Turns -> Drives]
  /\ caller \in [Clients -> [at : Places, target : Turns \cup {None}]]
  /\ closer \in Closers
  /\ failures \in 0..MaxFailures
  /\ ended \in [Turns -> Nat] /\ resolved \in [Requests -> Nat]

\* The active turn is the one whose run is consumed, and no other is; a run is
\* live only beside an active turn.
DriveOK ==
  /\ active # None => run.of = active
  /\ \A t \in Turns : drive[t].at \in IF t = active THEN Driving ELSE {"none", "done"}
  /\ active = None => run.phase \in {"none", "over"}
  /\ active # None /\ run.phase = "over" => run.result # "none"
  /\ run.phase = "suspended" => run.asks # <<>>

\* The run has asked for r and the snapshot does not show it yet.
Unannounced(r) == r \notin pending /\ resolved[r] = 0 /\ reply[r] \in {"open", "no"}

\* What is left of the operations once the close has drained the queue.
Last == {"event", "finish", "mark"}

\* What an operation in the queue says of the rest of the state.
StartOK(op) ==
  op.kind = "start" =>
    /\ op.arg \in Turns
    /\ IF op.step = 0 THEN turn[op.arg] = "none"
                      ELSE turn[op.arg] = "inProgress" /\ active = None
EventOK(op) ==
  op.kind = "event" =>
    /\ op.arg \in Events /\ active # None /\ drive[active].at = "event"
    /\ op.step # 0 => op.arg \in Requests /\ (~Closing => op.arg \in entry)
    /\ op.arg \in Requests =>
         /\ Unannounced(op.arg)
         /\ \A i \in 1..Len(run.buffer) : run.buffer[i] # op.arg
FinishOK(op) ==
  op.kind = "finish" =>
    /\ op.arg \in Endings /\ active # None /\ drive[active].at \in {"finish", "again"}
    /\ op.step # 0 => turn[active] \in Endings
AnswerOK(op) ==
  op.kind = "answer" =>
    /\ op.arg \in Requests \X {"yes", "no"}
    /\ op.step # 0 => op.arg[1] \in pending
CallOK(op) ==
  op.kind \in {"cancel", "interrupt"} => op.arg \in Clients /\ caller[op.arg].at # "idle"
MarkOK(op) ==
  /\ op.kind = "mark" => closer.at \in {"draining", "emptying"}
  /\ closer.at \notin {"open", "draining"} => op.kind \in Last
OpOK(op) ==
  StartOK(op) /\ EventOK(op) /\ FinishOK(op) /\ AnswerOK(op) /\ CallOK(op) /\ MarkOK(op)

\* Two operations that cannot both be in the queue.
Clash(a, b) ==
  \/ a.kind = "start" /\ b.kind = "start" /\ a.arg = b.arg
  \/ a.kind \in {"event", "finish"} /\ b.kind \in {"event", "finish"}
  \/ a.kind = "mark" /\ b.kind = "mark"

\* Only the head has begun, and behind a mark only what the drive enqueues comes.
QueueOK ==
  /\ \A i \in 1..Len(queue) : OpOK(queue[i]) /\ (i > 1 => queue[i].step = 0)
  /\ \A i, j \in 1..Len(queue) :
       i < j => /\ ~Clash(queue[i], queue[j])
                /\ queue[i].kind = "mark" => queue[j].kind \in Last

\* A turn has as many ends recorded as its drive has got to.
EndsSoFar(t) ==
  /\ turn[t] \in {"none", "inProgress"} => ended[t] = 0
  /\ turn[t] = "none" => drive[t].at = "none"
  /\ drive[t].at = "done" => turn[t] \in Endings
  /\ ended[t] <= IF failures = 0 THEN 1 ELSE 2
  /\ drive[t].at \in {"pull", "event", "result"} => ended[t] = 0
  /\ drive[t].at = "finish" => ended[t] = IF At("finish", 1) THEN 1 ELSE 0
  /\ drive[t].at = "again" =>
       ended[t] <= (IF failures = 0 THEN 0 ELSE 1) + (IF At("finish", 1) THEN 1 ELSE 0)

RecordsOK == InProgressIsDriven /\ \A t \in Turns : EndsSoFar(t)

\* A request is asked, announced, shown and resolved in this order, once.
RequestOK(r) ==
  /\ resolved[r] <= 1 /\ (resolved[r] # 0 => r \notin pending)
  /\ reply[r] = "none" => r \notin pending /\ resolved[r] = 0
  /\ ~Closing /\ r \in pending => r \in entry
  /\ failures = 0 /\ r \in pending /\ reply[r] \in {"yes", "used"} =>
       At("answer", 1) /\ Argument[1] = r
  /\ closer.now = r => r \in pending /\ closer.at \notin {"open", "draining"}

BufferOK ==
  /\ \A i \in 1..Len(run.buffer) : run.buffer[i] \in Requests => Unannounced(run.buffer[i])
  /\ \A i, j \in 1..Len(run.buffer) :
       run.buffer[i] \in Requests /\ run.buffer[i] = run.buffer[j] => i = j

RequestsOK == BufferOK /\ \A r \in Requests : RequestOK(r)

\* A client interrupts a turn that exists.
CallersOK ==
  \A c \in Clients :
    /\ caller[c].at # "idle" => caller[c].target \in Turns /\ turn[caller[c].target] # "none"
    /\ caller[c].at = "returned" => turn[caller[c].target] \in Endings

\* No turn is active, and then no operation left, when the close is that far.
CloserOK ==
  /\ closer.at \in {"emptying", "closed"} => active = None
  /\ closer.at = "closed" => queue = <<>>

\* The inductive invariant.
IInv ==
  /\ Types /\ DriveOK /\ QueueOK /\ RecordsOK /\ RequestsOK /\ CallersOK /\ CloserOK

-----------------------------------------------------------------------------
(***************************************************************************)
(* The queue                                                               *)
(***************************************************************************)

\* The head of the queue.
LEMMA HeadIs ==
  ASSUME queue \in Seq(Ops), queue # <<>>
  PROVE  /\ Len(queue) \in Nat /\ Len(queue) >= 1 /\ 1 \in 1..Len(queue)
         /\ queue[1] \in Ops /\ Argument = queue[1].arg
BY DEF Argument

\* An operation goes behind the others.
LEMMA Enqueued ==
  ASSUME queue \in Seq(Ops), NEW op \in Ops, Enqueue(op)
  PROVE  /\ queue' \in Seq(Ops) /\ Len(queue) \in Nat /\ Len(queue') = Len(queue) + 1
         /\ \A i \in 1..Len(queue) : queue'[i] = queue[i]
         /\ queue'[Len(queue) + 1] = op /\ queue' # <<>>
BY DEF Enqueue

\* The head leaves.
LEMMA Left ==
  ASSUME queue \in Seq(Ops), queue # <<>>, Leaves
  PROVE  /\ queue' \in Seq(Ops) /\ Len(queue) \in Nat /\ Len(queue') = Len(queue) - 1
         /\ \A i \in 1..Len(queue') : queue'[i] = queue[i + 1]
BY DEF Leaves

\* The head changes.
LEMMA HeadChanged ==
  ASSUME queue \in Seq(Ops), queue # <<>>, NEW op \in Ops, queue' = [queue EXCEPT ![1] = op]
  PROVE  /\ queue' \in Seq(Ops) /\ Len(queue) \in Nat /\ Len(queue') = Len(queue)
         /\ \A i \in 2..Len(queue) : queue'[i] = queue[i]
         /\ queue'[1] = op /\ queue' # <<>>
OBVIOUS

\* What is enqueued has its type.
LEMMA OperationIs ==
  ASSUME NEW kind \in Kinds, NEW arg,
         arg \in Turns \cup Events \cup Endings \cup (Requests \X {"yes", "no"}) \cup Clients \cup {None}
  PROVE  /\ Operation(kind, arg) \in Ops
         /\ Operation(kind, arg).kind = kind /\ Operation(kind, arg).arg = arg
         /\ Operation(kind, arg).step = 0
BY DEF Operation, Ops

\* The head goes on to its next step.
LEMMA Stepped ==
  ASSUME queue \in Seq(Ops), queue # <<>>, NEW step \in 0..2, GoesTo(step)
  PROVE  \E op \in Ops :
           /\ queue' = [queue EXCEPT ![1] = op]
           /\ op.kind = queue[1].kind /\ op.arg = queue[1].arg /\ op.step = step
<1>1. queue[1] \in Ops
  BY HeadIs
<1> DEFINE op == [queue[1] EXCEPT !.step = step]
<1>2. op \in Ops /\ op.kind = queue[1].kind /\ op.arg = queue[1].arg /\ op.step = step
  BY <1>1 DEF Ops
<1>3. queue' = [queue EXCEPT ![1] = op]
  BY DEF GoesTo
<1> QED BY <1>2, <1>3

\* The queue is as it should be after an operation has been enqueued...
LEMMA EnqueueOK ==
  ASSUME Types, QueueOK, NEW op \in Ops, Enqueue(op), op.step = 0, (OpOK(op))',
         \A o \in Ops : OpOK(o) => (OpOK(o))',
         \A o \in Ops : OpOK(o) /\ (\E i \in 1..Len(queue) : queue[i] = o) =>
           ~Clash(o, op) /\ (o.kind = "mark" => op.kind \in Last)
  PROVE  /\ queue' \in Seq(Ops) /\ QueueOK'
         /\ \A kind, step : step # 0 => (At(kind, step)' <=> At(kind, step))
         /\ queue # <<>> => Argument' = Argument
<1>1. queue \in Seq(Ops)
  BY DEF Types
<1>2. /\ queue' \in Seq(Ops) /\ Len(queue) \in Nat /\ Len(queue') = Len(queue) + 1
      /\ \A i \in 1..Len(queue) : queue'[i] = queue[i]
      /\ queue'[Len(queue) + 1] = op /\ queue' # <<>>
  BY <1>1, Enqueued
<1>3. \A i \in 1..Len(queue) : queue[i] \in Ops
  BY <1>1
<1>4. \A i \in 1..Len(queue') : (OpOK(queue[i]))' /\ (i > 1 => queue'[i].step = 0)
  <2> TAKE i \in 1..Len(queue')
  <2>1. CASE i = Len(queue) + 1
    <3>1. queue'[i] = op
      BY <1>2, <2>1
    <3> QED BY <3>1
  <2>2. CASE i \in 1..Len(queue)
    BY <1>2, <1>3, <2>2 DEF QueueOK
  <2> QED BY <1>2, <2>1, <2>2
<1>5. ASSUME NEW i \in 1..Len(queue'), NEW j \in 1..Len(queue'), i < j
      PROVE  ~Clash(queue'[i], queue'[j]) /\ (queue'[i].kind = "mark" => queue'[j].kind \in Last)
  <2>1. i \in 1..Len(queue) /\ queue'[i] = queue[i] /\ queue[i] \in Ops /\ OpOK(queue[i])
    BY <1>2, <1>3, <1>5 DEF QueueOK
  <2>2. CASE j = Len(queue) + 1
    <3>1. queue'[j] = op
      BY <1>2, <2>2
    <3> QED BY <2>1, <3>1
  <2>3. CASE j \in 1..Len(queue)
    BY <1>2, <1>5, <2>1, <2>3 DEF QueueOK
  <2> QED BY <1>2, <2>2, <2>3
<1>6. QueueOK'
  BY <1>4, <1>5 DEF QueueOK
<1>7. queue # <<>> => queue'[1] = queue[1]
  BY <1>1, <1>2
<1>8. queue = <<>> => queue'[1] = op
  BY <1>1, <1>2
<1> QED BY <1>2, <1>6, <1>7, <1>8 DEF At, Argument

\* ... or its head has left...
LEMMA LeaveOK ==
  ASSUME Types, QueueOK, queue # <<>>, Leaves,
         \A o \in Ops : /\ OpOK(o) /\ o.step = 0 /\ ~Clash(queue[1], o)
                        /\ queue[1].kind = "mark" => o.kind \in Last
                        => (OpOK(o))'
  PROVE  /\ queue' \in Seq(Ops) /\ QueueOK'
         /\ \A kind, step : step # 0 => ~(At(kind, step)')
<1>1. queue \in Seq(Ops)
  BY DEF Types
<1>2. /\ queue' \in Seq(Ops) /\ Len(queue) \in Nat /\ Len(queue') = Len(queue) - 1
      /\ \A i \in 1..Len(queue') : queue'[i] = queue[i + 1]
  BY <1>1, Left
<1>3. \A i \in 1..Len(queue') : i + 1 \in 1..Len(queue) /\ i + 1 > 1 /\ queue'[i] \in Ops /\ 1 \in 1..Len(queue)
  BY <1>1, <1>2
<1>4. ASSUME NEW i \in 1..Len(queue') PROVE (OpOK(queue[i]))' /\ queue'[i].step = 0
  <2>1. queue'[i] \in Ops /\ OpOK(queue'[i]) /\ queue'[i].step = 0
        /\ ~Clash(queue[1], queue'[i]) /\ (queue[1].kind = "mark" => queue'[i].kind \in Last)
    BY <1>2, <1>3 DEF QueueOK
  <2>2. PICK o \in Ops : o = queue'[i]
    BY <2>1
  <2>3. (OpOK(o))'
    BY <2>1, <2>2
  <2> QED BY <2>1, <2>2, <2>3
<1>5. ASSUME NEW i \in 1..Len(queue'), NEW j \in 1..Len(queue'), i < j
      PROVE  ~Clash(queue'[i], queue'[j]) /\ (queue'[i].kind = "mark" => queue'[j].kind \in Last)
  <2>1. i + 1 \in 1..Len(queue) /\ j + 1 \in 1..Len(queue) /\ i + 1 < j + 1
    BY <1>3, <1>5
  <2> QED BY <1>2, <2>1 DEF QueueOK
<1>6. QueueOK'
  BY <1>4, <1>5 DEF QueueOK
<1>7. queue' # <<>> => queue'[1].step = 0
  <2> SUFFICES ASSUME queue' # <<>> PROVE 1 \in 1..Len(queue')
    BY <1>4
  <2> QED BY <1>2
<1> QED BY <1>2, <1>6, <1>7 DEF At

\* ... or gone on...
LEMMA GoesOnOK ==
  ASSUME Types, QueueOK, queue # <<>>, NEW op \in Ops, queue' = [queue EXCEPT ![1] = op],
         op.kind = queue[1].kind, op.arg = queue[1].arg, (OpOK(op))',
         \A o \in Ops : OpOK(o) /\ o.step = 0 /\ ~Clash(queue[1], o)
                          => (OpOK(o))'
  PROVE  /\ queue' \in Seq(Ops) /\ QueueOK'
         /\ \A kind, s : At(kind, s)' <=> kind = queue[1].kind /\ s = op.step
         /\ Argument' = Argument
<1>1. queue \in Seq(Ops)
  BY DEF Types
<1>2. /\ queue' \in Seq(Ops) /\ Len(queue) \in Nat /\ Len(queue') = Len(queue)
      /\ \A i \in 2..Len(queue) : queue'[i] = queue[i]
      /\ queue'[1] = op /\ queue' # <<>> /\ Len(queue) >= 1
  BY <1>1, HeadChanged, HeadIs
<1>3. \A i \in 1..Len(queue) : queue[i] \in Ops
  BY <1>1
<1>4. ASSUME NEW i \in 1..Len(queue') PROVE (OpOK(queue[i]))' /\ (i > 1 => queue'[i].step = 0)
  <2>1. CASE i = 1
    <3>1. queue'[i] = op
      BY <1>2, <2>1
    <3> QED BY <2>1, <3>1
  <2>2. CASE i # 1
    <3>1. i \in 2..Len(queue) /\ i \in 1..Len(queue) /\ 1 \in 1..Len(queue) /\ 1 < i
      BY <1>2, <2>2
    <3>2. PICK o \in Ops : o = queue[i]
      BY <1>3, <3>1
    <3>3. OpOK(o) /\ o.step = 0 /\ ~Clash(queue[1], o)
      BY <3>1, <3>2 DEF QueueOK
    <3>4. (OpOK(o))'
      BY <3>3
    <3>5. queue'[i] = o
      BY <1>2, <3>1, <3>2
    <3> QED BY <3>3, <3>4, <3>5
  <2> QED BY <2>1, <2>2
<1>5. ASSUME NEW i \in 1..Len(queue'), NEW j \in 1..Len(queue'), i < j
      PROVE  ~Clash(queue'[i], queue'[j]) /\ (queue'[i].kind = "mark" => queue'[j].kind \in Last)
  <2>1. i \in 1..Len(queue) /\ j \in 2..Len(queue) /\ j \in 1..Len(queue) /\ queue'[j] = queue[j]
    BY <1>2, <1>5
  <2>2. ~Clash(queue[i], queue[j]) /\ (queue[i].kind = "mark" => queue[j].kind \in Last)
    BY <1>5, <2>1 DEF QueueOK
  <2>3. queue'[i].kind = queue[i].kind /\ queue'[i].arg = queue[i].arg
    BY <1>2, <2>1
  <2> QED BY <2>1, <2>2, <2>3 DEF Clash
<1>6. QueueOK'
  BY <1>4, <1>5 DEF QueueOK
<1> QED BY <1>2, <1>6 DEF At, Argument

\* ... to its next step...
LEMMA StepOK ==
  ASSUME Types, QueueOK, queue # <<>>, NEW step \in 1..2, GoesTo(step),
         \A o \in Ops : o.kind = queue[1].kind /\ o.arg = queue[1].arg /\ o.step = step
                          => (OpOK(o))',
         \A o \in Ops : OpOK(o) /\ o.step = 0 /\ ~Clash(queue[1], o)
                          => (OpOK(o))'
  PROVE  /\ queue' \in Seq(Ops) /\ QueueOK'
         /\ \A kind, s : At(kind, s)' <=> kind = queue[1].kind /\ s = step
         /\ Argument' = Argument
<1>1. queue \in Seq(Ops)
  BY DEF Types
<1>2. PICK op \in Ops :
        /\ queue' = [queue EXCEPT ![1] = op]
        /\ op.kind = queue[1].kind /\ op.arg = queue[1].arg /\ op.step = step
  BY <1>1, Stepped
<1>3. (OpOK(op))'
  BY <1>2
<1> QED BY <1>2, <1>3, GoesOnOK

\* ... or it has stayed as it is.
LEMMA SameQueueOK ==
  ASSUME Types, QueueOK, UNCHANGED queue, \A o \in Ops : OpOK(o) => (OpOK(o))'
  PROVE  QueueOK'
<1>1. ASSUME NEW i \in 1..Len(queue) PROVE (OpOK(queue[i]))'
  <2>1. PICK o \in Ops : o = queue[i]
    BY DEF Types
  <2>2. (OpOK(o))'
    BY <2>1 DEF QueueOK
  <2> QED BY <2>1, <2>2
<1> QED BY <1>1 DEF QueueOK

\* The head is an operation that is as it should be.
LEMMA HeadOK ==
  ASSUME Types, QueueOK, queue # <<>>
  PROVE  queue[1] \in Ops /\ OpOK(queue[1])
<1>1. queue \in Seq(Ops)
  BY DEF Types
<1> QED BY <1>1, HeadIs DEF QueueOK

-----------------------------------------------------------------------------
(***************************************************************************)
(* What a step leaves alone                                                *)
(***************************************************************************)

\* The records of the turns, while the start and the end at the head stay.
LEMMA RecordsUntouched ==
  ASSUME Types, RecordsOK, UNCHANGED <<turn, ended, drive, active>>,
         At("finish", 1)' <=> At("finish", 1),
         \/ failures' = failures + 1
         \/ /\ failures' = failures
            /\ At("start", 1)' \/ At("start", 2)' <=> At("start", 1) \/ At("start", 2)
            /\ At("start", 1) \/ At("start", 2) => Argument' = Argument
  PROVE  RecordsOK'
<1>1. failures \in Nat /\ (failures' = 0 => failures = 0)
  BY BoundsAssumption DEF Types
<1>2. InProgressIsDriven'
  BY <1>1 DEF RecordsOK, InProgressIsDriven
<1>3. ASSUME NEW t \in Turns PROVE EndsSoFar(t)'
  <2>1. EndsSoFar(t) /\ ended[t] \in Nat
    BY DEF RecordsOK, Types
  <2> QED BY <1>1, <2>1 DEF EndsSoFar
<1> QED BY <1>2, <1>3 DEF RecordsOK

\* The requests, while the answer at the head stays.
LEMMA RequestsUntouched ==
  ASSUME Types, RequestsOK, UNCHANGED <<pending, entry, reply, resolved>>,
         run'.buffer = run.buffer, closer'.now = closer.now,
         Closing => Closing',
         closer.at \notin {"open", "draining"} => closer'.at \notin {"open", "draining"},
         \/ failures' = failures + 1
         \/ failures' = failures /\ (At("answer", 1) => At("answer", 1)' /\ Argument' = Argument)
  PROVE  RequestsOK'
<1>1. failures \in Nat
  BY BoundsAssumption DEF Types
<1>2. BufferOK'
  BY DEF RequestsOK, BufferOK, Unannounced
<1>3. ASSUME NEW r \in Requests PROVE RequestOK(r)'
  <2>1. RequestOK(r)
    BY DEF RequestsOK
  <2> QED BY <1>1, <2>1 DEF RequestOK, Closing
<1> QED BY <1>2, <1>3 DEF RequestsOK

\* A step that only enqueues.
LEMMA OnlyEnqueues ==
  ASSUME IInv, NEW op \in Ops, Enqueue(op), op.step = 0, OpOK(op),
         \A o \in Ops : OpOK(o) /\ (\E i \in 1..Len(queue) : queue[i] = o) =>
           ~Clash(o, op) /\ (o.kind = "mark" => op.kind \in Last),
         UNCHANGED <<records, userVars, othersVars, active, run, drive, failures>>,
         closer.at # "closed"
  PROVE  IInv'
<1> USE DEF records, userVars, othersVars
<1>1. \A o \in Ops : OpOK(o) => (OpOK(o))'
  BY DEF OpOK, StartOK, EventOK, FinishOK, AnswerOK, CallOK, MarkOK, Unannounced, Closing
<1>2. (OpOK(op))'
  BY <1>1
<1>3. /\ queue' \in Seq(Ops) /\ QueueOK'
      /\ \A kind, step : step # 0 => (At(kind, step)' <=> At(kind, step))
      /\ queue # <<>> => Argument' = Argument
  BY <1>1, <1>2, EnqueueOK DEF IInv
<1>4. \A kind, step : At(kind, step) => queue # <<>>
  BY DEF At
<1>5. Types' /\ DriveOK' /\ CallersOK' /\ CloserOK'
  BY <1>3 DEF IInv, Types, DriveOK, CallersOK, CloserOK
<1>6. RecordsOK'
  BY <1>3, <1>4, RecordsUntouched DEF IInv
<1>7. RequestsOK'
  BY <1>3, <1>4, RequestsUntouched DEF IInv, Closing
<1> QED BY <1>3, <1>5, <1>6, <1>7 DEF IInv

\* A step that only ends an operation.
LEMMA OnlyLeaves ==
  ASSUME IInv, queue # <<>>, Leaves, failures' \in 0..MaxFailures, ~At("finish", 1),
         UNCHANGED <<records, userVars, othersVars, active, run, drive>>,
         \/ failures' = failures + 1
         \/ failures' = failures /\ ~At("start", 1) /\ ~At("start", 2) /\ ~At("answer", 1)
  PROVE  IInv'
<1> USE DEF records, userVars, othersVars
<1>1. \A o \in Ops : OpOK(o) => (OpOK(o))'
  BY DEF OpOK, StartOK, EventOK, FinishOK, AnswerOK, CallOK, MarkOK, Unannounced, Closing
<1>2. /\ queue' \in Seq(Ops) /\ QueueOK'
      /\ \A kind, step : step # 0 => ~(At(kind, step)')
  BY <1>1, LeaveOK DEF IInv
<1>3. closer.at # "closed"
  BY DEF IInv, CloserOK
<1>4. Types' /\ DriveOK' /\ CallersOK' /\ CloserOK'
  BY <1>2, <1>3 DEF IInv, Types, DriveOK, CallersOK, CloserOK
<1>5. RecordsOK'
  BY <1>2, RecordsUntouched DEF IInv
<1>6. RequestsOK'
  BY <1>2, RequestsUntouched DEF IInv, Closing
<1> QED BY <1>2, <1>4, <1>5, <1>6 DEF IInv

-----------------------------------------------------------------------------
(***************************************************************************)
(* The invariant, one action at a time                                     *)
(***************************************************************************)

\* A thread that has just been loaded satisfies the invariant.
LEMMA InitIInv == ASSUME Init PROVE IInv
<1> USE NoneAssumption, BoundsAssumption DEF Init
<1>1. queue = <<>> /\ Len(queue) = 0 /\ queue \in Seq(Ops)
  OBVIOUS
<1>2. run \in Runs /\ run.phase = "none" /\ Len(run.buffer) = 0
  BY DEF NoRun, Runs, Phases, Results
<1>3. Types
  BY <1>1, <1>2 DEF Types, Replies, Drives, Driving, Closers, Places
<1>4. DriveOK /\ QueueOK /\ CallersOK /\ CloserOK
  BY <1>1, <1>2 DEF DriveOK, QueueOK, CallersOK, CloserOK
<1>5. RecordsOK
  BY <1>1 DEF RecordsOK, InProgressIsDriven, EndsSoFar, At
<1>6. RequestsOK
  BY <1>2 DEF RequestsOK, BufferOK, RequestOK
<1> QED BY <1>3, <1>4, <1>5, <1>6 DEF IInv

\* A start is enqueued for a turn that no other start is for.
LEMMA StartTurnKeeps == ASSUME IInv, NEW t \in Turns, StartTurn(t) PROVE IInv'
<1> DEFINE op == Operation("start", t)
<1>1. op \in Ops /\ op.kind = "start" /\ op.arg = t /\ op.step = 0 /\ Enqueue(op)
  BY OperationIs DEF Kinds, StartTurn
<1> HIDE DEF op
<1>2. closer.at = "open" /\ turn[t] = "none"
  BY DEF StartTurn, Closing
<1>3. OpOK(op)
  BY <1>1, <1>2 DEF OpOK, StartOK, EventOK, FinishOK, AnswerOK, CallOK, MarkOK
<1>4. ASSUME NEW o \in Ops, OpOK(o), NEW i \in 1..Len(queue), queue[i] = o
      PROVE  ~Clash(o, op) /\ (o.kind = "mark" => op.kind \in Last)
  <2>1. o.kind # "mark"
    BY <1>2, <1>4 DEF OpOK, MarkOK
  <2>2. ~(o.kind = "start" /\ o.arg = t)
    BY <1>4 DEF StartTurn
  <2> QED BY <1>1, <2>1, <2>2 DEF Clash
<1> QED BY <1>1, <1>2, <1>3, <1>4, OnlyEnqueues DEF StartTurn

\* The start of a turn is recorded, or refused because one is active.
LEMMA StartKeeps == ASSUME IInv, Start PROVE IInv'
<1> DEFINE t == queue[1].arg
<1>1. /\ queue # <<>> /\ queue[1].kind = "start" /\ queue[1].step = 0 /\ Argument = t
      /\ UNCHANGED <<ended, userVars, othersVars, active, run, drive, failures>>
  BY DEF Start, At, Argument
<1> USE DEF userVars, othersVars
<1>2. t \in Turns /\ turn[t] = "none" /\ (closer.at \notin {"open", "draining"} => FALSE)
  BY <1>1, HeadOK DEF IInv, OpOK, StartOK, MarkOK, Last
<1> HIDE DEF t
<1>3. CASE ~MayStart
  <2>1. Leaves /\ UNCHANGED turn
    BY <1>3 DEF Start
  <2>2. ~At("finish", 1) /\ ~At("start", 1) /\ ~At("start", 2) /\ ~At("answer", 1)
    BY <1>1 DEF At
  <2> QED BY <1>1, <2>1, <2>2, OnlyLeaves DEF IInv, Types, records
<1>4. CASE MayStart
  <2>1. /\ turn' = [turn EXCEPT ![t] = "inProgress"] /\ GoesTo(1)
        /\ active = None /\ closer.at = "open"
    BY <1>1, <1>4 DEF Start, MayStart, Closing
  <2>2. turn \in [Turns -> {"none", "inProgress"} \cup Endings]
    BY DEF IInv, Types
  <2>3. turn'[t] = "inProgress" /\ \A u \in Turns \ {t} : turn'[u] = turn[u]
    BY <1>2, <2>1, <2>2
  <2>4. \A o \in Ops : o.kind = "start" /\ o.arg = t /\ o.step = 1 => (OpOK(o))'
    BY <1>1, <1>2, <2>1, <2>3 DEF OpOK, StartOK, EventOK, FinishOK, AnswerOK, CallOK, MarkOK
  <2>5. \A o \in Ops : OpOK(o) /\ o.step = 0 /\ ~Clash(queue[1], o) => (OpOK(o))'
    <3> TAKE o \in Ops
    <3> HAVE OpOK(o) /\ o.step = 0 /\ ~Clash(queue[1], o)
    <3>1. o.kind = "start" => o.arg # t
      BY <1>1 DEF Clash, t
    <3>2. (StartOK(o))'
      BY <1>1, <2>3, <3>1 DEF OpOK, StartOK
    <3> QED BY <1>1, <3>2 DEF OpOK, EventOK, FinishOK, AnswerOK, CallOK, MarkOK, Unannounced, Closing
  <2>6. /\ queue' \in Seq(Ops) /\ QueueOK'
        /\ \A kind, s : At(kind, s)' <=> kind = queue[1].kind /\ s = 1
        /\ Argument' = Argument
    <3>1. queue[1].arg = t
      BY DEF t
    <3> QED BY <1>1, <2>1, <2>4, <2>5, <3>1, StepOK DEF IInv
  <2>7. Types' /\ DriveOK' /\ CloserOK'
    BY <1>1, <2>1, <2>2, <2>6 DEF IInv, Types, DriveOK, CloserOK
  <2>8. CallersOK'
    BY <1>1, <1>2, <2>3 DEF IInv, CallersOK, Endings
  <2>9. RecordsOK'
    <3>1. InProgressIsDriven'
      BY <1>1, <1>2, <2>1, <2>3, <2>6, NoneAssumption DEF IInv, RecordsOK, InProgressIsDriven, At
    <3>2. \A u \in Turns : EndsSoFar(u)'
      BY <1>1, <1>2, <2>3, <2>6 DEF IInv, RecordsOK, EndsSoFar, At, Endings
    <3> QED BY <3>1, <3>2 DEF RecordsOK
  <2>10. RequestsOK'
    BY <1>1, <2>6, RequestsUntouched DEF IInv, Closing, At
  <2> QED BY <2>6, <2>7, <2>8, <2>9, <2>10 DEF IInv
<1> QED BY <1>3, <1>4

\* The run is made: its turn becomes the active one.
LEMMA LaunchKeeps == ASSUME IInv, Launch PROVE IInv'
<1> DEFINE t == queue[1].arg
<1>1. /\ queue # <<>> /\ queue[1].kind = "start" /\ queue[1].step = 1 /\ Argument = t /\ Leaves
      /\ UNCHANGED <<records, userVars, othersVars, failures>>
      /\ run' = [NoRun EXCEPT !.of = t, !.phase = "streaming", !.emitted = run.emitted]
      /\ active' = t /\ drive' = [drive EXCEPT ![t].at = "pull"]
  BY DEF Launch, At, Argument
<1> USE DEF userVars, othersVars, records
<1>2. t \in Turns /\ turn[t] = "inProgress" /\ active = None /\ closer.at \in {"open", "draining"}
  BY <1>1, HeadOK DEF IInv, OpOK, StartOK, MarkOK, Last
<1> HIDE DEF t
<1>3. run' \in Runs /\ run'.of = t /\ run'.phase = "streaming" /\ run'.buffer = <<>> /\ Len(run'.buffer) = 0
  <2>1. run.emitted \in 0..MaxEvents
    BY DEF IInv, Types, Runs
  <2>2. run' = [of |-> t, phase |-> "streaming", stopped |-> FALSE, asks |-> <<>>, buffer |-> <<>>,
                emitted |-> run.emitted, result |-> "none", threw |-> FALSE]
    BY <1>1 DEF NoRun
  <2> QED BY <1>2, <2>1, <2>2 DEF Runs, Phases, Results
<1>4. drive' \in [Turns -> Drives] /\ drive'[t].at = "pull" /\ \A u \in Turns \ {t} : drive'[u] = drive[u]
  BY <1>1, <1>2 DEF IInv, Types, Drives, Driving
<1>5. \A o \in Ops : OpOK(o) /\ o.step = 0 => (OpOK(o))'
  BY <1>1, <1>2 DEF OpOK, StartOK, EventOK, FinishOK, AnswerOK, CallOK, MarkOK
<1>6. /\ queue' \in Seq(Ops) /\ QueueOK'
      /\ \A kind, step : step # 0 => ~(At(kind, step)')
  BY <1>1, <1>5, LeaveOK DEF IInv
<1>7. Types' /\ CloserOK' /\ CallersOK'
  BY <1>1, <1>2, <1>3, <1>4, <1>6 DEF IInv, Types, CloserOK, CallersOK
<1>8. DriveOK'
  BY <1>1, <1>2, <1>3, <1>4, NoneAssumption DEF IInv, DriveOK, Driving
<1>9. RecordsOK'
  <2>1. InProgressIsDriven'
    <3> SUFFICES ASSUME failures = 0, NEW u \in Turns
                 PROVE  turn[u] = "inProgress" <=> u = t
      BY <1>1, <1>6 DEF InProgressIsDriven
    <3>1. u # active
      BY <1>2, NoneAssumption
    <3>2. turn[u] = "inProgress" <=> (At("start", 1) \/ At("start", 2)) /\ Argument = u
      BY <3>1 DEF IInv, RecordsOK, InProgressIsDriven
    <3> QED BY <1>1, <1>2, <3>2
  <2>2. \A u \in Turns : EndsSoFar(u)'
    BY <1>1, <1>2, <1>4, <1>6 DEF IInv, RecordsOK, EndsSoFar, At, Endings
  <2> QED BY <2>1, <2>2 DEF RecordsOK
<1>10. RequestsOK'
  BY <1>1, <1>3, <1>6 DEF IInv, RequestsOK, BufferOK, RequestOK, Closing, At
<1> QED BY <1>6, <1>7, <1>8, <1>9, <1>10 DEF IInv

\* The run cannot be made.
LEMMA LaunchFailsKeeps == ASSUME IInv, LaunchFails PROVE IInv'
<1>1. /\ queue # <<>> /\ queue[1].kind = "start" /\ queue[1].step = 1 /\ GoesTo(2)
      /\ UNCHANGED <<records, userVars, othersVars, active, run, drive, failures>>
  BY DEF LaunchFails, At
<1> USE DEF userVars, othersVars, records
<1>2. queue[1] \in Ops /\ OpOK(queue[1])
  BY <1>1, HeadOK DEF IInv
<1>3. \A o \in Ops : o.kind = queue[1].kind /\ o.arg = queue[1].arg /\ o.step = 2 => (OpOK(o))'
  BY <1>1, <1>2 DEF OpOK, StartOK, EventOK, FinishOK, AnswerOK, CallOK, MarkOK
<1>4. \A o \in Ops : OpOK(o) => (OpOK(o))'
  BY <1>1 DEF OpOK, StartOK, EventOK, FinishOK, AnswerOK, CallOK, MarkOK, Unannounced, Closing
<1>5. /\ queue' \in Seq(Ops) /\ QueueOK'
      /\ \A kind, s : At(kind, s)' <=> kind = queue[1].kind /\ s = 2
      /\ Argument' = Argument
  BY <1>1, <1>3, <1>4, StepOK DEF IInv
<1>6. Types' /\ DriveOK' /\ CallersOK' /\ CloserOK'
  BY <1>1, <1>5 DEF IInv, Types, DriveOK, CallersOK, CloserOK
<1>7. RecordsOK'
  BY <1>1, <1>5, RecordsUntouched DEF IInv, At
<1>8. RequestsOK'
  BY <1>1, <1>5, RequestsUntouched DEF IInv, Closing, At
<1> QED BY <1>5, <1>6, <1>7, <1>8 DEF IInv

\* The turn that could not be started is ended.
LEMMA RecordStartFailedKeeps == ASSUME IInv, RecordStartFailed PROVE IInv'
<1> DEFINE t == queue[1].arg
<1>1. /\ queue # <<>> /\ queue[1].kind = "start" /\ queue[1].step = 2 /\ Argument = t /\ Leaves
      /\ turn' = [turn EXCEPT ![t] = "failed"] /\ ended' = [ended EXCEPT ![t] = ended[t] + 1]
      /\ UNCHANGED <<userVars, othersVars, active, run, drive, failures>>
  BY DEF RecordStartFailed, RecordEnd, At, Argument
<1> USE DEF userVars, othersVars
<1>2. t \in Turns /\ turn[t] = "inProgress" /\ active = None
  BY <1>1, HeadOK DEF IInv, OpOK, StartOK
<1>3. /\ turn \in [Turns -> {"none", "inProgress"} \cup Endings] /\ ended \in [Turns -> Nat]
      /\ "failed" \in Endings
  BY DEF IInv, Types, Endings
<1>4. /\ turn'[t] = "failed" /\ ended'[t] = ended[t] + 1
      /\ \A u \in Turns \ {t} : turn'[u] = turn[u] /\ ended'[u] = ended[u]
      /\ turn' \in [Turns -> {"none", "inProgress"} \cup Endings] /\ ended' \in [Turns -> Nat]
  BY <1>1, <1>2, <1>3
<1>5. \A o \in Ops : OpOK(o) /\ o.step = 0 /\ ~Clash(queue[1], o) => (OpOK(o))'
  <2> TAKE o \in Ops
  <2> HAVE OpOK(o) /\ o.step = 0 /\ ~Clash(queue[1], o)
  <2>1. o.kind = "start" => o.arg # t
    BY <1>1 DEF Clash
  <2> HIDE DEF t
  <2>2. (StartOK(o))'
    BY <1>1, <1>4, <2>1 DEF OpOK, StartOK
  <2> QED BY <1>1, <2>2 DEF OpOK, EventOK, FinishOK, AnswerOK, CallOK, MarkOK, Unannounced, Closing
<1> HIDE DEF t
<1>6. /\ queue' \in Seq(Ops) /\ QueueOK'
      /\ \A kind, step : step # 0 => ~(At(kind, step)')
  BY <1>1, <1>5, LeaveOK DEF IInv
<1>7. Types' /\ DriveOK' /\ CloserOK'
  BY <1>1, <1>4, <1>6 DEF IInv, Types, DriveOK, CloserOK
<1>8. CallersOK'
  BY <1>1, <1>2, <1>3, <1>4 DEF IInv, CallersOK
<1>9. RecordsOK'
  <2>1. InProgressIsDriven'
    <3> SUFFICES ASSUME failures = 0, NEW u \in Turns PROVE turn'[u] # "inProgress"
      BY <1>1, <1>2, <1>6, NoneAssumption DEF InProgressIsDriven
    <3>1. u # active
      BY <1>2, NoneAssumption
    <3>2. u # t => turn[u] # "inProgress"
      BY <1>1, <3>1 DEF IInv, RecordsOK, InProgressIsDriven
    <3> QED BY <1>4, <3>2
  <2>2. ASSUME NEW u \in Turns PROVE EndsSoFar(u)'
    <3>1. EndsSoFar(u) /\ drive[u].at \in {"none", "done"}
      BY <1>2, NoneAssumption DEF IInv, RecordsOK, DriveOK
    <3>2. CASE u = t
      BY <1>1, <1>2, <1>3, <1>4, <3>1, <3>2 DEF EndsSoFar, Endings
    <3>3. CASE u # t
      BY <1>1, <1>4, <3>1, <3>3 DEF EndsSoFar
    <3> QED BY <3>2, <3>3
  <2> QED BY <2>1, <2>2 DEF RecordsOK
<1>10. RequestsOK'
  BY <1>1, <1>6, RequestsUntouched DEF IInv, Closing, At
<1> QED BY <1>6, <1>7, <1>8, <1>9, <1>10 DEF IInv

\* What Fails says.
LEMMA FailsSpec ==
  ASSUME Types, Fails
  PROVE  failures' = failures + 1 /\ failures' \in 0..MaxFailures /\ failures' # 0
BY BoundsAssumption DEF Types, Fails, CanFail

\* An append of a start throws.
LEMMA StartFailsKeeps == ASSUME IInv, StartFails PROVE IInv'
<1>1. failures' = failures + 1 /\ failures' \in 0..MaxFailures
  BY FailsSpec DEF StartFails, IInv
<1>2. queue # <<>> /\ ~At("finish", 1)
  BY DEF StartFails, At
<1> QED BY <1>1, <1>2, OnlyLeaves DEF StartFails

\* What a buffer holds when an event is appended.
LEMMA Buffered ==
  ASSUME NEW b \in Seq(Events), NEW e \in Events
  PROVE  /\ Append(b, e) \in Seq(Events) /\ Len(b) \in Nat /\ Len(Append(b, e)) = Len(b) + 1
         /\ \A i \in 1..Len(b) : Append(b, e)[i] = b[i] /\ b[i] \in Events
         /\ Append(b, e)[Len(b) + 1] = e
OBVIOUS

\* The run goes on beside the queue: it may emit an event, and its promises
\* may be opened, refused or consumed.
LEMMA RunMoves ==
  ASSUME IInv, run' \in Runs, run'.of = run.of,
         active = None => run'.phase \in {"none", "over"},
         active # None /\ run'.phase = "over" => run'.result # "none",
         run'.phase = "suspended" => run'.asks # <<>>,
         reply' \in [Requests -> Replies],
         \A r \in Requests : \/ reply'[r] = reply[r]
                             \/ reply[r] = "open" /\ reply'[r] = "no"
                             \/ reply[r] = "none" /\ reply'[r] = "open"
                             \/ reply[r] = "yes" /\ reply'[r] = "used",
         \/ run'.buffer = run.buffer
         \/ \E e \in Events : /\ run'.buffer = Append(run.buffer, e)
                              /\ e \in Requests => reply[e] = "none" /\ reply'[e] = "open",
         UNCHANGED <<records, pending, entry, resolved, closer, active, queue, drive, failures>>,
         \/ UNCHANGED caller
         \/ CallersOK' /\ caller' \in [Clients -> [at : Places, target : Turns \cup {None}]]
            /\ \A c \in Clients : caller'[c].at = "idle" => caller[c].at = "idle"
  PROVE  IInv'
<1> USE DEF records
<1>1. run.buffer \in Seq(Events)
  BY DEF IInv, Types, Runs
<1>2. \A r \in Requests : Unannounced(r) => Unannounced(r)'
  BY DEF Unannounced
<1>3. ASSUME NEW o \in Ops, OpOK(o), o.kind = "event", o.arg \in Requests
      PROVE  \A i \in 1..Len(run'.buffer) : run'.buffer[i] # o.arg
  <2>1. Unannounced(o.arg) /\ \A i \in 1..Len(run.buffer) : run.buffer[i] # o.arg
    BY <1>3 DEF OpOK, EventOK
  <2>2. ASSUME NEW e \in Events, run'.buffer = Append(run.buffer, e), e \in Requests => reply[e] = "none"
        PROVE  \A i \in 1..Len(run'.buffer) : run'.buffer[i] # o.arg
    <3>1. e # o.arg
      BY <1>3, <2>1, <2>2 DEF Unannounced
    <3>2. \A i \in 1..Len(run'.buffer) : i \in 1..Len(run.buffer) \/ i = Len(run.buffer) + 1
      BY <1>1, <2>2, Buffered
    <3> QED BY <1>1, <2>1, <2>2, <3>1, <3>2, Buffered
  <2> QED BY <2>1, <2>2
<1>4. \A o \in Ops : OpOK(o) => (OpOK(o))'
  <2> TAKE o \in Ops
  <2> HAVE OpOK(o)
  <2>1. (EventOK(o))'
    BY <1>2, <1>3 DEF OpOK, EventOK, Closing
  <2>2. (CallOK(o))'
    BY DEF OpOK, CallOK
  <2> QED BY <2>1, <2>2 DEF OpOK, StartOK, FinishOK, AnswerOK, MarkOK
<1>5. QueueOK'
  BY <1>4, SameQueueOK DEF IInv
<1>6. Types' /\ DriveOK' /\ CloserOK'
  BY DEF IInv, Types, DriveOK, CloserOK
<1>7. CallersOK'
  BY DEF IInv, CallersOK
<1>8. RecordsOK'
  BY RecordsUntouched DEF IInv, At, Argument
<1>9. BufferOK'
  <2>1. BufferOK
    BY DEF IInv, RequestsOK
  <2>2. CASE run'.buffer = run.buffer
    BY <1>2, <2>1, <2>2 DEF BufferOK
  <2>3. ASSUME NEW e \in Events, run'.buffer = Append(run.buffer, e),
               e \in Requests => reply[e] = "none" /\ reply'[e] = "open"
        PROVE  BufferOK'
    <3>1. e \in Requests => Unannounced(e)'
      BY <2>3 DEF IInv, RequestsOK, RequestOK, Unannounced
    <3>2. \A i \in 1..Len(run.buffer) : run.buffer[i] \in Requests => run.buffer[i] # e
      BY <2>1, <2>3 DEF BufferOK, Unannounced
    <3>3. /\ Len(run.buffer) \in Nat /\ Len(run'.buffer) = Len(run.buffer) + 1
          /\ \A i \in 1..Len(run.buffer) : run'.buffer[i] = run.buffer[i]
          /\ run'.buffer[Len(run.buffer) + 1] = e
          /\ \A i \in 1..Len(run'.buffer) : i \in 1..Len(run.buffer) \/ i = Len(run.buffer) + 1
      BY <1>1, <2>3, Buffered
    <3>4. \A i \in 1..Len(run'.buffer) :
            run'.buffer[i] \in Requests => Unannounced(run.buffer[i])'
      BY <1>2, <2>1, <3>1, <3>3 DEF BufferOK
    <3>5. \A i, j \in 1..Len(run'.buffer) :
            run'.buffer[i] \in Requests /\ run'.buffer[i] = run'.buffer[j] => i = j
      <4> TAKE i, j \in 1..Len(run'.buffer)
      <4> HAVE run'.buffer[i] \in Requests /\ run'.buffer[i] = run'.buffer[j]
      <4>1. CASE i \in 1..Len(run.buffer) /\ j \in 1..Len(run.buffer)
        BY <2>1, <3>3, <4>1 DEF BufferOK
      <4>2. CASE ~(i \in 1..Len(run.buffer) /\ j \in 1..Len(run.buffer))
        BY <3>2, <3>3, <4>2
      <4> QED BY <4>1, <4>2
    <3> QED BY <3>4, <3>5 DEF BufferOK
  <2> QED BY <2>2, <2>3
<1>10. ASSUME NEW r \in Requests PROVE RequestOK(r)'
  <2>1. RequestOK(r)
    BY DEF IInv, RequestsOK
  <2> QED BY <2>1 DEF RequestOK, Closing, At, Argument
<1> QED BY <1>5, <1>6, <1>7, <1>8, <1>9, <1>10 DEF IInv, RequestsOK

\* A run that emits.
LEMMA EmittedSpec ==
  ASSUME run \in Runs, run.emitted < MaxEvents, NEW e \in Events
  PROVE  /\ Emitted(e) \in Runs
         /\ Emitted(e).of = run.of /\ Emitted(e).phase = run.phase /\ Emitted(e).asks = run.asks
         /\ Emitted(e).result = run.result /\ Emitted(e).buffer = Append(run.buffer, e)
<1>1. run.buffer \in Seq(Events) /\ run.emitted \in 0..MaxEvents
  BY DEF Runs
<1>2. Append(run.buffer, e) \in Seq(Events) /\ run.emitted + 1 \in 0..MaxEvents
  BY <1>1, BoundsAssumption, Buffered
<1> QED BY <1>2 DEF Emitted, Runs

\* The run emits an item.
LEMMA EmitsKeeps == ASSUME IInv, Emits PROVE IInv'
<1>1. run \in Runs /\ run.emitted < MaxEvents /\ run.phase = "streaming" /\ run' = Emitted("item")
      /\ "item" \in Events
  BY DEF IInv, Types, Emits, MayEmit, Streaming, Events
<1>2. /\ run' \in Runs /\ run'.of = run.of /\ run'.phase = "streaming" /\ run'.asks = run.asks
      /\ run'.result = run.result /\ run'.buffer = Append(run.buffer, "item")
  BY <1>1, EmittedSpec
<1>3. active # None /\ reply \in [Requests -> Replies]
  BY <1>1 DEF IInv, DriveOK, Types
<1>4. "item" \in Requests => reply["item"] = "none" /\ reply'["item"] = "open"
  BY RequestsAssumption
<1> QED BY <1>1, <1>2, <1>3, <1>4, RunMoves DEF Emits, userVars, othersVars

\* The run has compacted its context and waits.
LEMMA CompactsKeeps == ASSUME IInv, Compacts PROVE IInv'
<1>1. /\ run \in Runs /\ run.emitted < MaxEvents /\ run.phase = "streaming" /\ "compacted" \in Events
      /\ run' = [Emitted("compacted") EXCEPT !.phase = "committing"]
  BY DEF IInv, Types, Compacts, MayEmit, Streaming, Events
<1>2. /\ run' \in Runs /\ run'.of = run.of /\ run'.phase = "committing"
      /\ run'.result = run.result /\ run'.buffer = Append(run.buffer, "compacted")
  <2> DEFINE e == Emitted("compacted")
  <2>1. /\ e \in Runs
        /\ e.of = run.of /\ e.result = run.result /\ e.buffer = Append(run.buffer, "compacted")
    BY <1>1, EmittedSpec
  <2>2. run' = [e EXCEPT !.phase = "committing"]
    BY <1>1
  <2> HIDE DEF e
  <2> QED BY <2>1, <2>2 DEF Runs, Phases
<1>3. active # None /\ reply \in [Requests -> Replies]
  BY <1>1 DEF IInv, DriveOK, Types
<1> QED BY <1>1, <1>2, <1>3, RunMoves, RequestsAssumption DEF Compacts, userVars, othersVars

\* The run asks for an interaction that was never asked for.
LEMMA AsksKeeps == ASSUME IInv, NEW r \in Requests, Asks(r) PROVE IInv'
<1>1. /\ run \in Runs /\ run.emitted < MaxEvents /\ run.phase = "streaming" /\ r \in Events
      /\ run' = [Emitted(r) EXCEPT !.asks = Append(Emitted(r).asks, r)]
      /\ reply[r] = "none" /\ reply' = [reply EXCEPT ![r] = "open"]
  BY DEF IInv, Types, Asks, MayEmit, Streaming, Events
<1>2. /\ run' \in Runs /\ run'.of = run.of /\ run'.phase = "streaming"
      /\ run'.result = run.result /\ run'.buffer = Append(run.buffer, r)
  <2> DEFINE e == Emitted(r)
  <2>1. /\ e \in Runs /\ e.asks = run.asks /\ e.phase = run.phase
        /\ e.of = run.of /\ e.result = run.result /\ e.buffer = Append(run.buffer, r)
    BY <1>1, EmittedSpec
  <2>2. run' = [e EXCEPT !.asks = Append(e.asks, r)]
    BY <1>1
  <2> HIDE DEF e
  <2>3. Append(e.asks, r) \in Seq(Requests)
    BY <2>1 DEF Runs
  <2> QED BY <1>1, <2>1, <2>2, <2>3 DEF Runs
<1>3. active # None /\ reply \in [Requests -> Replies]
  BY <1>1 DEF IInv, DriveOK, Types
<1>4. reply' \in [Requests -> Replies] /\ reply'[r] = "open" /\ \A s \in Requests \ {r} : reply'[s] = reply[s]
  BY <1>1, <1>3 DEF Replies
<1> QED BY <1>1, <1>2, <1>3, <1>4, RunMoves DEF Asks, othersVars

\* The run waits for what it asked.
LEMMA SuspendsKeeps == ASSUME IInv, Suspends PROVE IInv'
<1>1. run \in Runs /\ run.phase = "streaming" /\ run.asks # <<>> /\ run' = [run EXCEPT !.phase = "suspended"]
  BY DEF IInv, Types, Suspends, Streaming
<1>2. /\ run' \in Runs /\ run'.of = run.of /\ run'.phase = "suspended" /\ run'.asks # <<>>
      /\ run'.buffer = run.buffer
  BY <1>1 DEF Runs, Phases
<1>3. active # None /\ reply \in [Requests -> Replies]
  BY <1>1 DEF IInv, DriveOK, Types
<1> QED BY <1>2, <1>3, RunMoves DEF Suspends, userVars, othersVars

\* The run ends with a result.
LEMMA RunEndsKeeps ==
  ASSUME IInv, active # None, NEW result \in Endings, NEW threw \in BOOLEAN, RunEnds(result, threw)
  PROVE  IInv'
<1>1. PICK how \in {result, "rejected"} :
        run' = [run EXCEPT !.phase = "over", !.result = how, !.threw = threw, !.asks = <<>>]
  BY DEF RunEnds
<1>2. run \in Runs /\ how \in Results \ {"none"}
  BY DEF IInv, Types, Results, Endings
<1>3. /\ run' \in Runs /\ run'.of = run.of /\ run'.phase = "over" /\ run'.result # "none"
      /\ run'.buffer = run.buffer
  <2>1. run' = [of |-> run.of, phase |-> "over", stopped |-> run.stopped, asks |-> <<>>,
                buffer |-> run.buffer, emitted |-> run.emitted, result |-> how, threw |-> threw]
    BY <1>1, <1>2 DEF Runs
  <2>2. <<>> \in Seq(Requests)
    OBVIOUS
  <2> QED BY <1>2, <2>1, <2>2 DEF Runs, Phases
<1>4. /\ reply' = [r \in Requests |-> IF reply[r] = "open" THEN "no" ELSE reply[r]]
      /\ reply \in [Requests -> Replies]
  BY DEF RunEnds, IInv, Types
<1>5. /\ reply' \in [Requests -> Replies]
      /\ \A r \in Requests : reply'[r] = reply[r] \/ (reply[r] = "open" /\ reply'[r] = "no")
  BY <1>4 DEF Replies
<1> QED BY <1>3, <1>5, RunMoves DEF RunEnds, othersVars

\* The run throws while it streams or waits.
LEMMA ThrowsKeeps == ASSUME IInv, run.phase \in {"streaming", "suspended"}, Throws PROVE IInv'
<1>1. active # None
  BY DEF IInv, DriveOK
<1>2. PICK result \in Endings : RunEnds(result, TRUE)
  BY DEF Throws, Endings
<1> QED BY <1>1, <1>2, RunEndsKeeps

\* The run comes to its end.
LEMMA CompletesKeeps == ASSUME IInv, Completes \/ Stops PROVE IInv'
<1>1. active # None
  BY DEF Completes, Stops, Streaming, IInv, DriveOK
<1>2. PICK result \in Endings : RunEnds(result, FALSE)
  BY DEF Completes, Stops, Endings
<1> QED BY <1>1, <1>2, RunEndsKeeps

\* The run takes an answer, or is refused one.
LEMMA TakesAnswerKeeps == ASSUME IInv, TakesAnswer PROVE IInv'
<1> DEFINE r == Head(run.asks)
<1>1. run \in Runs /\ run.phase = "suspended" /\ run.asks # <<>> /\ run.asks \in Seq(Requests)
      /\ active # None /\ reply \in [Requests -> Replies]
  BY DEF IInv, Types, TakesAnswer, DriveOK, Runs
<1>2. r \in Requests /\ Tail(run.asks) \in Seq(Requests) /\ (Len(run.asks) # 1 => Tail(run.asks) # <<>>)
  <2>1. Len(run.asks) \in Nat /\ Len(run.asks) >= 1
    BY <1>1
  <2>2. Len(run.asks) # 1 => Len(Tail(run.asks)) # 0
    BY <1>1, <2>1
  <2>3. Len(run.asks) # 1 => Tail(run.asks) # <<>>
    <3> SUFFICES ASSUME Len(run.asks) # 1, Tail(run.asks) = <<>> PROVE FALSE
      OBVIOUS
    <3>1. Len(<<>>) = 0
      OBVIOUS
    <3> HIDE <1>1
    <3> QED BY <2>2, <3>1
  <2> QED BY <1>1, <2>3
<1> HIDE DEF r
<1>3. CASE reply[r] = "no" /\ Throws
  BY <1>1, <1>3, ThrowsKeeps
<1>4. CASE /\ reply[r] = "yes"
           /\ reply' = [reply EXCEPT ![r] = "used"]
           /\ run' = [run EXCEPT !.asks = Tail(run.asks),
                                 !.phase = IF Len(run.asks) = 1 THEN "streaming" ELSE run.phase]
           /\ UNCHANGED <<records, pending, entry, resolved, othersVars, active, queue, drive, failures>>
  <2>1. /\ run' \in Runs /\ run'.of = run.of /\ run'.asks = Tail(run.asks)
        /\ run'.phase = IF Len(run.asks) = 1 THEN "streaming" ELSE run.phase
        /\ run'.buffer = run.buffer
    BY <1>1, <1>2, <1>4 DEF Runs, Phases
  <2>2. /\ reply' \in [Requests -> Replies] /\ reply'[r] = "used"
        /\ \A s \in Requests \ {r} : reply'[s] = reply[s]
    BY <1>1, <1>2, <1>4 DEF Replies
  <2>3. run'.phase \in {"streaming", "suspended"}
    BY <1>1, <2>1
  <2> QED BY <1>1, <1>2, <1>4, <2>1, <2>2, <2>3, RunMoves DEF othersVars
<1> QED BY <1>3, <1>4 DEF TakesAnswer, r

\* An interruption refuses the open promises of the run.
LEMMA InterruptedSpec ==
  ASSUME IInv, Interrupted
  PROVE  /\ run' \in Runs /\ run'.of = run.of /\ run'.phase = run.phase /\ run'.asks = run.asks
         /\ run'.result = run.result /\ run'.buffer = run.buffer
         /\ reply' \in [Requests -> Replies]
         /\ \A r \in Requests : reply'[r] = reply[r] \/ (reply[r] = "open" /\ reply'[r] = "no")
<1>1. run \in Runs /\ reply \in [Requests -> Replies]
  BY DEF IInv, Types
<1>2. CASE Live
  <2>1. /\ run' = [run EXCEPT !.stopped = TRUE]
        /\ reply' = [r \in Requests |-> IF reply[r] = "open" THEN "no" ELSE reply[r]]
    BY <1>2 DEF Interrupted
  <2>2. /\ run' \in Runs /\ run'.of = run.of /\ run'.phase = run.phase /\ run'.asks = run.asks
        /\ run'.result = run.result /\ run'.buffer = run.buffer
    BY <1>1, <2>1 DEF Runs
  <2> QED BY <1>1, <2>1, <2>2 DEF Replies
<1>3. CASE ~Live
  BY <1>1, <1>3 DEF Interrupted
<1> QED BY <1>2, <1>3

\* A client interrupts the run of the thread.
LEMMA InterruptKeeps == ASSUME IInv, NEW c \in Clients, NEW t \in Turns, Interrupt(c, t) PROVE IInv'
<1>1. /\ run' \in Runs /\ run'.of = run.of /\ run'.phase = run.phase /\ run'.asks = run.asks
      /\ run'.result = run.result /\ run'.buffer = run.buffer
      /\ reply' \in [Requests -> Replies]
      /\ \A r \in Requests : reply'[r] = reply[r] \/ (reply[r] = "open" /\ reply'[r] = "no")
  BY InterruptedSpec DEF Interrupt
<1>2. DriveOK /\ CallersOK /\ caller \in [Clients -> [at : Places, target : Turns \cup {None}]]
  BY DEF IInv, Types
<1>3. /\ turn' = turn /\ turn[t] # "none"
      /\ caller' = [caller EXCEPT ![c] = [at |-> "stopping", target |-> t]]
  BY DEF Interrupt, records
<1>4. /\ caller' \in [Clients -> [at : Places, target : Turns \cup {None}]]
      /\ caller'[c].at = "stopping" /\ caller'[c].target = t
      /\ \A d \in Clients \ {c} : caller'[d] = caller[d]
  BY <1>2, <1>3 DEF Places
<1>5. CallersOK'
  BY <1>2, <1>3, <1>4 DEF CallersOK
<1>6. \A d \in Clients : caller'[d].at = "idle" => caller[d].at = "idle"
  BY <1>4
<1> QED BY <1>1, <1>2, <1>4, <1>5, <1>6, RunMoves DEF Interrupt, DriveOK

\* Only the active turn is driven.
LEMMA Driven ==
  ASSUME IInv, NEW t \in Turns, drive[t].at \in Driving
  PROVE  t = active /\ active # None /\ run.of = t /\ closer.at \notin {"emptying", "closed"}
BY NoneAssumption DEF IInv, DriveOK, CloserOK, Driving

\* Its drive has enqueued the event or the end at the head.
LEMMA DriveHead ==
  ASSUME IInv, queue # <<>>, queue[1].kind \in {"event", "finish"}
  PROVE  /\ active \in Turns /\ run.of = active
         /\ closer.at \notin {"emptying", "closed"}
         /\ drive[active].at \in IF queue[1].kind = "event" THEN {"event"} ELSE {"finish", "again"}
         /\ \A o \in Ops : ~Clash(queue[1], o) => o.kind \notin {"event", "finish"}
<1>1. OpOK(queue[1]) /\ DriveOK /\ CloserOK /\ active \in Turns \cup {None}
  BY HeadOK DEF IInv, Types
<1> QED BY <1>1 DEF OpOK, EventOK, FinishOK, DriveOK, CloserOK, Clash

\* The records while the drive of a turn without an end goes on.
LEMMA RecordsDriven ==
  ASSUME Types, RecordsOK, UNCHANGED <<turn, ended, active>>,
         NEW t \in Turns, drive[t].at \in {"pull", "event", "result"},
         drive'[t].at \in {"pull", "event", "result", "finish", "again"},
         \A u \in Turns \ {t} : drive'[u].at = drive[u].at,
         ~At("finish", 1), ~(At("finish", 1)'),
         \/ failures' = failures + 1
         \/ /\ failures' = failures
            /\ At("start", 1)' \/ At("start", 2)' <=> At("start", 1) \/ At("start", 2)
            /\ At("start", 1) \/ At("start", 2) => Argument' = Argument
  PROVE  RecordsOK'
<1>1. failures \in Nat /\ (failures' = 0 => failures = 0)
  BY BoundsAssumption DEF Types
<1>2. InProgressIsDriven'
  BY <1>1 DEF RecordsOK, InProgressIsDriven
<1>3. ASSUME NEW u \in Turns PROVE EndsSoFar(u)'
  <2>1. EndsSoFar(u) /\ ended[u] \in Nat
    BY DEF RecordsOK, Types
  <2> QED BY <1>1, <2>1 DEF EndsSoFar
<1> QED BY <1>2, <1>3 DEF RecordsOK

\* The drive takes an event: it leaves the buffer for the queue.
LEMMA DriveTakesKeeps == ASSUME IInv, NEW t \in Turns, DriveTakes(t) PROVE IInv'
<1>1. run \in Runs /\ run.buffer \in Seq(Events) /\ drive \in [Turns -> Drives] /\ run.buffer # <<>>
  BY DEF IInv, Types, Runs, DriveTakes
<1>2. PICK e \in Events : e = Head(run.buffer)
  BY <1>1
<1>3. PICK op \in Ops : op = Operation("event", e) /\ op.kind = "event" /\ op.arg = e /\ op.step = 0
  BY <1>2, OperationIs DEF Kinds
<1>4. /\ drive[t].at = "pull" /\ run.buffer # <<>> /\ Enqueue(op)
      /\ run' = [run EXCEPT !.buffer = Tail(run.buffer)] /\ drive' = [drive EXCEPT ![t].at = "event"]
      /\ UNCHANGED <<records, userVars, othersVars, active, failures>>
  BY <1>2, <1>3 DEF DriveTakes
<1> USE DEF records, userVars, othersVars
<1>5. t = active /\ active # None /\ run.of = t /\ closer.at \notin {"emptying", "closed"}
  BY <1>4, Driven DEF Driving
<1>6. /\ e \in Events /\ e = run.buffer[1] /\ Tail(run.buffer) \in Seq(Events)
      /\ Len(run.buffer) \in Nat /\ 1 \in 1..Len(run.buffer)
      /\ Len(Tail(run.buffer)) = Len(run.buffer) - 1
      /\ \A i \in 1..Len(Tail(run.buffer)) : /\ Tail(run.buffer)[i] = run.buffer[i + 1]
                                             /\ i + 1 \in 1..Len(run.buffer) /\ i + 1 # 1
  BY <1>1, <1>2
<1>7. /\ run' \in Runs /\ run'.of = run.of /\ run'.phase = run.phase /\ run'.asks = run.asks
      /\ run'.result = run.result /\ run'.buffer = Tail(run.buffer)
  BY <1>4, <1>1, <1>6 DEF Runs
<1>8. drive' \in [Turns -> Drives] /\ drive'[t].at = "event" /\ \A u \in Turns \ {t} : drive'[u] = drive[u]
  BY <1>4, <1>1 DEF Drives, Driving
<1>9. BufferOK
  BY DEF IInv, RequestsOK
<1>10. (OpOK(op))'
  <2>1. e \in Requests => Unannounced(e)
    BY <1>6, <1>9 DEF BufferOK
  <2>2. e \in Requests => Unannounced(e)'
    BY <1>4, <2>1 DEF Unannounced
  <2>3. ASSUME NEW i \in 1..Len(run'.buffer), e \in Requests PROVE run'.buffer[i] # e
    <3>1. run'.buffer[i] = run.buffer[i + 1] /\ i + 1 \in 1..Len(run.buffer) /\ i + 1 # 1
      BY <1>6, <1>7
    <3> QED BY <1>6, <1>9, <2>3, <3>1 DEF BufferOK
  <2> QED BY <1>4, <1>5, <1>6, <1>8, <1>3, <2>2, <2>3 DEF OpOK, StartOK, EventOK, FinishOK, AnswerOK, CallOK, MarkOK, Last
<1>11. \A o \in Ops : OpOK(o) => o.kind \notin {"event", "finish"}
  BY <1>4, <1>5 DEF OpOK, EventOK, FinishOK
<1>12. \A o \in Ops : OpOK(o) => (OpOK(o))'
  BY <1>4, <1>11 DEF OpOK, StartOK, EventOK, FinishOK, AnswerOK, CallOK, MarkOK
<1>13. \A o \in Ops : OpOK(o) /\ (\E i \in 1..Len(queue) : queue[i] = o) =>
         ~Clash(o, op) /\ (o.kind = "mark" => op.kind \in Last)
  BY <1>3, <1>11 DEF Clash, Last
<1>14. Enqueue(op) /\ op \in Ops /\ op.step = 0
  BY <1>4, <1>3
<1>15. /\ queue' \in Seq(Ops) /\ QueueOK'
       /\ \A kind, step : step # 0 => (At(kind, step)' <=> At(kind, step))
       /\ queue # <<>> => Argument' = Argument
  BY <1>10, <1>12, <1>13, <1>14, EnqueueOK DEF IInv
<1>16. \A kind, step : At(kind, step) => queue # <<>>
  BY DEF At
<1>17. ~At("finish", 1)
  BY <1>11, HeadOK DEF IInv, At
<1>18. Types' /\ CallersOK' /\ CloserOK'
  BY <1>4, <1>5, <1>7, <1>8, <1>15 DEF IInv, Types, CallersOK, CloserOK
<1>19. DriveOK'
  BY <1>4, <1>5, <1>7, <1>8 DEF IInv, DriveOK, Driving
<1>20. RecordsOK'
  BY <1>4, <1>8, <1>15, <1>16, <1>17, RecordsDriven DEF IInv
<1>21. BufferOK'
  BY <1>4, <1>6, <1>7, <1>9 DEF BufferOK, Unannounced
<1>22. \A r \in Requests : RequestOK(r)'
  BY <1>4, <1>15, <1>16 DEF IInv, RequestsOK, RequestOK, Closing
<1> QED BY <1>15, <1>18, <1>19, <1>20, <1>21, <1>22 DEF IInv, RequestsOK

\* The drive has taken every event of a run that is over.
LEMMA DriveLeavesKeeps == ASSUME IInv, NEW t \in Turns, DriveLeaves(t) PROVE IInv'
<1>1. /\ drive[t].at = "pull" /\ drive' = [drive EXCEPT ![t] = [at |-> "result", broken |-> run.threw]]
      /\ UNCHANGED <<records, userVars, othersVars, active, queue, run, failures>>
  BY DEF DriveLeaves
<1> USE DEF records, userVars, othersVars
<1>2. t = active /\ active # None
  BY <1>1, Driven DEF Driving
<1>3. run \in Runs /\ drive \in [Turns -> Drives] /\ run.threw \in BOOLEAN
  BY DEF IInv, Types, Runs
<1>4. /\ drive' \in [Turns -> Drives] /\ drive'[t].at = "result"
      /\ \A u \in Turns \ {t} : drive'[u] = drive[u]
  BY <1>1, <1>3 DEF Drives, Driving
<1>5. \A o \in Ops : OpOK(o) => o.kind \notin {"event", "finish"}
  BY <1>1, <1>2 DEF OpOK, EventOK, FinishOK
<1>6. \A o \in Ops : OpOK(o) => (OpOK(o))'
  BY <1>1, <1>5 DEF OpOK, StartOK, EventOK, FinishOK, AnswerOK, CallOK, MarkOK
<1>7. QueueOK'
  BY <1>1, <1>6, SameQueueOK DEF IInv
<1>8. ~At("finish", 1)
  BY <1>5, HeadOK DEF IInv, At
<1>9. Types' /\ CallersOK' /\ CloserOK'
  BY <1>1, <1>4 DEF IInv, Types, CallersOK, CloserOK
<1>10. DriveOK'
  BY <1>1, <1>2, <1>4 DEF IInv, DriveOK, Driving
<1>11. RecordsOK'
  <2>1. ~(At("finish", 1)') /\ (At("start", 1)' <=> At("start", 1)) /\ (At("start", 2)' <=> At("start", 2)) /\ Argument' = Argument
    BY <1>1, <1>8 DEF At, Argument
  <2> QED BY <1>1, <1>4, <1>8, <2>1, RecordsDriven DEF IInv
<1>12. RequestsOK'
  BY <1>1, RequestsUntouched DEF IInv, Closing, At, Argument
<1> QED BY <1>7, <1>9, <1>10, <1>11, <1>12 DEF IInv

\* The drive enqueues the end of its turn.
LEMMA DriveFinishesKeeps == ASSUME IInv, NEW t \in Turns, DriveFinishes(t) PROVE IInv'
<1>1. drive[t].at = "result" /\ run.phase = "over"
  BY DEF DriveFinishes
<1>2. t = active /\ active # None /\ closer.at \notin {"emptying", "closed"}
  BY <1>1, Driven DEF Driving
<1>3. Outcome(t) \in Endings
  BY <1>1, <1>2 DEF IInv, DriveOK, Types, Runs, Results, Endings, Outcome
<1>4. PICK op \in Ops : /\ op = Operation("finish", Outcome(t)) /\ op.kind = "finish"
                        /\ op.arg = Outcome(t) /\ op.step = 0
  BY <1>3, OperationIs DEF Kinds
<1>5. PICK place \in {"finish", "again"} : drive' = [drive EXCEPT ![t].at = place]
  BY DEF DriveFinishes
<1>6. /\ Enqueue(op)
      /\ UNCHANGED <<records, userVars, othersVars, active, run, failures>>
  BY <1>4 DEF DriveFinishes
<1> USE DEF records, userVars, othersVars
<1>7. /\ drive' \in [Turns -> Drives] /\ drive'[t].at = place
      /\ \A u \in Turns \ {t} : drive'[u] = drive[u]
  BY <1>5 DEF IInv, Types, Drives, Driving
<1>8. (OpOK(op))'
  BY <1>2, <1>3, <1>4, <1>6, <1>7 DEF OpOK, StartOK, EventOK, FinishOK, AnswerOK, CallOK, MarkOK, Last
<1>9. \A o \in Ops : OpOK(o) => o.kind \notin {"event", "finish"}
  BY <1>1, <1>2 DEF OpOK, EventOK, FinishOK
<1>10. \A o \in Ops : OpOK(o) => (OpOK(o))'
  BY <1>6, <1>9 DEF OpOK, StartOK, EventOK, FinishOK, AnswerOK, CallOK, MarkOK
<1>11. \A o \in Ops : OpOK(o) /\ (\E i \in 1..Len(queue) : queue[i] = o) =>
         ~Clash(o, op) /\ (o.kind = "mark" => op.kind \in Last)
  BY <1>4, <1>9 DEF Clash, Last
<1>12. op.step = 0
  BY <1>4
<1>13. /\ queue' \in Seq(Ops) /\ QueueOK'
       /\ \A kind, step : step # 0 => (At(kind, step)' <=> At(kind, step))
       /\ queue # <<>> => Argument' = Argument
  BY <1>6, <1>8, <1>10, <1>11, <1>12, EnqueueOK DEF IInv
<1>14. \A kind, step : At(kind, step) => queue # <<>>
  BY DEF At
<1>15. ~At("finish", 1)
  BY <1>9, HeadOK DEF IInv, At
<1>16. Types' /\ CallersOK' /\ CloserOK'
  BY <1>2, <1>6, <1>7, <1>13 DEF IInv, Types, CallersOK, CloserOK
<1>17. DriveOK'
  BY <1>2, <1>6, <1>7 DEF IInv, DriveOK, Driving
<1>18. RecordsOK'
  BY <1>1, <1>6, <1>7, <1>13, <1>14, <1>15, RecordsDriven DEF IInv
<1>19. RequestsOK'
  BY <1>6, <1>13, <1>14, RequestsUntouched DEF IInv, Closing
<1> QED BY <1>13, <1>16, <1>17, <1>18, <1>19 DEF IInv

\* What is said of an operation that has not begun and is not of the drive,
\* while turns only go on and the clients and the close stay.
LEMMA BesideDriveOK ==
  ASSUME UNCHANGED <<caller, closer>>, \A t \in Turns : turn[t] = "none" => turn'[t] = "none",
         NEW o \in Ops, OpOK(o), o.step = 0, o.kind \notin {"event", "finish"}
  PROVE  (OpOK(o))'
BY DEF OpOK, StartOK, EventOK, FinishOK, AnswerOK, CallOK, MarkOK

\* An event is recorded, and the drive goes on.
LEMMA RecordEventKeeps == ASSUME IInv, RecordEvent PROVE IInv'
<1>1. /\ queue # <<>> /\ queue[1].kind = "event" /\ queue[1].step = 0 /\ Leaves
      /\ run' = IF queue[1].arg = "compacted" THEN [run EXCEPT !.phase = "streaming"] ELSE run
      /\ drive' = [drive EXCEPT ![run.of].at = "pull"]
      /\ UNCHANGED <<records, userVars, othersVars, active, failures>>
  BY DEF RecordEvent, At, Argument
<1> USE DEF records, userVars, othersVars
<1>2. /\ active \in Turns /\ active # None /\ run.of = active /\ drive[active].at = "event"
      /\ closer.at \notin {"emptying", "closed"}
      /\ \A o \in Ops : ~Clash(queue[1], o) => o.kind \notin {"event", "finish"}
  BY <1>1, DriveHead, NoneAssumption
<1>3. /\ run' \in Runs /\ run'.of = run.of /\ run'.buffer = run.buffer /\ run'.result = run.result
      /\ run'.asks = run.asks /\ run'.phase \in {"streaming", run.phase}
  BY <1>1 DEF IInv, Types, Runs, Phases
<1>4. /\ drive' \in [Turns -> Drives] /\ drive'[active].at = "pull"
      /\ \A u \in Turns \ {active} : drive'[u] = drive[u]
  BY <1>1, <1>2 DEF IInv, Types, Drives, Driving
<1>5. \A o \in Ops : OpOK(o) /\ o.step = 0 /\ ~Clash(queue[1], o) => (OpOK(o))'
  BY <1>1, <1>2, BesideDriveOK
<1>6. /\ queue' \in Seq(Ops) /\ QueueOK'
      /\ \A kind, step : step # 0 => ~(At(kind, step)')
  BY <1>1, <1>5, LeaveOK DEF IInv
<1>7. Types' /\ CallersOK' /\ CloserOK'
  BY <1>1, <1>2, <1>3, <1>4, <1>6 DEF IInv, Types, CallersOK, CloserOK
<1>8. DriveOK'
  BY <1>1, <1>2, <1>3, <1>4 DEF IInv, DriveOK, Driving
<1>9. ~At("finish", 1) /\ ~At("start", 1) /\ ~At("start", 2) /\ ~At("answer", 1)
  BY <1>1 DEF At
<1>10. RecordsOK'
  BY <1>1, <1>2, <1>4, <1>6, <1>9, RecordsDriven DEF IInv
<1>11. RequestsOK'
  BY <1>1, <1>3, <1>6, <1>9, RequestsUntouched DEF IInv, Closing
<1> QED BY <1>6, <1>7, <1>8, <1>10, <1>11 DEF IInv

\* An interaction has its entry.
LEMMA RegisterKeeps == ASSUME IInv, Register PROVE IInv'
<1>1. /\ queue # <<>> /\ queue[1].kind = "event" /\ queue[1].step = 0 /\ GoesTo(1)
      /\ queue[1].arg \in Requests /\ entry' = entry \cup {queue[1].arg}
      /\ UNCHANGED <<records, pending, reply, resolved, othersVars, active, run, drive, failures>>
  BY DEF Register, At, Argument
<1> USE DEF records, othersVars
<1>2. queue[1] \in Ops /\ OpOK(queue[1])
  BY <1>1, HeadOK DEF IInv
<1>3. \A o \in Ops : o.kind = queue[1].kind /\ o.arg = queue[1].arg /\ o.step = 1 => (OpOK(o))'
  BY <1>1, <1>2 DEF OpOK, StartOK, EventOK, FinishOK, AnswerOK, CallOK, MarkOK, Unannounced
<1>4. \A o \in Ops : OpOK(o) => (OpOK(o))'
  BY <1>1 DEF OpOK, StartOK, EventOK, FinishOK, AnswerOK, CallOK, MarkOK, Unannounced, Closing
<1>5. /\ queue' \in Seq(Ops) /\ QueueOK'
      /\ \A kind, s : At(kind, s)' <=> kind = queue[1].kind /\ s = 1
      /\ Argument' = Argument
  BY <1>1, <1>3, <1>4, StepOK DEF IInv
<1>6. closer.at # "closed"
  BY <1>1 DEF IInv, CloserOK
<1>7. Types' /\ DriveOK' /\ CallersOK' /\ CloserOK'
  BY <1>1, <1>5, <1>6 DEF IInv, Types, DriveOK, CallersOK, CloserOK
<1>8. RecordsOK'
  BY <1>1, <1>5, RecordsUntouched DEF IInv, At
<1>9. BufferOK'
  BY <1>1 DEF IInv, RequestsOK, BufferOK, Unannounced
<1>10. \A r \in Requests : RequestOK(r)'
  BY <1>1 DEF IInv, RequestsOK, RequestOK, Closing, At
<1> QED BY <1>5, <1>7, <1>8, <1>9, <1>10 DEF IInv, RequestsOK

\* The snapshot shows the request.
LEMMA RecordRequestKeeps == ASSUME IInv, RecordRequest PROVE IInv'
<1>1. queue # <<>>
  BY DEF RecordRequest, At
<1>2. queue[1] \in Ops /\ OpOK(queue[1])
  BY <1>1, HeadOK DEF IInv
<1>3. PICK r : r = queue[1].arg
  OBVIOUS
<1>4. /\ queue[1].kind = "event" /\ queue[1].step = 1 /\ Leaves /\ queue[1].arg = r
      /\ pending' = pending \cup {r}
      /\ drive' = [drive EXCEPT ![run.of].at = "pull"]
      /\ UNCHANGED <<records, entry, reply, resolved, othersVars, active, run, failures>>
  BY <1>3 DEF RecordRequest, At, Argument
<1> USE DEF records, othersVars
<1>5. /\ r \in Requests /\ (~Closing => r \in entry) /\ Unannounced(r)
      /\ \A i \in 1..Len(run.buffer) : run.buffer[i] # r
  BY <1>4, <1>2 DEF OpOK, EventOK
<1>6. /\ active \in Turns /\ active # None /\ run.of = active /\ drive[active].at = "event"
      /\ closer.at \notin {"emptying", "closed"}
      /\ \A o \in Ops : ~Clash(queue[1], o) => o.kind \notin {"event", "finish"}
  BY <1>4, <1>1, DriveHead, NoneAssumption
<1>7. /\ drive' \in [Turns -> Drives] /\ drive'[active].at = "pull"
      /\ \A u \in Turns \ {active} : drive'[u] = drive[u]
  BY <1>4, <1>6 DEF IInv, Types, Drives, Driving
<1>8. \A o \in Ops : OpOK(o) /\ o.step = 0 /\ ~Clash(queue[1], o) => (OpOK(o))'
  BY <1>4, <1>6, BesideDriveOK
<1>9. /\ queue' \in Seq(Ops) /\ QueueOK'
      /\ \A kind, step : step # 0 => ~(At(kind, step)')
  BY <1>4, <1>1, <1>8, LeaveOK DEF IInv
<1>10. Types' /\ CallersOK' /\ CloserOK'
  BY <1>4, <1>5, <1>6, <1>7, <1>9 DEF IInv, Types, CallersOK, CloserOK
<1>11. DriveOK'
  BY <1>4, <1>6, <1>7 DEF IInv, DriveOK, Driving
<1>12. ~At("finish", 1) /\ ~At("start", 1) /\ ~At("start", 2) /\ ~At("answer", 1)
  BY <1>4 DEF At
<1>13. RecordsOK'
  BY <1>4, <1>6, <1>7, <1>9, <1>12, RecordsDriven DEF IInv
<1>14. BufferOK'
  BY <1>4, <1>5 DEF IInv, RequestsOK, BufferOK, Unannounced
<1>15. ASSUME NEW s \in Requests PROVE RequestOK(s)'
  <2>1. RequestOK(s)
    BY DEF IInv, RequestsOK
  <2>2. CASE s = r
    BY <1>4, <1>5, <2>1, <2>2 DEF RequestOK, Unannounced, Closing
  <2>3. CASE s # r
    BY <1>4, <1>12, <2>1, <2>3 DEF RequestOK, Closing
  <2> QED BY <2>2, <2>3
<1> QED BY <1>9, <1>10, <1>11, <1>13, <1>14, <1>15 DEF IInv, RequestsOK

\* An event cannot be recorded: its interaction was never shown.
LEMMA EventFailsKeeps == ASSUME IInv, EventFails PROVE IInv'
<1>1. queue # <<>> /\ queue[1].kind = "event"
  BY DEF EventFails, At
<1>2. queue[1] \in Ops /\ OpOK(queue[1])
  BY <1>1, HeadOK DEF IInv
<1>3. PICK e : e = queue[1].arg
  OBVIOUS
<1>4. /\ Leaves /\ entry' = entry \ {e}
      /\ drive' = [drive EXCEPT ![run.of] = [at |-> "result", broken |-> TRUE]]
      /\ UNCHANGED <<records, pending, reply, resolved, othersVars, active>>
  BY <1>3 DEF EventFails, Argument
<1> USE DEF records, othersVars
<1>5. failures' = failures + 1 /\ failures' \in 0..MaxFailures
  BY FailsSpec DEF EventFails, IInv
<1>6. e \in Requests => Unannounced(e)
  BY <1>1, <1>2, <1>3 DEF OpOK, EventOK
<1>7. /\ run' \in Runs /\ run'.of = run.of /\ run'.buffer = run.buffer
      /\ run' = run \/ (run'.phase = "over" /\ run'.result # "none")
  <2>1. CASE Argument = "compacted"
    <3>1. PICK how \in {IF run.stopped THEN "interrupted" ELSE "failed", "rejected"} :
            run' = [run EXCEPT !.phase = "over", !.threw = TRUE, !.result = how]
      BY <2>1 DEF EventFails
    <3>2. run \in Runs /\ how \in Results \ {"none"}
      BY DEF IInv, Types, Results, Endings
    <3>3. run' = [of |-> run.of, phase |-> "over", stopped |-> run.stopped, asks |-> run.asks,
                  buffer |-> run.buffer, emitted |-> run.emitted, result |-> how, threw |-> TRUE]
      BY <3>1, <3>2 DEF Runs
    <3> QED BY <3>2, <3>3 DEF Runs, Phases
  <2>2. CASE Argument # "compacted"
    BY <2>2 DEF EventFails, IInv, Types
  <2> QED BY <2>1, <2>2
<1>8. /\ active \in Turns /\ active # None /\ run.of = active /\ drive[active].at = "event"
      /\ closer.at \notin {"emptying", "closed"}
      /\ \A o \in Ops : ~Clash(queue[1], o) => o.kind \notin {"event", "finish"}
  BY <1>1, DriveHead, NoneAssumption
<1>9. /\ drive' \in [Turns -> Drives] /\ drive'[active].at = "result"
      /\ \A u \in Turns \ {active} : drive'[u] = drive[u]
  BY <1>4, <1>8 DEF IInv, Types, Drives, Driving
<1>10. \A o \in Ops : OpOK(o) /\ o.step = 0 /\ ~Clash(queue[1], o) => (OpOK(o))'
  BY <1>4, <1>8, BesideDriveOK
<1>11. /\ queue' \in Seq(Ops) /\ QueueOK'
       /\ \A kind, step : step # 0 => ~(At(kind, step)')
  BY <1>4, <1>1, <1>10, LeaveOK DEF IInv
<1>12. Types' /\ CallersOK' /\ CloserOK'
  BY <1>4, <1>5, <1>7, <1>8, <1>9, <1>11 DEF IInv, Types, CallersOK, CloserOK
<1>13. DriveOK'
  BY <1>4, <1>7, <1>8, <1>9 DEF IInv, DriveOK, Driving
<1>14. ~At("finish", 1)
  BY <1>1 DEF At
<1>15. RecordsOK'
  BY <1>4, <1>5, <1>8, <1>9, <1>11, <1>14, RecordsDriven DEF IInv
<1>16. BufferOK'
  BY <1>4, <1>7 DEF IInv, RequestsOK, BufferOK, Unannounced
<1>17. ASSUME NEW s \in Requests PROVE RequestOK(s)'
  <2>1. RequestOK(s) /\ failures \in Nat
    BY BoundsAssumption DEF IInv, RequestsOK, Types
  <2>2. s \in pending => s # e
    BY <1>6 DEF Unannounced
  <2> QED BY <1>4, <1>5, <2>1, <2>2 DEF RequestOK, Closing
<1> QED BY <1>11, <1>12, <1>13, <1>15, <1>16, <1>17 DEF IInv, RequestsOK

\* The end of the active turn is recorded.
LEMMA RecordFinishKeeps == ASSUME IInv, RecordFinish PROVE IInv'
<1>1. queue # <<>> /\ queue[1].kind = "finish" /\ queue[1].step = 0
  BY DEF RecordFinish, At
<1>2. queue[1] \in Ops /\ OpOK(queue[1])
  BY <1>1, HeadOK DEF IInv
<1>3. PICK how, t : how = queue[1].arg /\ t = active
  OBVIOUS
<1>4. /\ t \in Turns /\ t # None /\ run.of = t /\ drive[t].at \in {"finish", "again"}
      /\ closer.at \notin {"emptying", "closed"} /\ how \in Endings
      /\ \A o \in Ops : ~Clash(queue[1], o) => o.kind \notin {"event", "finish"}
  BY <1>1, <1>2, <1>3, DriveHead, NoneAssumption DEF OpOK, FinishOK
<1>5. /\ turn' = [turn EXCEPT ![t] = how] /\ ended' = [ended EXCEPT ![t] = ended[t] + 1]
      /\ GoesTo(1)
      /\ UNCHANGED <<userVars, othersVars, active, run, drive, failures>>
  BY <1>3, <1>4 DEF RecordFinish, RecordEnd, Argument
<1> USE DEF userVars, othersVars
<1>6. /\ turn \in [Turns -> {"none", "inProgress"} \cup Endings] /\ ended \in [Turns -> Nat]
      /\ failures \in Nat /\ RecordsOK
  BY BoundsAssumption DEF IInv, Types
<1>7. /\ turn'[t] = how /\ ended'[t] = ended[t] + 1
      /\ \A u \in Turns \ {t} : turn'[u] = turn[u] /\ ended'[u] = ended[u]
      /\ turn' \in [Turns -> {"none", "inProgress"} \cup Endings] /\ ended' \in [Turns -> Nat]
  BY <1>5, <1>4, <1>6
<1>8. turn[t] # "none"
  BY <1>4, <1>6 DEF RecordsOK, EndsSoFar
<1>9. \A o \in Ops : o.kind = queue[1].kind /\ o.arg = queue[1].arg /\ o.step = 1 => (OpOK(o))'
  BY <1>5, <1>1, <1>2, <1>3, <1>7 DEF OpOK, StartOK, EventOK, FinishOK, AnswerOK, CallOK, MarkOK
<1>10. \A o \in Ops : OpOK(o) /\ o.step = 0 /\ ~Clash(queue[1], o) => (OpOK(o))'
  BY <1>5, <1>4, <1>6, <1>7, <1>8, BesideDriveOK
<1>11. /\ queue' \in Seq(Ops) /\ QueueOK'
       /\ \A kind, s : At(kind, s)' <=> kind = queue[1].kind /\ s = 1
       /\ Argument' = Argument
  BY <1>5, <1>1, <1>9, <1>10, StepOK DEF IInv
<1>12. Types' /\ DriveOK' /\ CloserOK'
  BY <1>5, <1>4, <1>7, <1>11 DEF IInv, Types, DriveOK, CloserOK
<1>13. CallersOK'
  BY <1>5, <1>4, <1>7 DEF IInv, CallersOK, Endings
<1>14. ~At("finish", 1) /\ ~At("start", 1) /\ ~At("start", 2) /\ ~At("answer", 1)
  BY <1>1 DEF At
<1>15. RecordsOK'
  <2>1. InProgressIsDriven'
    <3> SUFFICES ASSUME failures = 0, NEW u \in Turns PROVE turn'[u] # "inProgress"
      BY <1>5, <1>1, <1>11 DEF InProgressIsDriven
    <3>1. CASE u = t
      BY <1>4, <1>7, <3>1 DEF Endings
    <3>2. CASE u # t
      BY <1>3, <1>6, <1>7, <1>14, <3>2 DEF RecordsOK, InProgressIsDriven
    <3> QED BY <3>1, <3>2
  <2>2. ASSUME NEW u \in Turns PROVE EndsSoFar(u)'
    <3>1. EndsSoFar(u) /\ ended[u] \in Nat /\ turn'[t] \in Endings /\ At("finish", 1)'
      BY <1>1, <1>4, <1>6, <1>7, <1>11 DEF RecordsOK
    <3>2. CASE u = t
      <4>1. ended[t] <= IF failures = 0 THEN 0 ELSE 1
        BY <1>4, <1>6, <1>14, <3>1, <3>2 DEF EndsSoFar
      <4>2. drive[t].at = "finish" => ended[t] = 0
        BY <1>14, <3>1, <3>2 DEF EndsSoFar
      <4>3. turn'[t] \notin {"none", "inProgress"}
        BY <3>1 DEF Endings
      <4> QED BY <1>5, <1>4, <1>6, <1>7, <3>1, <3>2, <4>1, <4>2, <4>3 DEF EndsSoFar
    <3>3. CASE u # t
      <4>1. drive[u].at \in {"none", "done"}
        BY <1>3, <3>3 DEF IInv, DriveOK
      <4> QED BY <1>5, <1>7, <3>1, <3>3, <4>1 DEF EndsSoFar
    <3> QED BY <3>2, <3>3
  <2> QED BY <2>1, <2>2 DEF RecordsOK
<1>16. RequestsOK'
  BY <1>5, <1>14, RequestsUntouched DEF IInv, Closing
<1> QED BY <1>11, <1>12, <1>13, <1>15, <1>16 DEF IInv

\* The turn is over, and none is active any more.
LEMMA FinishKeeps == ASSUME IInv, Finish PROVE IInv'
<1>1. queue # <<>> /\ queue[1].kind = "finish" /\ queue[1].step = 1
  BY DEF Finish, At
<1>2. queue[1] \in Ops /\ OpOK(queue[1])
  BY <1>1, HeadOK DEF IInv
<1>3. PICK t : t = active
  OBVIOUS
<1>4. /\ t \in Turns /\ t # None /\ run.of = t /\ turn[t] \in Endings
      /\ closer.at \notin {"emptying", "closed"}
      /\ \A o \in Ops : ~Clash(queue[1], o) => o.kind \notin {"event", "finish"}
  BY <1>1, <1>2, <1>3, DriveHead, NoneAssumption DEF OpOK, FinishOK
<1>5. /\ active' = None /\ drive' = [drive EXCEPT ![t] = [at |-> "done", broken |-> FALSE]]
      /\ run' = [NoRun EXCEPT !.of = t, !.phase = "over", !.emitted = run.emitted]
      /\ Leaves
      /\ UNCHANGED <<records, userVars, othersVars, failures>>
  BY <1>3, <1>4 DEF Finish
<1> USE DEF userVars, othersVars, records
<1>6. drive' \in [Turns -> Drives] /\ drive'[t].at = "done" /\ \A u \in Turns \ {t} : drive'[u] = drive[u]
  BY <1>5, <1>4 DEF IInv, Types, Drives
<1>7. run' \in Runs /\ run'.phase = "over" /\ run'.buffer = <<>> /\ Len(run'.buffer) = 0
  <2>1. run.emitted \in 0..MaxEvents
    BY DEF IInv, Types, Runs
  <2>2. run' = [of |-> t, phase |-> "over", stopped |-> FALSE, asks |-> <<>>, buffer |-> <<>>,
                emitted |-> run.emitted, result |-> "none", threw |-> FALSE]
    BY <1>5 DEF NoRun
  <2>3. <<>> \in Seq(Requests) /\ <<>> \in Seq(Events) /\ Len(<<>>) = 0
    OBVIOUS
  <2> QED BY <1>4, <2>1, <2>2, <2>3 DEF Runs, Phases, Results
<1>8. \A o \in Ops : OpOK(o) /\ o.step = 0 /\ ~Clash(queue[1], o) => (OpOK(o))'
  BY <1>5, <1>4, BesideDriveOK
<1>9. /\ queue' \in Seq(Ops) /\ QueueOK'
      /\ \A kind, step : step # 0 => ~(At(kind, step)')
  BY <1>5, <1>1, <1>8, LeaveOK DEF IInv
<1>10. Types' /\ CallersOK' /\ CloserOK'
  BY <1>5, <1>4, <1>6, <1>7, <1>9 DEF IInv, Types, CallersOK, CloserOK
<1>11. DriveOK'
  BY <1>5, <1>3, <1>4, <1>6, <1>7, NoneAssumption DEF IInv, DriveOK
<1>12. RecordsOK'
  <2>1. InProgressIsDriven'
    <3> SUFFICES ASSUME failures = 0, NEW u \in Turns PROVE turn[u] # "inProgress"
      BY <1>5, <1>9, NoneAssumption DEF InProgressIsDriven
    <3>1. ~At("start", 1) /\ ~At("start", 2) /\ At("finish", 1)
      BY <1>1 DEF At
    <3> QED BY <3>1 DEF IInv, RecordsOK, InProgressIsDriven
  <2>2. ASSUME NEW u \in Turns PROVE EndsSoFar(u)'
    <3>1. EndsSoFar(u) /\ (u # t => drive[u].at \in {"none", "done"})
      BY <1>3 DEF IInv, RecordsOK, DriveOK
    <3>2. CASE u = t
      BY <1>5, <1>4, <1>6, <3>1, <3>2 DEF EndsSoFar, Endings
    <3>3. CASE u # t
      BY <1>5, <1>6, <3>1, <3>3 DEF EndsSoFar
    <3> QED BY <3>2, <3>3
  <2> QED BY <2>1, <2>2 DEF RecordsOK
<1>13. BufferOK'
  BY <1>7 DEF BufferOK
<1>14. \A r \in Requests : RequestOK(r)'
  BY <1>5, <1>1 DEF IInv, RequestsOK, RequestOK, Closing, At
<1> QED BY <1>9, <1>10, <1>11, <1>12, <1>13, <1>14 DEF IInv, RequestsOK

\* An append of the end throws: a second attempt goes behind the others, or the
\* turn is lost.
LEMMA FinishFailsKeeps == ASSUME IInv, FinishFails PROVE IInv'
<1>1. queue # <<>> /\ queue[1].kind = "finish"
  BY DEF FinishFails, At
<1>2. queue[1] \in Ops /\ OpOK(queue[1])
  BY <1>1, HeadOK DEF IInv
<1>3. PICK t : t = active
  OBVIOUS
<1>4. /\ t \in Turns /\ t # None /\ run.of = t /\ drive[t].at \in {"finish", "again"}
      /\ closer.at \notin {"emptying", "closed"}
      /\ \A o \in Ops : ~Clash(queue[1], o) => o.kind \notin {"event", "finish"}
  BY <1>1, <1>3, DriveHead, NoneAssumption
<1>5. failures' = failures + 1 /\ failures' \in 0..MaxFailures /\ failures' # 0 /\ failures \in Nat
  BY FailsSpec, BoundsAssumption DEF FinishFails, IInv, Types
<1>6. UNCHANGED <<records, userVars, othersVars, active, run>>
  BY DEF FinishFails
<1> USE DEF userVars, othersVars, records
<1>7. queue \in Seq(Ops) /\ Tail(queue) \in Seq(Ops) /\ closer.at # "closed"
  BY <1>1 DEF IInv, Types, CloserOK
<1>8. /\ queue' \in Seq(Ops) /\ QueueOK'
      /\ \A kind, step : step # 0 => ~(At(kind, step)')
      /\ drive' \in [Turns -> Drives]
      /\ drive'[t].at = IF drive[t].at = "finish" THEN "again" ELSE "lost"
      /\ \A u \in Turns \ {t} : drive'[u] = drive[u]
  <2>1. CASE drive[t].at = "finish"
    <3>1. PICK op \in Ops : /\ op = Operation("finish", "failed")
                            /\ op.kind = "finish" /\ op.arg = "failed" /\ op.step = 0
      BY OperationIs DEF Kinds, Endings
    <3>2. queue' = Append(Tail(queue), op) /\ drive' = [drive EXCEPT ![t].at = "again"]
      BY <1>4, <2>1, <3>1 DEF FinishFails
    <3>3. /\ drive' \in [Turns -> Drives] /\ drive'[t].at = "again"
          /\ \A u \in Turns \ {t} : drive'[u] = drive[u]
      BY <1>4, <3>2 DEF IInv, Types, Drives, Driving
    <3>4. (OpOK(op))'
      BY <1>6, <1>3, <1>4, <3>1, <3>3 DEF OpOK, StartOK, EventOK, FinishOK, AnswerOK, CallOK, MarkOK, Last, Endings
    <3>5. \A o \in Ops : OpOK(o) /\ o.step = 0 /\ ~Clash(queue[1], o) => (OpOK(o))'
      BY <1>6, <1>4, BesideDriveOK
    <3>6. /\ queue' \in Seq(Ops) /\ Len(queue) \in Nat /\ Len(queue') = Len(queue)
          /\ \A i \in 1..Len(queue) - 1 : /\ queue'[i] = queue[i + 1] /\ queue[i + 1] \in Ops
                                          /\ i + 1 \in 1..Len(queue) /\ 1 \in 1..Len(queue) /\ i + 1 > 1
          /\ queue'[Len(queue)] = op /\ Len(queue) >= 1
      BY <1>1, <1>7, <3>2
    <3>7. ASSUME NEW i \in 1..Len(queue) - 1
          PROVE  /\ (OpOK(queue[i]))' /\ queue'[i].step = 0
                 /\ queue'[i].kind \notin {"event", "finish"}
      <4>1. PICK o \in Ops : o = queue'[i] /\ o = queue[i + 1]
        BY <3>6
      <4>2. OpOK(o) /\ o.step = 0 /\ ~Clash(queue[1], o)
        BY <3>6, <4>1 DEF IInv, QueueOK
      <4> QED BY <1>4, <3>5, <4>1, <4>2
    <3>8. ASSUME NEW i \in 1..Len(queue') PROVE (OpOK(queue[i]))' /\ queue'[i].step = 0
      <4>1. CASE i = Len(queue)
        BY <3>1, <3>4, <3>6, <4>1
      <4>2. CASE i \in 1..Len(queue) - 1
        BY <3>7, <4>2
      <4> QED BY <3>6, <4>1, <4>2
    <3>9. ASSUME NEW i \in 1..Len(queue'), NEW j \in 1..Len(queue'), i < j
          PROVE  ~Clash(queue'[i], queue'[j]) /\ (queue'[i].kind = "mark" => queue'[j].kind \in Last)
      <4>1. i \in 1..Len(queue) - 1
        BY <3>6, <3>9
      <4>2. CASE j = Len(queue)
        <5>1. queue'[j] = op
          BY <3>6, <4>2
        <5> QED BY <3>1, <3>7, <4>1, <5>1 DEF Clash, Last
      <4>3. CASE j \in 1..Len(queue) - 1
        <5>1. i + 1 \in 1..Len(queue) /\ j + 1 \in 1..Len(queue) /\ i + 1 < j + 1
          BY <3>6, <3>9, <4>1, <4>3
        <5> QED BY <3>6, <4>1, <4>3, <5>1 DEF IInv, QueueOK
      <4> QED BY <3>6, <4>2, <4>3
    <3>10. queue' # <<>> /\ 1 \in 1..Len(queue')
      BY <3>6
    <3> QED BY <2>1, <3>3, <3>6, <3>8, <3>9, <3>10 DEF QueueOK, At
  <2>2. CASE drive[t].at = "again"
    <3>1. Leaves /\ drive' = [drive EXCEPT ![t].at = "lost"]
      BY <1>4, <2>2 DEF FinishFails
    <3>2. /\ drive' \in [Turns -> Drives] /\ drive'[t].at = "lost"
          /\ \A u \in Turns \ {t} : drive'[u] = drive[u]
      BY <1>4, <3>1 DEF IInv, Types, Drives, Driving
    <3>3. \A o \in Ops : OpOK(o) /\ o.step = 0 /\ ~Clash(queue[1], o) => (OpOK(o))'
      BY <1>6, <1>4, BesideDriveOK
    <3>4. /\ queue' \in Seq(Ops) /\ QueueOK'
          /\ \A kind, step : step # 0 => ~(At(kind, step)')
      BY <1>1, <3>1, <3>3, LeaveOK DEF IInv
    <3> QED BY <2>2, <3>2, <3>4
  <2> QED BY <1>4, <2>1, <2>2
<1>9. Types' /\ CallersOK' /\ CloserOK'
  BY <1>6, <1>5, <1>7, <1>8 DEF IInv, Types, CallersOK, CloserOK
<1>10. DriveOK'
  BY <1>6, <1>3, <1>4, <1>8 DEF IInv, DriveOK, Driving
<1>11. RecordsOK'
  <2>1. InProgressIsDriven'
    BY <1>5 DEF InProgressIsDriven
  <2>2. ASSUME NEW u \in Turns PROVE EndsSoFar(u)'
    <3>1. /\ EndsSoFar(u) /\ (u # t => drive[u].at \in {"none", "done"}) /\ ~(At("finish", 1)')
          /\ ended[u] \in Nat
      BY <1>3, <1>8 DEF IInv, RecordsOK, DriveOK, Types
    <3>2. CASE u = t
      BY <1>6, <1>4, <1>5, <1>8, <3>1, <3>2 DEF EndsSoFar
    <3>3. CASE u # t
      BY <1>6, <1>5, <1>8, <3>1, <3>3 DEF EndsSoFar
    <3> QED BY <3>2, <3>3
  <2> QED BY <2>1, <2>2 DEF RecordsOK
<1>12. RequestsOK'
  BY <1>6, <1>5, RequestsUntouched DEF IInv, Closing
<1> QED BY <1>8, <1>9, <1>10, <1>11, <1>12 DEF IInv

\* A client answers a request that the snapshot shows.
LEMMA AnswerRequestKeeps ==
  ASSUME IInv, NEW r \in Requests, NEW how \in {"yes", "no"}, AnswerRequest(r, how)
  PROVE  IInv'
<1>1. PICK op \in Ops : /\ op = Operation("answer", <<r, how>>) /\ op.kind = "answer"
                        /\ op.arg = <<r, how>> /\ op.step = 0
  BY OperationIs DEF Kinds
<1>2. Enqueue(op) /\ closer.at = "open"
  BY <1>1 DEF AnswerRequest, Closing
<1>3. OpOK(op)
  BY <1>1, <1>2 DEF OpOK, StartOK, EventOK, FinishOK, AnswerOK, CallOK, MarkOK
<1>4. ASSUME NEW o \in Ops, OpOK(o) PROVE ~Clash(o, op) /\ (o.kind = "mark" => op.kind \in Last)
  BY <1>1, <1>2, <1>4 DEF Clash, OpOK, MarkOK
<1> QED BY <1>1, <1>2, <1>3, <1>4, OnlyEnqueues DEF AnswerRequest

\* A promise is settled: only of a request that was asked and is not shown
\* any more, or is shown.
LEMMA ResumeSpec ==
  ASSUME Types, NEW r \in Requests, NEW how \in {"yes", "no"}, Resume(r, how)
  PROVE  /\ reply' \in [Requests -> Replies]
         /\ \A s \in Requests \ {r} : reply'[s] = reply[s]
         /\ reply'[r] = reply[r] \/ (reply[r] = "open" /\ reply'[r] = how)
BY DEF Types, Resume, Replies

\* The run is told an answer, unless nobody asks for it any more.
LEMMA AnswerKeeps == ASSUME IInv, Answer PROVE IInv'
<1>1. queue # <<>> /\ queue[1].kind = "answer" /\ queue[1].step = 0
  BY DEF Answer, At
<1>2. queue[1] \in Ops /\ OpOK(queue[1])
  BY <1>1, HeadOK DEF IInv
<1>3. PICK r \in Requests, how \in {"yes", "no"} : queue[1].arg = <<r, how>>
  BY <1>1, <1>2 DEF OpOK, AnswerOK
<1>4. Argument = queue[1].arg /\ Argument[1] = r /\ Argument[2] = how
  BY <1>3 DEF Argument
<1>5. UNCHANGED <<records, pending, entry, resolved, othersVars, active, run, drive, failures>>
  BY DEF Answer
<1>6. ~At("finish", 1) /\ ~At("start", 1) /\ ~At("start", 2) /\ ~At("answer", 1)
  BY <1>1 DEF At
<1>7. CASE ~Answerable(r)
  <2>1. Leaves /\ UNCHANGED reply
    BY <1>4, <1>7 DEF Answer
  <2> QED BY <1>5, <1>1, <1>6, <2>1, OnlyLeaves DEF IInv, Types, userVars
<1>8. CASE Answerable(r)
  <2>1. Resume(r, how) /\ GoesTo(1) /\ r \in pending
    BY <1>4, <1>8 DEF Answer, Answerable
  <2>2. /\ reply' \in [Requests -> Replies]
        /\ \A s \in Requests \ {r} : reply'[s] = reply[s]
        /\ reply'[r] = reply[r] \/ (reply[r] = "open" /\ reply'[r] = how)
    BY <2>1, ResumeSpec DEF IInv
  <2> USE DEF records, othersVars
  <2>3. \A s \in Requests : Unannounced(s) => (Unannounced(s))'
    BY <1>5, <2>1, <2>2 DEF Unannounced
  <2>4. \A o \in Ops : o.kind = queue[1].kind /\ o.arg = queue[1].arg /\ o.step = 1 => (OpOK(o))'
    BY <1>5, <1>1, <1>2, <1>3, <2>1 DEF OpOK, StartOK, EventOK, FinishOK, AnswerOK, CallOK, MarkOK
  <2>5. ASSUME NEW o \in Ops, OpOK(o) PROVE (OpOK(o))'
    <3>1. (EventOK(o))'
      BY <1>5, <2>3, <2>5 DEF OpOK, EventOK, Closing
    <3> QED BY <1>5, <2>5, <3>1 DEF OpOK, StartOK, FinishOK, AnswerOK, CallOK, MarkOK
  <2>6. /\ queue' \in Seq(Ops) /\ QueueOK'
        /\ \A kind, s : At(kind, s)' <=> kind = queue[1].kind /\ s = 1
        /\ Argument' = Argument
    BY <1>1, <2>1, <2>4, <2>5, StepOK DEF IInv
  <2>7. closer.at # "closed"
    BY <1>1 DEF IInv, CloserOK
  <2>8. Types' /\ DriveOK' /\ CallersOK' /\ CloserOK'
    BY <1>5, <2>2, <2>6, <2>7 DEF IInv, Types, DriveOK, CallersOK, CloserOK
  <2>9. RecordsOK'
    BY <1>5, <1>1, <1>6, <2>6, RecordsUntouched DEF IInv
  <2>10. BufferOK'
    BY <1>5, <2>3 DEF IInv, RequestsOK, BufferOK
  <2>11. ASSUME NEW s \in Requests PROVE RequestOK(s)'
    <3>1. RequestOK(s)
      BY DEF IInv, RequestsOK
    <3>2. CASE s = r
      BY <1>5, <1>1, <1>4, <2>2, <2>6, <3>1, <3>2 DEF RequestOK, Closing
    <3>3. CASE s # r
      BY <1>5, <1>6, <2>2, <3>1, <3>3 DEF RequestOK, Closing
    <3> QED BY <3>2, <3>3
  <2> QED BY <2>6, <2>8, <2>9, <2>10, <2>11 DEF IInv, RequestsOK
<1> QED BY <1>7, <1>8

\* A request is settled, in the queue or beside it: what is said of it and of
\* the events that announce the others still holds.
LEMMA Settled ==
  ASSUME Types, RequestsOK, NEW r \in Requests,
         \/ r \in pending /\ RecordResolved(r)
         \/ r \notin pending /\ UNCHANGED <<pending, resolved>>,
         entry' = entry \ {r},
         Resume(r, "no") \/ UNCHANGED reply,
         run'.buffer = run.buffer, failures' = failures,
         closer'.at = closer.at, closer'.now # r,
         \A s \in Requests : closer'.now = s => closer.now = s,
         \A s \in Requests \ {r} : ~(At("answer", 1) /\ Argument[1] = s)
  PROVE  /\ RequestsOK'
         /\ pending' \subseteq Requests /\ entry' \subseteq Requests
         /\ resolved' \in [Requests -> Nat] /\ reply' \in [Requests -> Replies]
         /\ \A s \in Requests : Unannounced(s) => (Unannounced(s))'
<1>1. /\ pending' \subseteq Requests /\ pending' = pending \ {r}
      /\ resolved' \in [Requests -> Nat]
      /\ \A s \in Requests \ {r} : resolved'[s] = resolved[s]
      /\ resolved'[r] = IF r \in pending THEN resolved[r] + 1 ELSE resolved[r]
  <2>1. pending \subseteq Requests /\ resolved \in [Requests -> Nat]
    BY DEF Types
  <2>2. CASE r \in pending
    <3>1. pending' = pending \ {r} /\ resolved' = [resolved EXCEPT ![r] = resolved[r] + 1]
      BY <2>2 DEF RecordResolved
    <3> QED BY <2>1, <2>2, <3>1
  <2>3. CASE r \notin pending
    BY <2>1, <2>3
  <2> QED BY <2>2, <2>3
<1>2. /\ reply' \in [Requests -> Replies]
      /\ \A s \in Requests \ {r} : reply'[s] = reply[s]
      /\ reply'[r] = reply[r] \/ (reply[r] = "open" /\ reply'[r] = "no")
  BY ResumeSpec DEF Types
<1>3. \A s \in Requests : Unannounced(s) => (Unannounced(s))'
  BY <1>1, <1>2 DEF Unannounced
<1>4. BufferOK'
  BY <1>3 DEF RequestsOK, BufferOK
<1>5. ASSUME NEW s \in Requests PROVE RequestOK(s)'
  <2>1. RequestOK(s) /\ resolved[s] \in Nat
    BY DEF RequestsOK, Types
  <2>2. CASE s = r
    <3>1. resolved'[r] <= 1 /\ r \notin pending' /\ (reply'[r] = "none" => resolved'[r] = 0)
      BY <1>1, <1>2, <2>1, <2>2 DEF RequestOK
    <3> QED BY <2>2, <3>1 DEF RequestOK
  <2>3. CASE s # r
    BY <1>1, <1>2, <2>1, <2>3 DEF RequestOK, Closing
  <2> QED BY <2>2, <2>3
<1>6. entry' \subseteq Requests
  BY DEF Types
<1> QED BY <1>1, <1>2, <1>3, <1>4, <1>5, <1>6 DEF RequestsOK

\* An answered request is resolved.
LEMMA RecordAnswerKeeps == ASSUME IInv, RecordAnswer PROVE IInv'
<1>1. queue # <<>> /\ queue[1].kind = "answer" /\ queue[1].step = 1 /\ At("answer", 1)
  BY DEF RecordAnswer, At
<1>2. queue[1] \in Ops /\ OpOK(queue[1])
  BY <1>1, HeadOK DEF IInv
<1>3. PICK r \in Requests : Argument[1] = r /\ r \in pending
  BY <1>1, <1>2 DEF OpOK, AnswerOK, Argument
<1>4. /\ RecordResolved(r) /\ entry' = entry \ {r} /\ Leaves
      /\ UNCHANGED <<records, reply, othersVars, active, run, drive, failures>>
  BY <1>3 DEF RecordAnswer
<1> USE DEF records, othersVars
<1>5. closer.at \in {"open", "draining"} /\ closer.now # r
  BY <1>1, <1>2, <1>3 DEF IInv, OpOK, MarkOK, Last, RequestsOK, RequestOK, Types, Closers
<1>6. /\ RequestsOK'
      /\ pending' \subseteq Requests /\ entry' \subseteq Requests
      /\ resolved' \in [Requests -> Nat] /\ reply' \in [Requests -> Replies]
      /\ \A s \in Requests : Unannounced(s) => (Unannounced(s))'
  BY <1>4, <1>3, <1>5, Settled DEF IInv
<1>7. ASSUME NEW o \in Ops, OpOK(o), o.step = 0 PROVE (OpOK(o))'
  <2>1. (EventOK(o))'
    BY <1>4, <1>6, <1>7 DEF OpOK, EventOK
  <2> QED BY <1>4, <1>7, <2>1 DEF OpOK, StartOK, FinishOK, AnswerOK, CallOK, MarkOK
<1>8. /\ queue' \in Seq(Ops) /\ QueueOK'
      /\ \A kind, step : step # 0 => ~(At(kind, step)')
  BY <1>4, <1>1, <1>7, LeaveOK DEF IInv
<1>9. Types' /\ DriveOK' /\ CallersOK' /\ CloserOK'
  BY <1>4, <1>5, <1>6, <1>8 DEF IInv, Types, DriveOK, CallersOK, CloserOK
<1>10. RecordsOK'
  <2>1. ~At("finish", 1) /\ ~At("start", 1) /\ ~At("start", 2)
    BY <1>1 DEF At
  <2> QED BY <1>4, <1>8, <2>1, RecordsUntouched DEF IInv
<1> QED BY <1>6, <1>8, <1>9, <1>10 DEF IInv

\* The record of an answer fails.
LEMMA AnswerFailsKeeps == ASSUME IInv, AnswerFails PROVE IInv'
<1>1. failures' = failures + 1 /\ failures' \in 0..MaxFailures
  BY FailsSpec DEF AnswerFails, IInv
<1>2. queue # <<>> /\ ~At("finish", 1)
  BY DEF AnswerFails, At
<1> QED BY <1>1, <1>2, OnlyLeaves DEF AnswerFails

\* A client goes on: what is said of the operations and the clients.
LEMMA MovesSpec ==
  ASSUME Types, CallersOK, UNCHANGED <<records>>, NEW c \in Clients, NEW place \in Places \ {"idle"},
         Moves(c, place), caller[c].at # "idle",
         place = "returned" => turn[caller[c].target] \in Endings
  PROVE  /\ caller' \in [Clients -> [at : Places, target : Turns \cup {None}]]
         /\ CallersOK'
         /\ \A d \in Clients : caller[d].at # "idle" => caller'[d].at # "idle"
<1>1. caller \in [Clients -> [at : Places, target : Turns \cup {None}]]
  BY DEF Types
<1>2. caller' = [caller EXCEPT ![c].at = place]
  BY DEF Moves
<1>3. /\ caller' \in [Clients -> [at : Places, target : Turns \cup {None}]]
      /\ caller'[c].at = place /\ caller'[c].target = caller[c].target
      /\ \A d \in Clients \ {c} : caller'[d] = caller[d]
  BY <1>1, <1>2
<1>4. CallersOK'
  BY <1>3 DEF CallersOK, records
<1> QED BY <1>3, <1>4

\* What the queue says while only clients go on.
LEMMA BesideClientsOK ==
  ASSUME UNCHANGED <<records, userVars, closer, active, run, drive>>,
         \A d \in Clients : caller[d].at # "idle" => caller'[d].at # "idle"
  PROVE  \A o \in Ops : OpOK(o) => (OpOK(o))'
BY DEF OpOK, StartOK, EventOK, FinishOK, AnswerOK, CallOK, MarkOK, Unannounced, Closing,
       records, userVars

\* A client enqueues its operation, or is refused.
LEMMA ClientEnqueues ==
  ASSUME IInv, NEW c \in Clients, NEW place \in Places \ {"idle", "returned"},
         NEW kind \in {"cancel", "interrupt"}, caller[c].at # "idle",
         IF Closing THEN Moves(c, "refused") /\ UNCHANGED queue
                    ELSE Moves(c, place) /\ Enqueue(Operation(kind, c)),
         UNCHANGED <<records, userVars, closer, active, run, drive, failures>>
  PROVE  IInv'
<1>1. PICK to \in Places \ {"idle", "returned"} : Moves(c, to)
  BY DEF Places
<1>2. /\ caller' \in [Clients -> [at : Places, target : Turns \cup {None}]]
      /\ CallersOK'
      /\ \A d \in Clients : caller[d].at # "idle" => caller'[d].at # "idle"
  BY <1>1, MovesSpec DEF IInv
<1>3. \A o \in Ops : OpOK(o) => (OpOK(o))'
  BY <1>2, BesideClientsOK
<1>4. /\ queue' \in Seq(Ops) /\ QueueOK'
      /\ \A k, step : step # 0 => (At(k, step)' <=> At(k, step))
      /\ queue # <<>> => Argument' = Argument
      /\ closer.at = "closed" => queue' = queue
  <2>1. CASE Closing
    <3>1. UNCHANGED queue
      BY <2>1
    <3> QED BY <1>3, <3>1, SameQueueOK DEF IInv, Types, At, Argument
  <2>2. CASE ~Closing
    <3>1. PICK op \in Ops : op = Operation(kind, c) /\ op.kind = kind /\ op.arg = c /\ op.step = 0
      BY OperationIs DEF Kinds
    <3>2. Enqueue(op) /\ closer.at = "open" /\ op.step = 0
      BY <2>2, <3>1 DEF Closing
    <3>3. (OpOK(op))'
      BY <1>2, <3>1, <3>2 DEF OpOK, StartOK, EventOK, FinishOK, AnswerOK, CallOK, MarkOK
    <3>4. \A o \in Ops : OpOK(o) /\ (\E i \in 1..Len(queue) : queue[i] = o) =>
            ~Clash(o, op) /\ (o.kind = "mark" => op.kind \in Last)
      BY <3>1, <3>2 DEF Clash, OpOK, MarkOK
    <3>5. /\ queue' \in Seq(Ops) /\ QueueOK'
          /\ \A k, step : step # 0 => (At(k, step)' <=> At(k, step))
          /\ queue # <<>> => Argument' = Argument
      BY <1>3, <3>2, <3>3, <3>4, EnqueueOK DEF IInv
    <3> QED BY <3>2, <3>5
  <2> QED BY <2>1, <2>2
<1>5. \A k, step : At(k, step) => queue # <<>>
  BY DEF At
<1>6. Types' /\ DriveOK' /\ CloserOK'
  BY <1>2, <1>4 DEF IInv, Types, DriveOK, CloserOK, records, userVars
<1>7. RecordsOK'
  BY <1>4, <1>5, RecordsUntouched DEF IInv, records
<1>8. RequestsOK'
  BY <1>4, <1>5, RequestsUntouched DEF IInv, Closing, userVars
<1> QED BY <1>2, <1>4, <1>6, <1>7, <1>8 DEF IInv

\* A client asks to cancel what waits for the user.
LEMMA AskCancelKeeps == ASSUME IInv, NEW c \in Clients, AskCancel(c) PROVE IInv'
<1>1. caller[c].at # "idle" /\ "cancelling" \in Places \ {"idle", "returned"}
  BY DEF AskCancel, Places
<1> QED BY <1>1, ClientEnqueues DEF AskCancel

\* A client asks to interrupt its turn.
LEMMA AskInterruptKeeps == ASSUME IInv, NEW c \in Clients, AskInterrupt(c) PROVE IInv'
<1>1. caller[c].at # "idle" /\ "asking" \in Places \ {"idle", "returned"}
  BY DEF AskInterrupt, Places
<1> QED BY <1>1, ClientEnqueues DEF AskInterrupt

\* A cancellation takes the entries there are.
LEMMA CancelAllKeeps == ASSUME IInv, CancelAll PROVE IInv'
<1>1. queue # <<>> /\ queue[1].kind = "cancel"
  BY DEF CancelAll, At
<1>2. queue[1] \in Ops /\ OpOK(queue[1]) /\ entry \subseteq Requests
  BY <1>1, HeadOK DEF IInv, Types
<1>3. PICK op \in Ops : /\ op = [queue[1] EXCEPT !.step = 1, !.todo = entry]
                        /\ op.kind = queue[1].kind /\ op.arg = queue[1].arg /\ op.step = 1
  <2>1. PICK q \in Ops : q = queue[1]
    BY <1>2
  <2> DEFINE op == [q EXCEPT !.step = 1, !.todo = entry]
  <2> DEFINE begun == [q EXCEPT !.step = 1]
  <2>2. begun \in Ops /\ begun.kind = q.kind /\ begun.arg = q.arg /\ begun.step = 1
    BY DEF Ops
  <2>3. op = [begun EXCEPT !.todo = entry]
    BY DEF Ops
  <2> HIDE DEF begun, op
  <2>4. op \in Ops /\ op.kind = q.kind /\ op.arg = q.arg /\ op.step = 1
    BY <1>2, <2>2, <2>3 DEF Ops
  <2>5. op = [q EXCEPT !.step = 1, !.todo = entry]
    BY DEF op
  <2> QED BY <2>1, <2>4, <2>5
<1>4. /\ queue' = [queue EXCEPT ![1] = op]
      /\ UNCHANGED <<records, userVars, othersVars, active, run, drive, failures>>
  BY <1>3 DEF CancelAll
<1> USE DEF records, userVars, othersVars
<1>5. \A o \in Ops : OpOK(o) => (OpOK(o))'
  BY <1>4 DEF OpOK, StartOK, EventOK, FinishOK, AnswerOK, CallOK, MarkOK, Unannounced, Closing
<1>6. (OpOK(op))'
  <2>1. OpOK(op)
    BY <1>1, <1>2, <1>3 DEF OpOK, StartOK, EventOK, FinishOK, AnswerOK, CallOK, MarkOK
  <2> QED BY <1>5, <2>1
<1>7. /\ queue' \in Seq(Ops) /\ QueueOK'
      /\ \A kind, s : At(kind, s)' <=> kind = queue[1].kind /\ s = op.step
      /\ Argument' = Argument
  BY <1>4, <1>1, <1>3, <1>5, <1>6, GoesOnOK DEF IInv
<1>8. closer.at # "closed"
  BY <1>1 DEF IInv, CloserOK
<1>9. Types' /\ DriveOK' /\ CallersOK' /\ CloserOK'
  BY <1>4, <1>7, <1>8 DEF IInv, Types, DriveOK, CallersOK, CloserOK
<1>10. RecordsOK'
  BY <1>4, <1>1, <1>7, RecordsUntouched DEF IInv, At
<1>11. RequestsOK'
  BY <1>4, <1>1, <1>7, RequestsUntouched DEF IInv, Closing, At
<1> QED BY <1>7, <1>9, <1>10, <1>11 DEF IInv

\* One of them is settled.
LEMMA CancelKeeps == ASSUME IInv, NEW r \in Requests, Cancel(r) PROVE IInv'
<1>1. queue # <<>> /\ queue[1].kind = "cancel" /\ queue[1].step = 1
  BY DEF Cancel, At
<1>2. queue[1] \in Ops /\ OpOK(queue[1])
  BY <1>1, HeadOK DEF IInv
<1>3. PICK op \in Ops : /\ op = [queue[1] EXCEPT !.todo = queue[1].todo \ {r}]
                        /\ op.kind = queue[1].kind /\ op.arg = queue[1].arg /\ op.step = 1
  <2> DEFINE op == [queue[1] EXCEPT !.todo = queue[1].todo \ {r}]
  <2>1. op \in Ops /\ op.kind = queue[1].kind /\ op.arg = queue[1].arg /\ op.step = 1
    BY <1>1, <1>2 DEF Ops
  <2> QED BY <2>1
<1>4. /\ queue' = [queue EXCEPT ![1] = op] /\ entry' = entry \ {r} /\ Resume(r, "no")
      /\ \/ r \in pending /\ RecordResolved(r)
         \/ r \notin pending /\ UNCHANGED <<pending, resolved>>
      /\ UNCHANGED <<records, othersVars, active, run, drive, failures>>
  BY <1>3 DEF Cancel
<1> USE DEF records, othersVars
<1>5. closer.at \in {"open", "draining"} /\ closer.now # r
  BY <1>1, <1>2 DEF IInv, OpOK, MarkOK, Last, RequestsOK, RequestOK, Types, Closers
<1>6. /\ RequestsOK'
      /\ pending' \subseteq Requests /\ entry' \subseteq Requests
      /\ resolved' \in [Requests -> Nat] /\ reply' \in [Requests -> Replies]
      /\ \A s \in Requests : Unannounced(s) => (Unannounced(s))'
  <2>1. ~At("answer", 1)
    BY <1>1 DEF At
  <2> QED BY <1>4, <1>5, <2>1, Settled DEF IInv
<1>7. ASSUME NEW o \in Ops, OpOK(o), o.step = 0 \/ o = op PROVE (OpOK(o))'
  <2>1. (EventOK(o))'
    BY <1>4, <1>1, <1>3, <1>6, <1>7 DEF OpOK, EventOK
  <2>2. (AnswerOK(o))'
    BY <1>1, <1>3, <1>7 DEF OpOK, AnswerOK
  <2> QED BY <1>4, <1>7, <2>1, <2>2 DEF OpOK, StartOK, FinishOK, CallOK, MarkOK
<1>8. (OpOK(op))'
  <2>1. OpOK(op)
    BY <1>1, <1>2, <1>3 DEF OpOK, StartOK, EventOK, FinishOK, AnswerOK, CallOK, MarkOK
  <2> QED BY <1>7, <2>1
<1>9. /\ queue' \in Seq(Ops) /\ QueueOK'
      /\ \A kind, s : At(kind, s)' <=> kind = queue[1].kind /\ s = op.step
      /\ Argument' = Argument
  BY <1>4, <1>1, <1>3, <1>7, <1>8, GoesOnOK DEF IInv
<1>10. Types' /\ DriveOK' /\ CallersOK' /\ CloserOK'
  BY <1>4, <1>5, <1>6, <1>9 DEF IInv, Types, DriveOK, CallersOK, CloserOK
<1>11. RecordsOK'
  BY <1>4, <1>1, <1>9, RecordsUntouched DEF IInv, At
<1> QED BY <1>6, <1>9, <1>10, <1>11 DEF IInv

\* A client's operation at the head ends, and so may the promises of the run.
LEMMA ClientLeaves ==
  ASSUME IInv, queue # <<>>, queue[1].kind \in {"cancel", "interrupt"}, Leaves,
         NEW c \in Clients, NEW place \in Places \ {"idle"}, Moves(c, place), caller[c].at # "idle",
         place = "returned" => turn[caller[c].target] \in Endings,
         UNCHANGED <<run, reply>> \/ Interrupted,
         failures' \in 0..MaxFailures, failures' = failures \/ failures' = failures + 1,
         UNCHANGED <<records, pending, entry, resolved, closer, active, drive>>
  PROVE  IInv'
<1>1. /\ caller' \in [Clients -> [at : Places, target : Turns \cup {None}]]
      /\ CallersOK'
      /\ \A d \in Clients : caller[d].at # "idle" => caller'[d].at # "idle"
  BY MovesSpec DEF IInv
<1> USE DEF records
<1>2. /\ run' \in Runs /\ run'.of = run.of /\ run'.phase = run.phase /\ run'.asks = run.asks
      /\ run'.result = run.result /\ run'.buffer = run.buffer
      /\ reply' \in [Requests -> Replies]
      /\ \A r \in Requests : reply'[r] = reply[r] \/ (reply[r] = "open" /\ reply'[r] = "no")
  BY InterruptedSpec DEF IInv, Types
<1>3. \A s \in Requests : Unannounced(s) => (Unannounced(s))'
  BY <1>2 DEF Unannounced
<1>4. ASSUME NEW o \in Ops, OpOK(o) PROVE (OpOK(o))'
  <2>1. (EventOK(o))'
    BY <1>2, <1>3, <1>4 DEF OpOK, EventOK, Closing
  <2> QED BY <1>1, <1>4, <2>1 DEF OpOK, StartOK, FinishOK, AnswerOK, CallOK, MarkOK
<1>5. /\ queue' \in Seq(Ops) /\ QueueOK'
      /\ \A kind, step : step # 0 => ~(At(kind, step)')
  BY <1>4, LeaveOK DEF IInv
<1>6. Types' /\ CloserOK'
  BY <1>1, <1>2, <1>5 DEF IInv, Types, CloserOK
<1>7. DriveOK'
  BY <1>2 DEF IInv, DriveOK
<1>8. ~At("finish", 1) /\ ~At("start", 1) /\ ~At("start", 2) /\ ~At("answer", 1)
  BY DEF At
<1>9. RecordsOK'
  BY <1>5, <1>8, RecordsUntouched DEF IInv
<1>10. BufferOK'
  BY <1>2, <1>3 DEF IInv, RequestsOK, BufferOK
<1>11. ASSUME NEW s \in Requests PROVE RequestOK(s)'
  <2>1. RequestOK(s) /\ failures \in Nat
    BY BoundsAssumption DEF IInv, RequestsOK, Types
  <2> QED BY <1>2, <1>8, <2>1 DEF RequestOK, Closing
<1> QED BY <1>1, <1>5, <1>6, <1>7, <1>9, <1>10, <1>11 DEF IInv, RequestsOK

\* A cancellation ends, or fails.
LEMMA CancelEndsKeeps == ASSUME IInv, CancelEnds \/ CancelFails PROVE IInv'
<1>1. queue # <<>> /\ queue[1].kind = "cancel" /\ Argument = queue[1].arg
  BY DEF CancelEnds, CancelFails, At, Argument
<1>2. queue[1].arg \in Clients /\ caller[queue[1].arg].at # "idle"
  BY <1>1, HeadOK DEF IInv, OpOK, CallOK
<1>3. PICK place \in Places \ {"idle", "returned"} : Moves(Argument, place)
  BY DEF CancelEnds, CancelFails, Places
<1>4. failures' \in 0..MaxFailures /\ (failures' = failures \/ failures' = failures + 1)
  BY FailsSpec DEF CancelEnds, CancelFails, IInv, Types
<1> QED BY <1>1, <1>2, <1>3, <1>4, ClientLeaves DEF CancelEnds, CancelFails, userVars

\* A turn is interrupted, or was over already, or is not the active one.
LEMMA InterruptTurnKeeps == ASSUME IInv, InterruptTurn PROVE IInv'
<1>1. PICK c : c = queue[1].arg
  OBVIOUS
<1>2. queue # <<>> /\ queue[1].kind = "interrupt" /\ Argument = c
  BY <1>1 DEF InterruptTurn, At, Argument
<1>3. c \in Clients /\ caller[c].at # "idle"
  BY <1>1, <1>2, HeadOK DEF IInv, OpOK, CallOK
<1>4. turn[caller[c].target] \in {"inProgress"} \cup Endings
  BY <1>3 DEF IInv, Types, CallersOK
<1>5. \E place \in Places \ {"idle"} :
        /\ Moves(c, place) /\ (place = "returned" => turn[caller[c].target] \in Endings)
        /\ UNCHANGED <<run, reply>> \/ Interrupted
  <2>1. "refused" \in Places \ {"idle"} /\ "returned" \in Places \ {"idle"} /\ "waiting" \in Places \ {"idle"}
    BY DEF Places
  <2>2. CASE turn[caller[c].target] = "inProgress"
    BY <1>2, <2>1, <2>2 DEF InterruptTurn
  <2>3. CASE turn[caller[c].target] # "inProgress"
    <3>1. turn[caller[c].target] \in Endings
      BY <1>4, <2>3
    <3> QED BY <1>2, <2>1, <2>3, <3>1 DEF InterruptTurn
  <2> QED BY <2>2, <2>3
<1>6. PICK place \in Places \ {"idle"} :
        /\ Moves(c, place) /\ (place = "returned" => turn[caller[c].target] \in Endings)
        /\ UNCHANGED <<run, reply>> \/ Interrupted
  BY <1>5
<1>7. /\ Leaves /\ UNCHANGED <<records, pending, entry, resolved, closer, active, drive, failures>>
      /\ failures' \in 0..MaxFailures
  BY DEF InterruptTurn, IInv, Types
<1> QED BY <1>2, <1>3, <1>6, <1>7, ClientLeaves

\* A client has waited for its turn.
LEMMA InterruptReturnsKeeps == ASSUME IInv, NEW c \in Clients, InterruptReturns(c) PROVE IInv'
<1>1. caller[c].at # "idle" /\ UNCHANGED <<records, userVars, closer, active, queue, run, drive, failures>>
  BY DEF InterruptReturns
<1> USE DEF records, userVars
<1>2. caller[c].target \in Turns
  BY <1>1 DEF IInv, CallersOK
<1>3. PICK place \in Places \ {"idle"} :
        Moves(c, place) /\ (place = "returned" => turn[caller[c].target] \in Endings)
  <2>1. drive[caller[c].target].at = "done" => turn[caller[c].target] \in Endings
    BY <1>2 DEF IInv, RecordsOK, EndsSoFar
  <2> QED BY <2>1 DEF InterruptReturns, Places
<1>4. /\ caller' \in [Clients -> [at : Places, target : Turns \cup {None}]]
      /\ CallersOK'
      /\ \A d \in Clients : caller[d].at # "idle" => caller'[d].at # "idle"
  BY <1>1, <1>3, MovesSpec DEF IInv
<1>5. \A d \in Clients : caller'[d].at = "idle" => caller[d].at = "idle"
  BY <1>4
<1>6. run' \in Runs /\ reply' \in [Requests -> Replies] /\ DriveOK
  BY <1>1 DEF IInv, Types
<1> QED BY <1>1, <1>4, <1>5, <1>6, RunMoves DEF DriveOK

\* A close waits for the queue.
LEMMA CloseKeeps == ASSUME IInv, Close PROVE IInv'
<1>1. PICK op \in Ops : op = Operation("mark", None) /\ op.kind = "mark" /\ op.step = 0
  BY OperationIs DEF Kinds
<1>2. /\ closer.at = "open" /\ closer' = [closer EXCEPT !.at = "draining"] /\ Enqueue(op)
      /\ UNCHANGED <<records, userVars, caller, active, run, drive, failures>>
  BY <1>1 DEF Close, Closing, AwaitQueue, Comes
<1> USE DEF records, userVars
<1>3. closer' \in Closers /\ closer'.at = "draining" /\ closer'.now = closer.now
  BY <1>2 DEF IInv, Types, Closers
<1>4. \A o \in Ops : OpOK(o) => (OpOK(o))' /\ o.kind # "mark"
  BY <1>2, <1>3 DEF OpOK, StartOK, EventOK, FinishOK, AnswerOK, CallOK, MarkOK, Unannounced, Closing
<1>5. (OpOK(op))'
  BY <1>1, <1>3 DEF OpOK, StartOK, EventOK, FinishOK, AnswerOK, CallOK, MarkOK
<1>6. \A o \in Ops : OpOK(o) /\ (\E i \in 1..Len(queue) : queue[i] = o) =>
        ~Clash(o, op) /\ (o.kind = "mark" => op.kind \in Last)
  BY <1>1, <1>4 DEF Clash
<1>7. op.step = 0 /\ \A o \in Ops : OpOK(o) => (OpOK(o))'
  BY <1>1, <1>4
<1>8. /\ queue' \in Seq(Ops) /\ QueueOK'
      /\ \A kind, step : step # 0 => (At(kind, step)' <=> At(kind, step))
      /\ queue # <<>> => Argument' = Argument
  BY <1>2, <1>5, <1>6, <1>7, EnqueueOK DEF IInv
<1>9. \A kind, step : At(kind, step) => queue # <<>>
  BY DEF At
<1>10. Types' /\ DriveOK' /\ CallersOK' /\ CloserOK'
  BY <1>2, <1>3, <1>8 DEF IInv, Types, DriveOK, CallersOK, CloserOK
<1>11. RecordsOK'
  BY <1>2, <1>8, <1>9, RecordsUntouched DEF IInv
<1>12. RequestsOK'
  BY <1>2, <1>3, <1>8, <1>9, RequestsUntouched DEF IInv, Closing
<1> QED BY <1>8, <1>10, <1>11, <1>12 DEF IInv

\* The queue has been waited for; after the second time nothing is left in it.
LEMMA QueueDrainedKeeps == ASSUME IInv, QueueDrained PROVE IInv'
<1>1. queue # <<>> /\ queue[1].kind = "mark" /\ queue[1].step = 0 /\ Leaves
  BY DEF QueueDrained, At
<1>2. queue[1] \in Ops /\ OpOK(queue[1])
  BY <1>1, HeadOK DEF IInv
<1>3. UNCHANGED <<records, userVars, caller, active, run, drive, failures>>
  BY DEF QueueDrained
<1> USE DEF records, userVars
<1>4. closer.at \in {"draining", "emptying"} /\ closer \in Closers /\ entry \subseteq Requests
  BY <1>1, <1>2 DEF OpOK, MarkOK, IInv, Types
<1>5. /\ closer' \in Closers /\ closer'.now = closer.now
      /\ closer'.at = IF closer.at = "draining" THEN "requests" ELSE "closed"
  <2>1. CASE closer.at = "draining"
    <3>1. closer' = [at |-> "requests", todo |-> entry, now |-> closer.now, failed |-> closer.failed]
      BY <1>4, <2>1 DEF QueueDrained, Closers
    <3> QED BY <1>4, <2>1, <3>1 DEF Closers
  <2>2. CASE closer.at = "emptying"
    BY <1>4, <2>2 DEF QueueDrained, Closers
  <2> QED BY <1>4, <2>1, <2>2
<1>6. ASSUME NEW o \in Ops, OpOK(o), o.step = 0, ~Clash(queue[1], o), o.kind \in Last
      PROVE  (OpOK(o))'
  <2>1. o.kind \in {"event", "finish"}
    BY <1>1, <1>6 DEF Clash, Last
  <2> QED BY <1>3, <1>6, <2>1 DEF OpOK, StartOK, EventOK, FinishOK, AnswerOK, CallOK, MarkOK, Unannounced
<1>7. /\ queue' \in Seq(Ops) /\ QueueOK'
      /\ \A kind, step : step # 0 => ~(At(kind, step)')
  BY <1>1, <1>6, LeaveOK DEF IInv
<1>8. closer.at = "emptying" => queue' = <<>>
  <2> SUFFICES ASSUME closer.at = "emptying", queue' # <<>> PROVE FALSE
    OBVIOUS
  <2>1. queue \in Seq(Ops) /\ active = None
    BY DEF IInv, Types, CloserOK
  <2>2. 2 \in 1..Len(queue) /\ 1 \in 1..Len(queue) /\ 1 < 2
    BY <1>1, <2>1 DEF Leaves
  <2>3. OpOK(queue[2]) /\ ~Clash(queue[1], queue[2]) /\ queue[2].kind \in Last
    BY <1>1, <2>2 DEF IInv, QueueOK
  <2> QED BY <1>1, <2>1, <2>3 DEF Clash, Last, OpOK, EventOK, FinishOK
<1>9. Types' /\ DriveOK' /\ CallersOK'
  BY <1>3, <1>5, <1>7 DEF IInv, Types, DriveOK, CallersOK
<1>10. CloserOK'
  BY <1>3, <1>4, <1>5, <1>8 DEF IInv, CloserOK
<1>11. ~At("finish", 1) /\ ~At("start", 1) /\ ~At("start", 2) /\ ~At("answer", 1)
  BY <1>1 DEF At
<1>12. RecordsOK'
  BY <1>3, <1>7, <1>11, RecordsUntouched DEF IInv
<1>13. RequestsOK'
  BY <1>3, <1>4, <1>5, <1>11, RequestsUntouched DEF IInv, Closing
<1> QED BY <1>7, <1>9, <1>10, <1>12, <1>13 DEF IInv

\* What a close that works beside the queue leaves as it is.
LEMMA CloserSteps ==
  ASSUME IInv, closer' \in Closers, closer.at = "requests", closer'.at = "requests",
         UNCHANGED <<records, caller, active, queue, run, drive>>,
         failures' \in 0..MaxFailures, failures' = failures \/ failures' = failures + 1,
         RequestsOK', pending' \subseteq Requests, entry' \subseteq Requests,
         resolved' \in [Requests -> Nat], reply' \in [Requests -> Replies],
         \A s \in Requests : Unannounced(s) => (Unannounced(s))'
  PROVE  IInv'
<1> USE DEF records
<1>1. ASSUME NEW o \in Ops, OpOK(o) PROVE (OpOK(o))'
  <2>1. o.kind \in Last /\ (EventOK(o))'
    BY <1>1 DEF OpOK, MarkOK, EventOK, Closing
  <2> QED BY <1>1, <2>1 DEF OpOK, StartOK, FinishOK, AnswerOK, CallOK, MarkOK, Last
<1>2. QueueOK'
  BY <1>1, SameQueueOK DEF IInv
<1>3. Types' /\ DriveOK' /\ CallersOK' /\ CloserOK'
  BY DEF IInv, Types, DriveOK, CallersOK, CloserOK
<1>4. RecordsOK'
  BY RecordsUntouched DEF IInv, At, Argument
<1> QED BY <1>2, <1>3, <1>4 DEF IInv

\* No answer waits for its record while the close settles the requests.
LEMMA NoAnswerThen ==
  ASSUME IInv, closer.at \notin {"open", "draining"}
  PROVE  ~At("answer", 1)
BY HeadOK DEF IInv, At, OpOK, MarkOK, Last

\* A close finds a request pending.
LEMMA CloseLooksKeeps == ASSUME IInv, NEW r \in Requests, CloseLooks(r) PROVE IInv'
<1>1. /\ closer.at = "requests" /\ r \in pending /\ closer' = [closer EXCEPT !.now = r]
      /\ UNCHANGED <<records, userVars, caller, active, queue, run, drive, failures>>
  BY DEF CloseLooks
<1> USE DEF userVars
<1>2. closer' \in Closers /\ closer'.at = "requests" /\ closer'.now = r
  BY <1>1 DEF IInv, Types, Closers
<1>3. BufferOK' /\ \A s \in Requests : Unannounced(s) => (Unannounced(s))'
  BY <1>1 DEF IInv, RequestsOK, BufferOK, Unannounced
<1>4. \A s \in Requests : RequestOK(s)'
  BY <1>1, <1>2 DEF IInv, RequestsOK, RequestOK, Closing, At, Argument
<1> QED BY <1>1, <1>2, <1>3, <1>4, CloserSteps DEF IInv, Types, RequestsOK

\* A close settles a request.
LEMMA CloseRequestKeeps == ASSUME IInv, NEW r \in Requests, CloseRequest(r) PROVE IInv'
<1>1. closer' = [closer EXCEPT !.todo = closer.todo \ {r}, !.now = None,
                              !.failed = closer.failed \/ Consumed(r)]
  BY DEF CloseRequest
<1>2. /\ closer.at = "requests"
      /\ \/ closer.now = r /\ RecordResolved(r)
         \/ closer.now = None /\ r \notin pending /\ UNCHANGED <<pending, resolved>>
      /\ entry' = entry \ {r} /\ Resume(r, "no")
      /\ UNCHANGED <<records, caller, active, queue, run, drive, failures>>
  BY DEF CloseRequest
<1>3. closer' \in Closers /\ closer'.at = "requests" /\ closer'.now = None
  <2>1. closer \in Closers /\ Consumed(r) \in BOOLEAN
    BY DEF IInv, Types, Consumed
  <2>2. closer' = [at |-> closer.at, todo |-> closer.todo \ {r}, now |-> None,
                   failed |-> closer.failed \/ Consumed(r)]
    BY <1>1, <2>1 DEF Closers
  <2> QED BY <1>2, <2>1, <2>2 DEF Closers
<1>4. closer.now = r => r \in pending
  BY DEF IInv, RequestsOK, RequestOK
<1>5. ~At("answer", 1) /\ None \notin Requests
  BY <1>2, NoAnswerThen, NoneAssumption
<1>6. /\ RequestsOK'
      /\ pending' \subseteq Requests /\ entry' \subseteq Requests
      /\ resolved' \in [Requests -> Nat] /\ reply' \in [Requests -> Replies]
      /\ \A s \in Requests : Unannounced(s) => (Unannounced(s))'
  BY <1>2, <1>3, <1>4, <1>5, Settled DEF IInv
<1> QED BY <1>2, <1>3, <1>6, CloserSteps DEF IInv, Types

\* The record that resolves a request fails.
LEMMA CloseFailsKeeps == ASSUME IInv, NEW r \in Requests, CloseFails(r) PROVE IInv'
<1>1. /\ closer.at = "requests"
      /\ closer' = [closer EXCEPT !.todo = closer.todo \ {r}, !.now = None, !.failed = TRUE]
      /\ UNCHANGED <<records, userVars, caller, active, queue, run, drive>>
  BY DEF CloseFails
<1> USE DEF userVars
<1>2. closer' \in Closers /\ closer'.at = "requests" /\ closer'.now = None
  <2>1. closer \in Closers
    BY DEF IInv, Types
  <2>2. closer' = [at |-> closer.at, todo |-> closer.todo \ {r}, now |-> None, failed |-> TRUE]
    BY <1>1, <2>1 DEF Closers
  <2> QED BY <1>1, <2>1, <2>2 DEF Closers
<1>3. failures' = failures + 1 /\ failures' \in 0..MaxFailures /\ failures' # 0
  BY FailsSpec DEF CloseFails, IInv
<1>4. BufferOK' /\ \A s \in Requests : Unannounced(s) => (Unannounced(s))'
  BY <1>1 DEF IInv, RequestsOK, BufferOK, Unannounced
<1>5. \A s \in Requests : RequestOK(s)'
  BY <1>1, <1>2, <1>3, NoneAssumption DEF IInv, RequestsOK, RequestOK, Closing
<1> QED BY <1>1, <1>2, <1>3, <1>4, <1>5, CloserSteps DEF IInv, Types, RequestsOK

\* The close goes on to wait for the turns or the queue, or fails.
LEMMA CloserComes ==
  ASSUME IInv, closer.at \in {"requests", "turns"}, NEW place \in {"turns", "emptying", "failed"},
         closer' = [closer EXCEPT !.at = place],
         IF place = "emptying" THEN active = None /\ Enqueue(Operation("mark", None))
                               ELSE UNCHANGED queue,
         UNCHANGED <<run, reply>> \/ Interrupted,
         UNCHANGED <<records, pending, entry, resolved, caller, active, drive, failures>>
  PROVE  IInv'
<1> USE DEF records
<1>1. closer' \in Closers /\ closer'.at = place /\ closer'.now = closer.now
  BY DEF IInv, Types, Closers
<1>2. /\ run' \in Runs /\ run'.of = run.of /\ run'.phase = run.phase /\ run'.asks = run.asks
      /\ run'.result = run.result /\ run'.buffer = run.buffer
      /\ reply' \in [Requests -> Replies]
      /\ \A r \in Requests : reply'[r] = reply[r] \/ (reply[r] = "open" /\ reply'[r] = "no")
  BY InterruptedSpec DEF IInv, Types
<1>3. \A s \in Requests : Unannounced(s) => (Unannounced(s))'
  BY <1>2 DEF Unannounced
<1>4. ASSUME NEW o \in Ops, OpOK(o) PROVE (OpOK(o))' /\ o.kind # "mark"
  <2>1. o.kind \in Last /\ o.kind # "mark"
    BY <1>4 DEF OpOK, MarkOK
  <2>2. (EventOK(o))'
    BY <1>1, <1>2, <1>3, <1>4 DEF OpOK, EventOK, Closing
  <2> QED BY <1>4, <2>1, <2>2 DEF OpOK, StartOK, FinishOK, AnswerOK, CallOK, MarkOK, Last
<1>5. /\ queue' \in Seq(Ops) /\ QueueOK'
      /\ \A kind, step : step # 0 => (At(kind, step)' <=> At(kind, step))
      /\ queue # <<>> => Argument' = Argument
  <2>1. CASE place # "emptying"
    BY <1>4, <2>1, SameQueueOK DEF IInv, Types, At, Argument
  <2>2. CASE place = "emptying"
    <3>1. PICK op \in Ops : op = Operation("mark", None) /\ op.kind = "mark" /\ op.step = 0
      BY OperationIs DEF Kinds
    <3>2. (OpOK(op))'
      BY <1>1, <2>2, <3>1 DEF OpOK, StartOK, EventOK, FinishOK, AnswerOK, CallOK, MarkOK, Last
    <3>3. \A o \in Ops : OpOK(o) /\ (\E i \in 1..Len(queue) : queue[i] = o) =>
            ~Clash(o, op) /\ (o.kind = "mark" => op.kind \in Last)
      BY <1>4, <3>1 DEF Clash
    <3>4. Enqueue(op) /\ op.step = 0 /\ \A o \in Ops : OpOK(o) => (OpOK(o))'
      BY <1>4, <2>2, <3>1
    <3> QED BY <3>2, <3>3, <3>4, EnqueueOK DEF IInv
  <2> QED BY <2>1, <2>2
<1>6. \A kind, step : At(kind, step) => queue # <<>>
  BY DEF At
<1>7. Types' /\ DriveOK' /\ CallersOK' /\ CloserOK'
  BY <1>1, <1>2, <1>5 DEF IInv, Types, DriveOK, CallersOK, CloserOK
<1>8. RecordsOK'
  BY <1>5, <1>6, RecordsUntouched DEF IInv
<1>9. BufferOK'
  BY <1>2, <1>3 DEF IInv, RequestsOK, BufferOK
<1>10. ASSUME NEW s \in Requests PROVE RequestOK(s)'
  <2>1. RequestOK(s) /\ ~At("answer", 1)
    BY NoAnswerThen DEF IInv, RequestsOK
  <2> QED BY <1>1, <1>2, <2>1 DEF RequestOK, Closing
<1> QED BY <1>5, <1>7, <1>8, <1>9, <1>10 DEF IInv, RequestsOK

\* A close goes on to the turns, or fails.
LEMMA CloseTurnsKeeps == ASSUME IInv, CloseTurns PROVE IInv'
<1>1. /\ closer.at = "requests"
      /\ UNCHANGED <<records, pending, entry, resolved, caller, active, drive, failures>>
  BY DEF CloseTurns
<1>2. CASE Comes("failed") /\ UNCHANGED <<queue, run, reply>>
  BY <1>1, <1>2, CloserComes DEF Comes
<1>3. CASE active = None /\ AwaitQueue("emptying") /\ UNCHANGED <<run, reply>>
  BY <1>1, <1>3, CloserComes DEF Comes, AwaitQueue
<1>4. CASE Comes("turns") /\ Interrupted /\ UNCHANGED queue
  BY <1>1, <1>4, CloserComes DEF Comes
<1> QED BY <1>2, <1>3, <1>4 DEF CloseTurns

\* A close has waited for the last turn.
LEMMA CloseWaitsKeeps == ASSUME IInv, CloseWaits PROVE IInv'
<1>1. closer.at = "turns" /\ UNCHANGED <<records, userVars, caller, active, run, drive, failures>>
  BY DEF CloseWaits
<1>2. CASE drive[run.of].at = "done" /\ AwaitQueue("emptying")
  <2>1. active = None
    BY <1>2 DEF IInv, Types, DriveOK, Driving
  <2> QED BY <1>1, <1>2, <2>1, CloserComes DEF Comes, AwaitQueue, userVars
<1>3. CASE Comes("failed") /\ UNCHANGED queue
  BY <1>1, <1>3, CloserComes DEF Comes, userVars
<1> QED BY <1>2, <1>3 DEF CloseWaits

-----------------------------------------------------------------------------
(***************************************************************************)
(* The theorems                                                            *)
(***************************************************************************)

\* Nothing that the invariant looks at changes in a stuttering step.
LEMMA StutterKeeps == ASSUME IInv, UNCHANGED vars PROVE IInv'
<1> USE DEF vars
<1>1. Types' /\ DriveOK' /\ CallersOK' /\ CloserOK'
  BY DEF IInv, Types, DriveOK, CallersOK, CloserOK
<1>2. QueueOK'
  <2>1. \A o \in Ops : OpOK(o) => (OpOK(o))'
    BY DEF OpOK, StartOK, EventOK, FinishOK, AnswerOK, CallOK, MarkOK, Unannounced, Closing
  <2> QED BY <2>1, SameQueueOK DEF IInv
<1>3. RecordsOK'
  BY RecordsUntouched DEF IInv, At, Argument
<1>4. RequestsOK'
  BY RequestsUntouched DEF IInv, At, Argument, Closing
<1> QED BY <1>1, <1>2, <1>3, <1>4 DEF IInv

\* Every step keeps the invariant.
LEMMA NextKeeps == ASSUME IInv, [Next]_vars PROVE IInv'
<1>1. CASE QueueStep
  <2>1. CASE Start \/ Launch \/ LaunchFails \/ RecordStartFailed \/ StartFails
    BY <2>1, StartKeeps, LaunchKeeps, LaunchFailsKeeps, RecordStartFailedKeeps, StartFailsKeeps
  <2>2. CASE RecordEvent \/ Register \/ RecordRequest \/ EventFails
    BY <2>2, RecordEventKeeps, RegisterKeeps, RecordRequestKeeps, EventFailsKeeps
  <2>3. CASE RecordFinish \/ Finish \/ FinishFails
    BY <2>3, RecordFinishKeeps, FinishKeeps, FinishFailsKeeps
  <2>4. CASE Answer \/ RecordAnswer \/ AnswerFails
    BY <2>4, AnswerKeeps, RecordAnswerKeeps, AnswerFailsKeeps
  <2>5. CASE CancelAll \/ (\E r \in Requests : Cancel(r)) \/ CancelFails \/ CancelEnds
    BY <2>5, CancelAllKeeps, CancelKeeps, CancelEndsKeeps
  <2>6. CASE InterruptTurn \/ QueueDrained
    BY <2>6, InterruptTurnKeeps, QueueDrainedKeeps
  <2> QED BY <1>1, <2>1, <2>2, <2>3, <2>4, <2>5, <2>6 DEF QueueStep
<1>2. CASE DriveStep
  BY <1>2, DriveTakesKeeps, DriveLeavesKeeps, DriveFinishesKeeps DEF DriveStep
<1>3. CASE CallerStep
  BY <1>3, AskCancelKeeps, AskInterruptKeeps, InterruptReturnsKeeps DEF CallerStep
<1>4. CASE CloseStep \/ Close
  BY <1>4, CloseLooksKeeps, CloseRequestKeeps, CloseFailsKeeps, CloseTurnsKeeps,
     CloseWaitsKeeps, CloseKeeps DEF CloseStep
<1>5. CASE RunStep \/ Completes \/ StreamThrows
  BY <1>5, CompletesKeeps, TakesAnswerKeeps, ThrowsKeeps DEF RunStep, StreamThrows, Streaming
<1>6. CASE Emits \/ Compacts \/ Suspends \/ \E r \in Requests : Asks(r)
  BY <1>6, EmitsKeeps, CompactsKeeps, SuspendsKeeps, AsksKeeps
<1>7. CASE \E r \in Requests, how \in {"yes", "no"} : AnswerRequest(r, how)
  BY <1>7, AnswerRequestKeeps
<1>8. CASE \E t \in Turns : StartTurn(t) \/ \E c \in Clients : Interrupt(c, t)
  BY <1>8, StartTurnKeeps, InterruptKeeps
<1>9. CASE UNCHANGED vars
  BY <1>9, StutterKeeps
<1> QED BY <1>1, <1>2, <1>3, <1>4, <1>5, <1>6, <1>7, <1>8, <1>9 DEF Next

\* What is said of the queue, the records and the requests always holds.
THEOREM Invariance == Spec => []IInv
<1>1. Init => IInv
  BY InitIInv
<1>2. IInv /\ [Next]_vars => IInv'
  BY NextKeeps
<1> QED BY <1>1, <1>2, PTL DEF Spec

\* Every variable keeps the shape that the operations give it.
THEOREM TypeCorrect == Spec => []TypeOK
<1>1. IInv => TypeOK
  <2> SUFFICES ASSUME IInv PROVE TypeOK
    OBVIOUS
  <2>1. Types /\ QueueOK
    BY DEF IInv
  <2>2. \A i \in 1..Len(queue) :
          /\ queue[i].kind \in Kinds /\ queue[i].step \in 0..2 /\ queue[i].todo \subseteq Requests
          /\ i > 1 => queue[i].step = 0
    <3> TAKE i \in 1..Len(queue)
    <3>1. queue[i] \in Ops
      BY <2>1 DEF Types
    <3> QED BY <2>1, <3>1 DEF QueueOK, Ops
  <2>3. /\ run.of \in Turns \cup {None} /\ run.phase \in Phases /\ run.result \in Results
        /\ run.emitted \in 0..MaxEvents
        /\ \A i \in 1..Len(run.buffer) : run.buffer[i] \in Events
    BY <2>1 DEF Types, Runs
  <2>4. \A t \in Turns : drive[t].at \in Driving \cup {"none", "done"}
    BY <2>1 DEF Types, Drives
  <2>5. closer.at \in {"open", "draining", "requests", "turns", "emptying", "closed", "failed"}
    BY <2>1 DEF Types, Closers
  <2>6. \A c \in Clients : caller[c].at \in Places
    BY <2>1 DEF Types
  <2> QED BY <2>1, <2>2, <2>3, <2>4, <2>5, <2>6 DEF TypeOK, Types, Kinds, Phases, Results, Driving, Replies
<1> QED BY <1>1, Invariance, PTL

\* A request is resolved by one record, whether an answer, an interruption or
\* the close settles it (interactions.ts).
THEOREM RequestsResolvedOnce == Spec => []ResolvedOnce
<1>1. IInv => ResolvedOnce
  BY DEF IInv, RequestsOK, RequestOK, ResolvedOnce
<1> QED BY <1>1, Invariance, PTL

\* What the snapshot shows can be answered until the Server closes
\* (interactions.ts).
THEOREM PendingAnswerable == Spec => []PendingIsAnswerable
<1>1. IInv => PendingIsAnswerable
  BY DEF IInv, Types, RequestsOK, RequestOK, PendingIsAnswerable, Consumed
<1> QED BY <1>1, Invariance, PTL

\* A turn is ended by one record, or, when an append has failed, by no more
\* than two (run-records.ts).
THEOREM TurnsEndOnce == Spec => []EndsOnce
<1>1. IInv => EndsOnce
  BY DEF IInv, RecordsOK, EndsSoFar, EndsOnce
<1> QED BY <1>1, Invariance, PTL

\* Until an append fails, a turn in progress is being started or driven
\* (turns.ts).
THEOREM ProgressIsDriven == Spec => []InProgressIsDriven
<1>1. IInv => InProgressIsDriven
  BY DEF IInv, RecordsOK
<1> QED BY <1>1, Invariance, PTL

\* turn/interrupt never returns while its turn is in progress (turns.ts).
THEOREM InterruptsReturnLate == Spec => []InterruptedIsOver
<1>1. IInv => InterruptedIsOver
  BY DEF IInv, CallersOK, InterruptedIsOver
<1> QED BY <1>1, Invariance, PTL

\* After the close nothing is left that touches the thread (state.ts).
THEOREM QuietOnceClosed == Spec => []ClosedIsQuiet
<1>1. IInv => ClosedIsQuiet
  BY NoneAssumption DEF IInv, DriveOK, CloserOK, ClosedIsQuiet, Live, Types
<1> QED BY <1>1, Invariance, PTL
=============================================================================
