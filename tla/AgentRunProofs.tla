---------------------------- MODULE AgentRunProofs ----------------------------
(***************************************************************************)
(* Proofs about AgentRun, for any tasks, steers, limits and bounds.        *)
(*                                                                         *)
(* The run and its engine keep two lists of the same inputs and tell each  *)
(* other only how many of them were read.  A drain takes the first of both *)
(* lists, so it reports the right input only while the lists are equal     *)
(* (ReadOK), and finds one at all while the engine's list is the end of    *)
(* the run's (SteeringOK).  An input enters once (InputsOK), so that what  *)
(* leaves the list is no longer held (HeldOK).  What is acknowledged with  *)
(* a request to a model was in the prompt of its first turn (SeenOK), and  *)
(* by then the prompt has been taken (PromptOK).  A prompt goes to a model *)
(* or, with its stream, to nobody, and then its steer is in lost           *)
(* (DroppedOK).  The exceptions are those of the properties, and causes,   *)
(* which has them, only grows.                                             *)
(*                                                                         *)
(* The lemmas named after an action give its shape: whether a stream       *)
(* begins (Streams), rests (Rests), moves (Moves), or the run is over      *)
(* (Over), so that each part of the invariant is taken through a few       *)
(* shapes instead of every action's EXCEPTs.                               *)
(***************************************************************************)
EXTENDS AgentRun, TLAPS

\* The records of the run and of its engine.
Runs == [phase : {"none", "streaming", "deferred", "waiting", "closed"}, interrupted : BOOLEAN,
         pendingInputs : Seq(Inputs), waitingInputs : Seq(Inputs),
         initial : SUBSET Tasks, system : SUBSET Tasks,
         result : {"none", "completed", "failed", "interrupted"}]
Engines == [at : {"idle", "turn", "input", "call", "answer", "tools", "completing"},
            steering : Seq(Inputs \cup {Budget}), prompt : SUBSET Inputs, turns : 0..MaxTurns,
            stop : {"none", "interrupted", "deferred", "max-turns", "natural"}]

\* The run and its engine: nothing rests in waitingInputs, and a stream that has
\* a reason to stop does so.
RunTypes ==
  /\ run \in Runs /\ run.waitingInputs = <<>>
  /\ engine \in Engines
  /\ engine.at = "idle" <=> run.phase # "streaming"
  /\ engine.at = "completing" <=> engine.stop # "none"
  /\ engine.at = "idle" => engine.steering = <<>> /\ engine.prompt = {}
  /\ engine.at # "completing" => engine.turns < MaxTurns

Types ==
  /\ RunTypes
  /\ task \in [Tasks -> {"absent", "active", "pending", "delivered"}]
  /\ reserved \subseteq Tasks
  /\ orphan \in [alive : BOOLEAN, took : BOOLEAN]
  /\ consumed \subseteq Steers /\ lost \subseteq Steers /\ sent \subseteq Steers
  /\ seen \subseteq Inputs
  /\ causes \subseteq {"unread", "budget", "compact"}

\* A turn has taken its prompt, and what a request to a model has carried is held
\* no more, from its start to the next input or the end of the stream.
Taken == engine.at \in {"idle", "input", "call", "answer", "tools"} \/ engine.stop \in {"deferred", "max-turns", "natural"}
Told  == engine.at \in {"answer", "tools"} \/ engine.stop \in {"deferred", "max-turns", "natural"}
PromptOK ==
  /\ Taken => engine.prompt = {}
  /\ Told \/ run.phase \in {"deferred", "waiting"} => run.initial = {} /\ run.system = {}
  /\ run.phase \in {"none", "closed"} => run.pendingInputs = <<>> /\ run.initial = {} /\ run.system = {}
  /\ engine.at \in {"turn", "input"} => run.system = {}

\* Each input is in pendingInputs at most once, and has been sent or has ended.
Known(i) == i \in sent \/ (i \in Tasks /\ task[i] \notin {"absent", "active"})
InputsOK ==
  /\ \A j, k \in 1..Len(run.pendingInputs) : run.pendingInputs[j] = run.pendingInputs[k] => j = k
  /\ \A k \in 1..Len(run.pendingInputs) : Known(run.pendingInputs[k])

\* Sequence s is the end of p.
EndOf(s, p) ==
  /\ Len(s) <= Len(p)
  /\ \A k \in 1..Len(s) : s[k] = p[Len(p) - Len(s) + k]

\* No drain finds too few inputs, so that no engine outlives its run.
SteeringOK ==
  "budget" \notin causes => EndOf(engine.steering, run.pendingInputs) /\ ~orphan.alive

\* What is pending is what the engine will read.
ReadOK ==
  causes \cap {"unread", "budget"} = {} =>
    /\ run.pendingInputs = engine.steering
    /\ engine.stop = "natural" => engine.steering = <<>>

\* What is reserved is held, once, by the run.
HeldOK ==
  causes \cap {"compact", "budget"} = {} =>
    /\ reserved = HeldBy(run) /\ reserved \subseteq Pending
    /\ run.initial \cap run.system = {}
    /\ Notified(run.pendingInputs) \cap (run.initial \cup run.system) = {}

\* A stream that was interrupted has dropped its prompt.
DroppedOK == engine.stop = "interrupted" => engine.prompt \cap Steers \subseteq lost

\* What the run began with is in its prompt or has been read.
SeenOK == run.initial \subseteq seen \cup engine.prompt /\ DeliveredWasSeen

\* The inductive invariant.
IInv == Types /\ PromptOK /\ InputsOK /\ SteeringOK /\ ReadOK /\ HeldOK /\ DroppedOK /\ SeenOK

-----------------------------------------------------------------------------
\* Another stream starts from state r of the run.
LEMMA StartStreamIs ==
  ASSUME NEW r \in Runs, NEW prompt \in SUBSET Inputs, StartStream(r, prompt)
  PROVE  /\ engine' \in Engines /\ engine'.at = "turn" /\ engine'.stop = "none" /\ engine'.turns = 0
         /\ engine'.steering = r.waitingInputs /\ engine'.prompt = prompt
         /\ run' \in Runs /\ run'.phase = "streaming" /\ run'.interrupted = r.interrupted /\ run'.result = r.result
         /\ run'.pendingInputs = r.pendingInputs \o r.waitingInputs /\ run'.waitingInputs = <<>>
         /\ run'.initial = r.initial /\ run'.system = r.system
<1>1. /\ engine' = [at |-> "turn", steering |-> r.waitingInputs, prompt |-> prompt, turns |-> 0, stop |-> "none"]
      /\ run' = [r EXCEPT !.phase = "streaming", !.waitingInputs = <<>>, !.pendingInputs = r.pendingInputs \o r.waitingInputs]
  BY DEF StartStream, Stopped
<1>2. r.pendingInputs \in Seq(Inputs) /\ r.waitingInputs \in Seq(Inputs) /\ r.pendingInputs \o r.waitingInputs \in Seq(Inputs)
  BY DEF Runs
<1>3. r.waitingInputs \in Seq(Inputs \cup {Budget})
  BY <1>2
<1>4. engine' \in Engines
  BY <1>1, <1>3, LimitsAssumption DEF Engines
<1>5. run' \in Runs
  <2> DEFINE none == <<>>
  <2>1. none \in Seq(Inputs)
    OBVIOUS
  <2>2. run' = [r EXCEPT !.phase = "streaming", !.waitingInputs = none, !.pendingInputs = r.pendingInputs \o r.waitingInputs]
    BY <1>1
  <2> HIDE DEF none
  <2> QED BY <2>1, <2>2, <1>2 DEF Runs
<1> QED BY <1>1, <1>4, <1>5 DEF Runs

\* The run is over, or has not begun.
LEMMA IdleIs ==
  /\ Idle \in Runs /\ Idle.pendingInputs = <<>> /\ Idle.waitingInputs = <<>> /\ Idle.initial = {} /\ Idle.system = {}
  /\ Idle.phase = "none" /\ Idle.result = "none"
BY DEF Idle, Runs

\* The engine is gone.
LEMMA StoppedIs ==
  /\ Stopped \in Engines /\ Stopped.at = "idle" /\ Stopped.steering = <<>> /\ Stopped.prompt = {} /\ Stopped.stop = "none"
  /\ Stopped.turns = 0
BY LimitsAssumption DEF Stopped, Engines

\* The run is closed, with nothing in it.
LEMMA EndsIs ==
  ASSUME NEW result \in {"completed", "failed", "interrupted"}, NEW kept, Ends(run, result, kept)
  PROVE  /\ run' \in Runs /\ run'.phase = "closed" /\ run'.pendingInputs = <<>> /\ run'.waitingInputs = <<>>
         /\ run'.initial = {} /\ run'.system = {} /\ run'.result = result
         /\ engine' = Stopped /\ reserved' = kept \ HeldBy(run)
<1>1. run' = [Idle EXCEPT !.phase = "closed", !.result = result]
  BY DEF Ends
<1>2. run' \in Runs
  BY <1>1, IdleIs DEF Runs
<1> QED BY <1>1, <1>2 DEF Ends, Idle

\* The run waits on, or starts another stream, or is completed.
LEMMA ContinueIs ==
  ASSUME run \in Runs, Continue
  PROVE  \/ /\ Free # {} /\ StartStream([run EXCEPT !.initial = Free], Free)
            /\ [run EXCEPT !.initial = Free] \in Runs
            /\ reserved' = reserved \cup Free
         \/ /\ Free = {} /\ Active # {} /\ run' = [run EXCEPT !.phase = "waiting"]
            /\ engine' = Stopped /\ UNCHANGED reserved
         \/ Free = {} /\ Active = {} /\ Ends(run, "completed", reserved)
BY DEF Continue, Runs, Free, Pending

\* The shapes of a step: a stream begins,
Streams(pendingInputs, steering, initial, system, prompt) ==
  /\ RunTypes' /\ engine'.at = "turn" /\ engine'.steering = steering /\ engine'.prompt = prompt
  /\ run'.pendingInputs = pendingInputs /\ run'.initial = initial /\ run'.system = system
  /\ run'.result \in {run.result, "none"}

\* the run is over,
Over ==
  /\ RunTypes' /\ run'.phase \in {"none", "closed"} /\ engine' = Stopped
  /\ run'.pendingInputs = <<>> /\ run'.initial = {} /\ run'.system = {}

\* or it rests and its engine is gone.
Rests(phase) ==
  /\ RunTypes' /\ run'.phase = phase /\ engine' = Stopped
  /\ run'.pendingInputs = run.pendingInputs /\ run'.initial = run.initial /\ run'.system = run.system
  /\ run'.result = run.result

\* A stream that starts has the shape of one.
LEMMA StreamsIs ==
  ASSUME NEW r \in Runs, r.waitingInputs \in Seq(Inputs), r.result \in {run.result, "none"},
         NEW prompt \in SUBSET Inputs, StartStream(r, prompt)
  PROVE  Streams(r.pendingInputs \o r.waitingInputs, r.waitingInputs, r.initial, r.system, prompt)
<1>1. /\ engine' \in Engines /\ engine'.at = "turn" /\ engine'.stop = "none" /\ engine'.turns = 0
      /\ engine'.steering = r.waitingInputs /\ engine'.prompt = prompt
      /\ run' \in Runs /\ run'.phase = "streaming" /\ run'.result = r.result
      /\ run'.pendingInputs = r.pendingInputs \o r.waitingInputs /\ run'.waitingInputs = <<>>
      /\ run'.initial = r.initial /\ run'.system = r.system
  BY StartStreamIs
<1>2. RunTypes'
  BY <1>1, LimitsAssumption DEF RunTypes
<1> QED BY <1>1, <1>2 DEF Streams

\* Nothing is forwarded.
LEMMA NothingMore == \A s \in Seq(Inputs) : s \o <<>> = s
OBVIOUS

\* A run that ends is over.
LEMMA OverIs ==
  ASSUME NEW result \in {"completed", "failed", "interrupted"}, NEW kept, Ends(run, result, kept)
  PROVE  Over /\ run'.result = result /\ reserved' = kept \ HeldBy(run)
BY EndsIs, StoppedIs, LimitsAssumption DEF Over, RunTypes

\* One that throws has not completed.
LEMMA ThrowsIs ==
  ASSUME NEW result \in {"failed", "interrupted"}, Throws(result)
  PROVE  Over /\ run'.result # "completed" /\ reserved' = reserved \ HeldBy(run)
BY OverIs DEF Throws

\* A restart leaves no run.
LEMMA RestartIs == Restart => Over /\ run'.result = "none"
BY IdleIs, StoppedIs, LimitsAssumption DEF Over, Restart, RunTypes

\* A run that only changes its phase rests.
LEMMA RestsIs ==
  ASSUME RunTypes, NEW phase \in {"deferred", "waiting"}, run' = [run EXCEPT !.phase = phase], engine' = Stopped
  PROVE  Rests(phase)
<1>1. run' \in Runs
  BY DEF RunTypes, Runs
<1>2. /\ run'.phase = phase /\ run'.pendingInputs = run.pendingInputs /\ run'.initial = run.initial
      /\ run'.system = run.system /\ run'.result = run.result /\ run'.waitingInputs = <<>>
  BY DEF RunTypes, Runs
<1>3. RunTypes'
  BY <1>1, <1>2, StoppedIs, LimitsAssumption DEF RunTypes
<1> QED BY <1>2, <1>3 DEF Rests

\* After an approval the stream has no steering messages, and what was pending
\* stays pending.
LEMMA ResolvedIs == ASSUME RunTypes, ResolveDeferred
                    PROVE  Streams(run.pendingInputs, <<>>, run.initial, run.system, {})
<1>1. run \in Runs /\ run.waitingInputs = <<>> /\ run.waitingInputs \in Seq(Inputs) /\ run.pendingInputs \in Seq(Inputs)
  BY DEF RunTypes, Runs
<1>2. Streams(run.pendingInputs \o run.waitingInputs, run.waitingInputs, run.initial, run.system, {})
  BY <1>1, StreamsIs DEF ResolveDeferred
<1> QED BY <1>1, <1>2, NothingMore

\* A run starts with nothing.
LEMMA StartedIs == StartRun => Streams(<<>>, <<>>, {}, {}, {})
<1>1. Idle \in Runs /\ Idle.waitingInputs \in Seq(Inputs)
  BY IdleIs DEF Runs
<1>2. StartRun => Streams(Idle.pendingInputs \o Idle.waitingInputs, Idle.waitingInputs, Idle.initial, Idle.system, {})
  BY <1>1, IdleIs, StreamsIs DEF StartRun
<1>3. <<>> \in Seq(Inputs)
  OBVIOUS
<1> QED BY <1>2, <1>3, IdleIs, NothingMore

\* A run that waits is woken with input i, or with what is free and input i.
LEMMA WokenIs ==
  ASSUME RunTypes, NEW i \in Inputs, NEW free \in SUBSET Tasks, Wake(i, free)
  PROVE  IF free # {}
         THEN Streams(Append(run.pendingInputs, i), <<i>>, free, run.system, free)
         ELSE Streams(run.pendingInputs, <<>>, {i} \cap Tasks, run.system, {i})
<1>1. run \in Runs /\ run.waitingInputs = <<>> /\ run.waitingInputs \in Seq(Inputs) /\ run.pendingInputs \in Seq(Inputs)
  BY DEF RunTypes, Runs
<1>2. \A t \in Tasks : t \in Inputs
  BY DEF Inputs
<1>3. CASE free # {}
  <2> DEFINE one == <<i>>
             r == [run EXCEPT !.initial = free, !.waitingInputs = one]
  <2>1. one \in Seq(Inputs) /\ run.pendingInputs \o one = Append(run.pendingInputs, i)
    BY <1>1
  <2>2. StartStream(r, free)
    BY <1>3 DEF Wake
  <2> HIDE DEF one
  <2>3. /\ r \in Runs /\ r.waitingInputs = one /\ r.pendingInputs = run.pendingInputs /\ r.initial = free
        /\ r.system = run.system /\ r.result = run.result
    BY <1>1, <2>1 DEF Runs
  <2> HIDE DEF r
  <2>4. Streams(r.pendingInputs \o r.waitingInputs, r.waitingInputs, r.initial, r.system, free)
    BY <1>2, <2>1, <2>2, <2>3, StreamsIs
  <2> QED BY <1>3, <2>1, <2>3, <2>4 DEF one
<1>4. CASE free = {}
  <2> DEFINE r == [run EXCEPT !.initial = {i} \cap Tasks]
  <2>1. StartStream(r, {i})
    BY <1>4 DEF Wake
  <2>2. /\ r \in Runs /\ r.waitingInputs = <<>> /\ r.pendingInputs = run.pendingInputs /\ r.initial = {i} \cap Tasks
        /\ r.system = run.system /\ r.result = run.result /\ r.waitingInputs \in Seq(Inputs)
    BY <1>1 DEF Runs
  <2> HIDE DEF r
  <2>3. Streams(r.pendingInputs \o r.waitingInputs, r.waitingInputs, r.initial, r.system, {i})
    BY <2>1, <2>2, StreamsIs
  <2> QED BY <1>1, <1>4, <2>2, <2>3, NothingMore
<1> QED BY <1>3, <1>4

\* After a stream the run has another one, or waits, or is completed.
LEMMA ContinuesIs ==
  ASSUME RunTypes, Continue
  PROVE  \/ Free # {} /\ Streams(run.pendingInputs, <<>>, Free, run.system, Free) /\ reserved' = reserved \cup Free
         \/ Free = {} /\ Active # {} /\ Rests("waiting") /\ UNCHANGED reserved
         \/ Free = {} /\ Active = {} /\ Over /\ run'.result = "completed" /\ reserved' = reserved \ HeldBy(run)
<1>1. run \in Runs /\ run.waitingInputs = <<>> /\ run.waitingInputs \in Seq(Inputs) /\ run.pendingInputs \in Seq(Inputs)
  BY DEF RunTypes, Runs
<1>2. Free \in SUBSET Tasks /\ Free \in SUBSET Inputs
  BY DEF Inputs, Free, Pending
<1>3. ASSUME StartStream([run EXCEPT !.initial = Free], Free)
      PROVE  Streams(run.pendingInputs, <<>>, Free, run.system, Free)
  <2> DEFINE r == [run EXCEPT !.initial = Free]
  <2>1. /\ r \in Runs /\ r.waitingInputs = <<>> /\ r.pendingInputs = run.pendingInputs /\ r.initial = Free
        /\ r.system = run.system /\ r.result = run.result /\ r.waitingInputs \in Seq(Inputs)
    BY <1>1, <1>2 DEF Runs
  <2>2. StartStream(r, Free)
    BY <1>3
  <2> HIDE DEF r
  <2>3. Streams(r.pendingInputs \o r.waitingInputs, r.waitingInputs, r.initial, r.system, Free)
    BY <1>2, <2>1, <2>2, StreamsIs
  <2> QED BY <1>1, <2>1, <2>3, NothingMore
<1> QED BY <1>1, <1>3, ContinueIs, RestsIs, OverIs

\* Input i joins the stream and what is pending.
LEMMA EnqueuedIs ==
  ASSUME RunTypes, NEW i \in Inputs, Enqueue(i)
  PROVE  /\ RunTypes' /\ engine.at # "idle" /\ engine'.at = engine.at /\ engine'.prompt = engine.prompt /\ engine'.stop = engine.stop
         /\ engine'.steering = Append(engine.steering, i) /\ run'.pendingInputs = Append(run.pendingInputs, i)
         /\ run'.initial = run.initial /\ run'.system = run.system /\ run'.phase = run.phase /\ run'.result = run.result
<1>1. engine.steering \in Seq(Inputs \cup {Budget}) /\ run.pendingInputs \in Seq(Inputs)
  BY DEF RunTypes, Runs, Engines
<1> DEFINE p == Append(run.pendingInputs, i)
           s == Append(engine.steering, i)
<1>2. p \in Seq(Inputs) /\ s \in Seq(Inputs \cup {Budget})
  BY <1>1
<1>3. run' = [run EXCEPT !.pendingInputs = p] /\ engine' = [engine EXCEPT !.steering = s] /\ run.phase = "streaming"
  BY DEF Enqueue
<1> HIDE DEF p, s
<1>4. run' \in Runs /\ engine' \in Engines
  BY <1>2, <1>3 DEF RunTypes, Runs, Engines
<1>5. RunTypes'
  BY <1>3, <1>4 DEF RunTypes, Runs, Engines
<1>6. /\ engine'.at = engine.at /\ engine'.prompt = engine.prompt /\ engine'.stop = engine.stop
      /\ engine'.steering = s /\ run'.pendingInputs = p
      /\ run'.initial = run.initial /\ run'.system = run.system /\ run'.phase = run.phase /\ run'.result = run.result
  BY <1>3 DEF RunTypes, Runs, Engines
<1> QED BY <1>3, <1>5, <1>6 DEF RunTypes, p, s

\* The first of a sequence and the rest of it.
LEMMA HeadTail ==
  ASSUME NEW S, NEW s \in Seq(S), s # <<>>
  PROVE  /\ Head(s) \in S /\ Tail(s) \in Seq(S) /\ Len(s) \in Nat \ {0} /\ Len(Tail(s)) = Len(s) - 1 /\ Head(s) = s[1]
         /\ \A k \in 1..Len(Tail(s)) : Tail(s)[k] = s[k + 1]
OBVIOUS

\* The engine moves, with these inputs,
Moves(steering, prompt, pendingInputs, initial, system) ==
  /\ RunTypes' /\ run'.phase = "streaming" /\ engine.at # "idle"
  /\ engine'.steering = steering /\ engine'.prompt = prompt
  /\ run'.pendingInputs = pendingInputs /\ run'.initial = initial /\ run'.system = system
  /\ run'.result = run.result

\* or with the inputs there were.
KeepsInputs == Moves(engine.steering, engine.prompt, run.pendingInputs, run.initial, run.system)

\* The engine goes on to its next step.
LEMMA GoesIs ==
  ASSUME RunTypes, engine.at \notin {"idle", "completing"}, NEW at \in {"input", "call", "answer", "tools"},
         Goes(at), UNCHANGED run
  PROVE  KeepsInputs /\ engine'.at = at /\ engine'.stop = engine.stop
<1>1. engine' \in Engines /\ engine' = [engine EXCEPT !.at = at] /\ run' = run
  BY DEF RunTypes, Goes, Engines
<1>2. RunTypes'
  BY <1>1 DEF RunTypes, Engines
<1> QED BY <1>1, <1>2 DEF Moves, KeepsInputs, RunTypes, Engines

\* The engine has a reason to stop.
LEMMA StopsIs ==
  ASSUME RunTypes, engine.at # "idle", NEW why \in {"interrupted", "deferred", "max-turns", "natural"},
         Stops(why), UNCHANGED run
  PROVE  KeepsInputs /\ engine'.at = "completing" /\ engine'.stop = why
<1>1. engine' \in Engines /\ engine' = [engine EXCEPT !.at = "completing", !.stop = why] /\ run' = run
  BY DEF RunTypes, Stops, Engines
<1>2. RunTypes'
  BY <1>1 DEF RunTypes, Engines
<1> QED BY <1>1, <1>2 DEF Moves, KeepsInputs, RunTypes, Engines

\* After an answer the engine takes another turn or stops, naturally only when
\* it has read everything.
LEMMA AnswerIs ==
  ASSUME RunTypes, Answer
  PROVE  /\ KeepsInputs /\ engine.at \in {"answer", "tools"}
         /\ \/ engine'.at = "turn" /\ engine'.stop = "none"
            \/ engine'.at = "completing" /\ engine'.stop \in {"interrupted", "deferred", "max-turns"}
            \/ engine'.at = "completing" /\ engine'.stop = "natural" /\ engine.steering = <<>>
<1>1. PICK how \in {"answer", "tools", "deferred"} : EndTurn(how)
  BY DEF Answer
<1>2. engine.at \in {"answer", "tools"} /\ run' = run /\ engine.turns < MaxTurns /\ engine.turns \in Nat
  BY DEF Answer, RunTypes, Engines
<1> DEFINE turns == engine.turns + 1
           stop == IF Aborted THEN "interrupted"
                   ELSE IF how = "deferred" THEN "deferred"
                   ELSE IF turns >= MaxTurns THEN "max-turns"
                   ELSE IF engine.steering # <<>> \/ how = "tools" THEN "none"
                   ELSE "natural"
           at == IF stop = "none" THEN "turn" ELSE "completing"
<1>3. engine' = [engine EXCEPT !.turns = turns, !.stop = stop, !.at = at]
  BY <1>1 DEF EndTurn
<1>4. /\ stop \in {"none", "interrupted", "deferred", "max-turns", "natural"}
      /\ stop = "natural" => engine.steering = <<>>
      /\ stop = "none" => turns < MaxTurns
      /\ turns \in 0..MaxTurns
  <2>1. turns \in 0..MaxTurns /\ (~(turns >= MaxTurns) => turns < MaxTurns)
    BY <1>2, LimitsAssumption
  <2> HIDE DEF turns
  <2> QED BY <1>1, <2>1
<1> HIDE DEF turns, stop
<1>5. engine' \in Engines
  BY <1>3, <1>4 DEF RunTypes, Engines
<1>6. /\ engine'.at = at /\ engine'.stop = stop /\ engine'.turns = turns /\ engine'.steering = engine.steering
      /\ engine'.prompt = engine.prompt
  BY <1>3 DEF RunTypes, Engines
<1>7. RunTypes'
  BY <1>2, <1>4, <1>5, <1>6 DEF RunTypes
<1> QED BY <1>2, <1>4, <1>6, <1>7 DEF Moves, KeepsInputs, RunTypes

\* An engine that steers itself has one message more than its run.
LEMMA BudgetIs ==
  ASSUME RunTypes, BudgetExceeded
  PROVE  /\ Moves(Append(engine.steering, Budget), engine.prompt, run.pendingInputs, run.initial, run.system)
         /\ engine.at = "answer" /\ engine'.at \in {"turn", "completing"} /\ engine'.stop \in {"none", "max-turns"}
<1> DEFINE s == Append(engine.steering, Budget)
           turns == engine.turns + 1
           at == IF turns >= MaxTurns THEN "completing" ELSE "turn"
           stop == IF turns >= MaxTurns THEN "max-turns" ELSE "none"
<1>1. /\ s \in Seq(Inputs \cup {Budget})
      /\ engine.at = "answer" /\ run' = run /\ engine.turns < MaxTurns /\ turns \in 0..MaxTurns
      /\ at = "completing" <=> stop # "none"
      /\ at \in {"completing", "turn"} /\ stop \in {"max-turns", "none"}
      /\ at = "turn" => turns < MaxTurns
  BY LimitsAssumption DEF BudgetExceeded, RunTypes, Engines
<1>2. engine' = [engine EXCEPT !.steering = s, !.turns = turns, !.at = at, !.stop = stop]
  BY DEF BudgetExceeded
<1> HIDE DEF s, turns, at, stop
<1>3. engine' \in Engines
  BY <1>1, <1>2 DEF RunTypes, Engines
<1>4. /\ engine'.at = at /\ engine'.stop = stop /\ engine'.turns = turns /\ engine'.steering = s
      /\ engine'.prompt = engine.prompt
  BY <1>2 DEF RunTypes, Engines
<1>5. RunTypes'
  BY <1>1, <1>3, <1>4 DEF RunTypes
<1> QED BY <1>1, <1>4, <1>5 DEF Moves, RunTypes, s

\* The input takes what is free, unless the run still holds a system
\* notification.
LEMMA BuildInputIs ==
  ASSUME RunTypes, BuildInput
  PROVE  \E taken : /\ taken = (IF run.system = {} THEN Free ELSE {}) /\ reserved' = reserved \cup taken
                    /\ Moves(engine.steering, engine.prompt, run.pendingInputs, run.initial, run.system \cup taken)
                    /\ engine.at = "input" /\ engine'.at = "call" /\ engine'.stop = engine.stop
<1> DEFINE taken == IF run.system = {} THEN Free ELSE {}
<1>1. /\ run' = [run EXCEPT !.system = @ \cup taken] /\ engine' = [engine EXCEPT !.at = "call"]
      /\ reserved' = reserved \cup taken /\ taken \subseteq Tasks /\ engine.at = "input"
  BY DEF BuildInput, Goes, Free, Pending
<1> HIDE DEF taken
<1>2. run' \in Runs /\ engine' \in Engines
  BY <1>1 DEF RunTypes, Runs, Engines
<1>3. RunTypes'
  BY <1>1, <1>2 DEF RunTypes, Runs, Engines
<1>4. Moves(engine.steering, engine.prompt, run.pendingInputs, run.initial, run.system \cup taken)
  BY <1>1, <1>3 DEF Moves, RunTypes, Runs, Engines
<1>5. engine'.at = "call" /\ engine'.stop = engine.stop
  BY <1>1 DEF RunTypes, Engines
<1> QED BY <1>1, <1>4, <1>5 DEF taken

\* With a request to a model the run acknowledges what the request holds.
LEMMA CallIs ==
  ASSUME RunTypes, CallModel, ~Aborted
  PROVE  /\ Moves(engine.steering, engine.prompt, run.pendingInputs, {}, {})
         /\ engine.at = "call" /\ engine'.at = "answer" /\ engine'.stop = engine.stop
<1>1. /\ run' = [run EXCEPT !.system = {}, !.initial = {}] /\ engine' = [engine EXCEPT !.at = "answer"]
      /\ engine.at = "call"
  BY DEF CallModel, Goes
<1>2. run' \in Runs /\ engine' \in Engines
  BY <1>1 DEF RunTypes, Runs, Engines
<1>3. RunTypes'
  BY <1>1, <1>2 DEF RunTypes, Runs, Engines
<1> QED BY <1>1, <1>3 DEF Moves, RunTypes, Runs, Engines

\* A turn takes its prompt, and one message if there is one: the run takes its
\* first input for it, or throws.
LEMMA BeginsIs ==
  ASSUME RunTypes, BeginTurn
  PROVE  /\ engine.at = "turn" /\ engine'.at # "turn"
         /\ seen' = seen \cup engine.prompt
                      \cup (IF engine.steering = <<>> THEN {} ELSE {Head(engine.steering)} \cap Inputs)
         /\ \/ /\ engine.steering = <<>> /\ engine'.at = "input" /\ engine'.stop = engine.stop
               /\ Moves(engine.steering, {}, run.pendingInputs, run.initial, run.system)
               /\ UNCHANGED <<task, reserved, consumed, orphan>>
            \/ /\ engine.steering # <<>> /\ run.pendingInputs # <<>> /\ engine'.at = "input" /\ engine'.stop = engine.stop
               /\ Moves(Tail(engine.steering), {}, Tail(run.pendingInputs), run.initial, run.system)
               /\ Correlate /\ UNCHANGED orphan
            \/ /\ engine.steering # <<>> /\ run.pendingInputs = <<>>
               /\ Over /\ run'.result # "completed" /\ reserved' = reserved \ HeldBy(run)
               /\ UNCHANGED <<task, consumed>>
<1>1. engine.at = "turn" /\ engine.stop = "none" /\ engine.steering \in Seq(Inputs \cup {Budget}) /\ run.pendingInputs \in Seq(Inputs)
  BY DEF BeginTurn, RunTypes, Runs, Engines
<1>2. CASE engine.steering = <<>>
  <2>1. engine' = [engine EXCEPT !.at = "input", !.prompt = {}] /\ run' = run /\ UNCHANGED <<task, reserved, consumed, orphan>>
    BY <1>2 DEF BeginTurn
  <2>2. engine' \in Engines
    BY <2>1 DEF RunTypes, Engines
  <2>3. RunTypes'
    BY <1>1, <2>1, <2>2 DEF RunTypes, Engines
  <2>4. engine'.at = "input" /\ engine'.stop = engine.stop /\ Moves(engine.steering, {}, run.pendingInputs, run.initial, run.system)
    BY <1>1, <2>1, <2>3 DEF Moves, RunTypes, Engines
  <2> QED BY <1>1, <1>2, <2>1, <2>4 DEF BeginTurn
<1>3. CASE engine.steering # <<>> /\ run.pendingInputs # <<>>
  <2> DEFINE p == Tail(run.pendingInputs)
             s == Tail(engine.steering)
  <2>1. p \in Seq(Inputs) /\ s \in Seq(Inputs \cup {Budget})
    BY <1>1, <1>3, HeadTail
  <2>2. /\ run' = [run EXCEPT !.pendingInputs = p] /\ engine' = [engine EXCEPT !.at = "input", !.prompt = {}, !.steering = s]
        /\ Correlate /\ UNCHANGED orphan
    BY <1>3 DEF BeginTurn, Correlate
  <2> HIDE DEF p, s
  <2>3. engine' \in Engines /\ run' \in Runs
    BY <2>1, <2>2 DEF RunTypes, Runs, Engines
  <2>4. RunTypes'
    BY <1>1, <2>2, <2>3 DEF RunTypes, Runs, Engines
  <2>5. engine'.at = "input" /\ engine'.stop = engine.stop /\ Moves(s, {}, p, run.initial, run.system)
    BY <1>1, <2>2, <2>4 DEF Moves, RunTypes, Runs, Engines
  <2> QED BY <1>1, <1>3, <2>2, <2>5 DEF BeginTurn, p, s
<1>4. CASE engine.steering # <<>> /\ run.pendingInputs = <<>>
  <2>1. Throws("failed") /\ UNCHANGED <<task, consumed>>
    BY <1>4 DEF BeginTurn
  <2>2. Over /\ run'.result # "completed" /\ reserved' = reserved \ HeldBy(run)
    BY <2>1, ThrowsIs
  <2> QED BY <1>1, <1>4, <2>1, <2>2, StoppedIs DEF BeginTurn, Over
<1> QED BY <1>2, <1>3, <1>4

-----------------------------------------------------------------------------
\* The run ends without having completed,
Ended ==
  /\ Over /\ run'.result # "completed" /\ reserved' = reserved \ HeldBy(run)
  /\ UNCHANGED <<task, orphan, history, causes>>

\* or is as it was, but for being interrupted.
Stays ==
  /\ RunTypes' /\ engine' = engine /\ run'.phase = run.phase /\ run'.result = run.result
  /\ run'.pendingInputs = run.pendingInputs /\ run'.initial = run.initial /\ run'.system = run.system

\* What fails or interrupts a run ends it.
LEMMA EndedIs ==
  ASSUME RejectDeferred \/ EngineThrows \/ FinalInterrupted \/ FinalFailed
  PROVE  Ended
BY ThrowsIs, OverIs DEF RejectDeferred, EngineThrows, FinalInterrupted, FinalFailed, Ended

\* A stream is only marked, a run without one is over.
LEMMA InterruptIs ==
  ASSUME RunTypes, Interrupt
  PROVE  Ended \/ (Stays /\ UNCHANGED <<task, reserved, orphan, history, causes>>)
<1>1. CASE run.phase = "streaming"
  <2>1. run' = [run EXCEPT !.interrupted = TRUE] /\ UNCHANGED <<engine, task, reserved, orphan, history, causes>>
    BY <1>1 DEF Interrupt
  <2>2. run' \in Runs
    BY <2>1 DEF RunTypes, Runs
  <2>3. RunTypes'
    BY <2>1, <2>2 DEF RunTypes, Runs
  <2> QED BY <2>1, <2>3 DEF Stays, RunTypes, Runs
<1>2. CASE run.phase # "streaming"
  BY <1>2, OverIs DEF Interrupt, Ended
<1> QED BY <1>1, <1>2

\* Nothing changes.
LEMMA SameIs == ASSUME RunTypes, UNCHANGED <<run, engine>> PROVE Stays
BY DEF Stays, RunTypes

\* What a task's notification can be.
Tells == {"absent", "active", "pending", "delivered"}

\* Every step keeps the types.
LEMMA TypesStep ==
  ASSUME Types, [Next]_vars
  PROVE  Types'
<1> DEFINE Rest == /\ task \in [Tasks -> Tells] /\ reserved \subseteq Tasks /\ orphan \in [alive : BOOLEAN, took : BOOLEAN]
                   /\ consumed \subseteq Steers /\ lost \subseteq Steers /\ sent \subseteq Steers /\ seen \subseteq Inputs
                   /\ causes \subseteq {"unread", "budget", "compact"}
<1>1. RunTypes /\ Rest
  BY DEF Types, Tells
<1> SUFFICES (RunTypes /\ Rest)'
  BY DEF Types, Tells
<1>2. run.pendingInputs \in Seq(Inputs) /\ engine.steering \in Seq(Inputs \cup {Budget}) /\ engine.prompt \subseteq Inputs
      /\ run.system \subseteq Tasks /\ run.initial \subseteq Tasks
  BY <1>1 DEF RunTypes, Runs, Engines
<1>3. Free \subseteq Tasks /\ Tasks \subseteq Inputs /\ Steers \subseteq Inputs /\ NoOrphan \in [alive : BOOLEAN, took : BOOLEAN]
  BY DEF Free, Pending, Inputs, NoOrphan
<1>4. CASE StartRun
  BY <1>1, <1>4, StartedIs DEF StartRun, Streams, history
<1>5. CASE Interrupt
  BY <1>1, <1>5, InterruptIs DEF Ended, Stays, Over, history
<1>6. CASE ResolveDeferred
  BY <1>1, <1>6, ResolvedIs DEF ResolveDeferred, Streams, history
<1>7. CASE RejectDeferred \/ EngineThrows \/ FinalInterrupted \/ FinalFailed
  BY <1>1, <1>7, EndedIs DEF Ended, Over, history
<1>8. CASE TurnInterrupted
  BY <1>1, <1>8, StopsIs DEF TurnInterrupted, DropsPrompt, Moves, KeepsInputs
<1>9. CASE BeginTurn
  <2>1. RunTypes' /\ seen' \subseteq Inputs
    BY <1>1, <1>2, <1>3, <1>9, BeginsIs DEF Moves, Over
  <2>2. ASSUME Correlate, run.pendingInputs # <<>>
        PROVE  consumed' \subseteq Steers /\ task' \in [Tasks -> Tells] /\ reserved' \subseteq Tasks
    BY <1>1, <1>2, <2>2, HeadTail DEF Correlate, Tells
  <2>3. orphan' \in [alive : BOOLEAN, took : BOOLEAN]
    <3>1. UNCHANGED orphan \/ orphan' = [alive |-> TRUE, took |-> FALSE]
      BY <1>9 DEF BeginTurn
    <3>2. [alive |-> TRUE, took |-> FALSE] \in [alive : BOOLEAN, took : BOOLEAN]
      OBVIOUS
    <3> HIDE DEF Rest
    <3>3. orphan \in [alive : BOOLEAN, took : BOOLEAN]
      BY <1>1 DEF Rest
    <3> QED BY <3>1, <3>2, <3>3
  <2>4. UNCHANGED <<lost, sent, causes>>
    BY <1>9 DEF BeginTurn
  <2> QED BY <1>1, <1>9, <2>1, <2>2, <2>3, <2>4, BeginsIs
<1>10. CASE BuildInput
  BY <1>1, <1>3, <1>10, BuildInputIs DEF BuildInput, Moves, history
<1>11. CASE CallModel
  <2>1. RunTypes' /\ UNCHANGED <<orphan, consumed, lost, sent, causes>> /\ reserved' \subseteq Tasks
    BY <1>1, <1>11, CallIs, StopsIs DEF CallModel, Moves, KeepsInputs
  <2>2. task' \in [Tasks -> Tells] /\ seen' \subseteq Inputs
    BY <1>1, <1>2, <1>3, <1>11 DEF CallModel, Tells
  <2> QED BY <1>1, <2>1, <2>2
<1>12. CASE ToolCalls
  BY <1>1, <1>12, GoesIs DEF ToolCalls, Moves, KeepsInputs, history
<1>13. CASE Answer
  BY <1>1, <1>13, AnswerIs DEF Answer, Moves, KeepsInputs, history
<1>14. CASE BudgetExceeded
  BY <1>1, <1>14, BudgetIs DEF BudgetExceeded, Moves, history
<1>15. CASE FinalDeferred
  BY <1>1, <1>15, RestsIs DEF FinalDeferred, Rests, LeavesUnread, history
<1>16. CASE FinalContinues
  BY <1>1, <1>3, <1>16, ContinuesIs DEF FinalContinues, Streams, Rests, Over, LeavesUnread, history
<1>17. ASSUME NEW s \in Steers, Steer(s) PROVE (RunTypes /\ Rest)'
  <2>1. RunTypes'
    BY <1>1, <1>3, <1>17, EnqueuedIs, WokenIs DEF Steer, Streams
  <2> QED BY <1>1, <1>17, <2>1 DEF Steer, Enqueue, Wake, Late
<1>18. ASSUME NEW t \in Tasks, Settle(t) PROVE (RunTypes /\ Rest)'
  <2>1. RunTypes'
    BY <1>1, <1>3, <1>18, EnqueuedIs, WokenIs, SameIs DEF Settle, Streams, Stays
  <2>2. causes' \subseteq {"unread", "budget", "compact"}
    BY <1>1, <1>18 DEF Settle, Enqueue, Wake, Late
  <2>3. task' \in [Tasks -> Tells] /\ reserved' \subseteq Tasks /\ UNCHANGED <<orphan, history>>
    BY <1>1, <1>3, <1>18 DEF Settle, Tells
  <2> QED BY <1>1, <2>1, <2>2, <2>3 DEF history
<1>19. ASSUME NEW t \in Tasks, Spawn(t) PROVE (RunTypes /\ Rest)'
  BY <1>1, <1>19, SameIs DEF Spawn, Stays, history, Tells
<1>20. CASE OrphanTakes \/ OrphanEnds \/ Compact
  BY <1>1, <1>3, <1>20, SameIs DEF OrphanTakes, OrphanEnds, Compact, Stays, history
<1>21. CASE Restart
  BY <1>1, <1>3, <1>21, RestartIs DEF Restart, DropsPrompt, Over, Tells
<1>22. CASE UNCHANGED vars
  BY <1>1, <1>22, SameIs DEF vars, Stays
<1> QED
  BY <1>4, <1>5, <1>6, <1>7, <1>8, <1>9, <1>10, <1>11, <1>12, <1>13, <1>14, <1>15, <1>16, <1>17, <1>18, <1>19, <1>20,
     <1>21, <1>22 DEF Next, EngineStep

\* A steer or a task that settles brings one input, which joins the stream, wakes
\* the run, or neither.
LEMMA InputComes ==
  ASSUME (\E s \in Steers : Steer(s)) \/ (\E t \in Tasks : Settle(t))
  PROVE  \/ UNCHANGED <<run, engine>>
         \/ \E i \in Inputs : Enqueue(i) \/ \E free \in SUBSET Tasks : Wake(i, free)
<1>1. Free \in SUBSET Tasks /\ {} \in SUBSET Tasks /\ Tasks \subseteq Inputs /\ Steers \subseteq Inputs
  BY DEF Free, Pending, Inputs
<1> QED BY <1>1 DEF Steer, Settle

\* Every step keeps PromptOK.
LEMMA PromptStep ==
  ASSUME Types, PromptOK, [Next]_vars
  PROVE  PromptOK'
<1>1. RunTypes /\ engine.at \in {"idle", "turn", "input", "call", "answer", "tools", "completing"}
      /\ engine.stop \in {"none", "interrupted", "deferred", "max-turns", "natural"}
      /\ (engine.at = "idle" <=> run.phase # "streaming") /\ (engine.at = "completing" <=> engine.stop # "none")
  BY DEF Types, RunTypes, Engines
<1> USE StoppedIs DEF PromptOK, Taken, Told
<1>2. CASE Stays
  BY <1>2 DEF Stays
<1>3. CASE StartRun
  BY <1>3, StartedIs DEF Streams, RunTypes
<1>4. CASE Interrupt
  BY <1>1, <1>2, <1>4, InterruptIs DEF Ended, Over
<1>5. CASE ResolveDeferred
  BY <1>1, <1>5, ResolvedIs DEF ResolveDeferred, Streams, RunTypes
<1>6. CASE RejectDeferred \/ EngineThrows \/ FinalInterrupted \/ FinalFailed
  BY <1>6, EndedIs DEF Ended, Over
<1>7. CASE TurnInterrupted
  BY <1>1, <1>7, StopsIs DEF TurnInterrupted, Moves, KeepsInputs
<1>8. CASE BeginTurn
  BY <1>1, <1>8, BeginsIs DEF Moves, Over
<1>9. CASE BuildInput
  BY <1>1, <1>9, BuildInputIs DEF Moves
<1>10. CASE CallModel
  BY <1>1, <1>10, CallIs, StopsIs DEF CallModel, Moves, KeepsInputs
<1>11. CASE ToolCalls
  BY <1>1, <1>11, GoesIs DEF ToolCalls, Moves, KeepsInputs
<1>12. CASE Answer
  BY <1>1, <1>12, AnswerIs DEF Moves, KeepsInputs
<1>13. CASE BudgetExceeded
  BY <1>1, <1>13, BudgetIs DEF Moves
<1>14. CASE FinalDeferred
  BY <1>1, <1>14, RestsIs DEF FinalDeferred, EngineEnds, Rests
<1>15. CASE FinalContinues
  BY <1>1, <1>15, ContinuesIs DEF FinalContinues, EngineEnds, Streams, Rests, Over, RunTypes
<1>16. ASSUME NEW i \in Inputs, Enqueue(i) PROVE PromptOK'
  BY <1>1, <1>16, EnqueuedIs DEF RunTypes
<1>17. ASSUME NEW i \in Inputs, NEW free \in SUBSET Tasks, Wake(i, free) PROVE PromptOK'
  <2>1. run.phase = "waiting"
    BY <1>17 DEF Wake
  <2> QED BY <1>1, <1>17, <2>1, WokenIs DEF Streams, RunTypes
<1>18. CASE UNCHANGED <<run, engine>>
  BY <1>1, <1>2, <1>18, SameIs
<1>19. CASE Restart
  BY <1>19, RestartIs DEF Over
<1> QED
  BY <1>3, <1>4, <1>5, <1>6, <1>7, <1>8, <1>9, <1>10, <1>11, <1>12, <1>13, <1>14, <1>15, <1>16, <1>17, <1>18, <1>19, InputComes
  DEF Next, EngineStep, Spawn, OrphanTakes, OrphanEnds, Compact, vars

\* No exception is taken back.
LEMMA CausesGrow == [Next]_vars => causes \subseteq causes'
BY DEF Next, EngineStep, StartRun, Interrupt, ResolveDeferred, RejectDeferred, TurnInterrupted, BeginTurn, BuildInput, CallModel,
       ToolCalls, Answer, BudgetExceeded, EngineThrows, FinalInterrupted, FinalDeferred, FinalFailed, FinalContinues, LeavesUnread,
       Steer, Settle, Enqueue, Wake, Late, Spawn, OrphanTakes, OrphanEnds, Compact, Restart, vars, history

\* A step leaves what is pending, forgets it, takes the first or adds a new one.
LEMMA PendingMoves ==
  ASSUME Types, PromptOK, [Next]_vars
  PROVE  \/ run'.pendingInputs \in {run.pendingInputs, <<>>}
         \/ run.pendingInputs # <<>> /\ run'.pendingInputs = Tail(run.pendingInputs)
         \/ \E i \in Inputs : ~Known(i) /\ Known(i)' /\ run'.pendingInputs = Append(run.pendingInputs, i)
<1> DEFINE Goal == \/ run'.pendingInputs \in {run.pendingInputs, <<>>}
                   \/ run.pendingInputs # <<>> /\ run'.pendingInputs = Tail(run.pendingInputs)
                   \/ \E i \in Inputs : ~Known(i) /\ Known(i)' /\ run'.pendingInputs = Append(run.pendingInputs, i)
<1>1. RunTypes /\ task \in [Tasks -> Tells] /\ sent \subseteq Steers
      /\ Free \in SUBSET Tasks /\ {} \in SUBSET Tasks /\ Tasks \subseteq Inputs /\ Steers \subseteq Inputs
  BY DEF Types, Tells, Free, Pending, Inputs
<1>2. ASSUME NEW i \in Inputs, ~Known(i), Known(i)', Enqueue(i) \/ \E free \in SUBSET Tasks : Wake(i, free) PROVE Goal
  BY <1>1, <1>2, EnqueuedIs, WokenIs DEF Streams
<1>3. ASSUME NEW s \in Steers, Steer(s) PROVE Goal
  <2>1. ~Known(s) /\ Known(s)'
    BY <1>3, InputsAssumption DEF Steer, Known
  <2> QED BY <1>1, <1>2, <1>3, <2>1 DEF Steer
<1>4. ASSUME NEW t \in Tasks, Settle(t) PROVE Goal
  <2>1. ~Known(t) /\ Known(t)'
    BY <1>1, <1>4, InputsAssumption DEF Settle, Known
  <2>2. UNCHANGED run \/ Enqueue(t) \/ Wake(t, Free)
    BY <1>4 DEF Settle
  <2> QED BY <1>1, <1>2, <2>1, <2>2
<1>5. StartRun => Goal
  BY StartedIs DEF Streams
<1>6. Interrupt => Goal
  BY <1>1, InterruptIs DEF Ended, Over, Stays
<1>7. ResolveDeferred => Goal
  BY <1>1, ResolvedIs DEF Streams
<1>8. RejectDeferred \/ EngineThrows \/ FinalInterrupted \/ FinalFailed => Goal
  BY EndedIs DEF Ended, Over
<1>9. BeginTurn => Goal
  BY <1>1, BeginsIs DEF Moves, Over
<1>10. BuildInput => Goal
  BY <1>1, BuildInputIs DEF Moves
<1>11. CallModel => Goal
  BY <1>1, CallIs DEF CallModel, Moves
<1>12. FinalDeferred => Goal
  BY <1>1, RestsIs DEF FinalDeferred, Rests
<1>13. FinalContinues => Goal
  BY <1>1, ContinuesIs DEF FinalContinues, Streams, Rests, Over
<1>14. Restart => Goal
  BY RestartIs DEF Over
<1>15. UNCHANGED run => Goal
  OBVIOUS
<1> QED
  BY <1>3, <1>4, <1>5, <1>6, <1>7, <1>8, <1>9, <1>10, <1>11, <1>12, <1>13, <1>14, <1>15
  DEF Next, EngineStep, TurnInterrupted, ToolCalls, Answer, BudgetExceeded, Spawn, OrphanTakes, OrphanEnds, Compact, vars

\* Every step keeps InputsOK: what is known stays known while it is pending.
LEMMA InputsStep ==
  ASSUME Types, PromptOK, InputsOK, [Next]_vars
  PROVE  InputsOK'
<1>1. run.pendingInputs \in Seq(Inputs) /\ task \in [Tasks -> Tells]
  BY DEF Types, RunTypes, Runs, Tells
<1>2. ASSUME NEW i \in Inputs, Known(i) PROVE Known(i)' \/ run'.pendingInputs = <<>>
  <2>1. CASE Restart
    BY <2>1, RestartIs DEF Over
  <2>2. CASE CallModel
    BY <1>1, <1>2, <2>2 DEF CallModel, Known
  <2>3. CASE BeginTurn
    BY <1>1, <1>2, <2>3 DEF BeginTurn, Correlate, Known, Throws, Tells
  <2>4. ASSUME NEW t \in Tasks, Spawn(t) \/ Settle(t) PROVE Known(i)'
    BY <1>1, <1>2, <2>4 DEF Spawn, Settle, Known, history
  <2>5. ASSUME NEW s \in Steers, Steer(s) PROVE Known(i)'
    BY <1>1, <1>2, <2>5 DEF Steer, Known
  <2>6. CASE UNCHANGED <<task, sent>>
    BY <1>2, <2>6 DEF Known
  <2> QED
    BY <2>1, <2>2, <2>3, <2>4, <2>5, <2>6
    DEF Next, EngineStep, StartRun, Interrupt, ResolveDeferred, RejectDeferred, TurnInterrupted, BuildInput,
        ToolCalls, Answer, BudgetExceeded, EngineThrows, FinalInterrupted, FinalDeferred, FinalFailed, FinalContinues,
        OrphanTakes, OrphanEnds, Compact, vars, history
<1>3. CASE run'.pendingInputs = <<>>
  BY <1>3 DEF InputsOK
<1>4. CASE run'.pendingInputs = run.pendingInputs
  <2>1. \A k \in 1..Len(run.pendingInputs) : run.pendingInputs[k] \in Inputs
    BY <1>1
  <2> QED BY <1>2, <1>3, <1>4, <2>1 DEF InputsOK
<1>5. CASE run.pendingInputs # <<>> /\ run'.pendingInputs = Tail(run.pendingInputs) /\ run'.pendingInputs # <<>>
  <2> DEFINE p == run.pendingInputs
             q == Tail(run.pendingInputs)
  <2>1. /\ p \in Seq(Inputs) /\ Len(p) \in Nat \ {0} /\ Len(q) = Len(p) - 1
        /\ \A k \in 1..Len(q) : q[k] = p[k + 1]
    BY <1>1, <1>5, HeadTail
  <2>2. \A k \in 1..Len(q) : k + 1 \in 1..Len(p) /\ p[k + 1] \in Inputs
    BY <2>1
  <2>3. \A j, k \in 1..Len(p) : p[j] = p[k] => j = k
    BY DEF InputsOK
  <2>4. \A k \in 1..Len(p) : Known(p[k])
    BY DEF InputsOK
  <2> HIDE DEF p, q
  <2>5. \A j, k \in 1..Len(q) : q[j] = q[k] => j = k
    BY <2>1, <2>2, <2>3
  <2>6. run'.pendingInputs = q
    BY <1>5 DEF q
  <2>7. \A k \in 1..Len(run'.pendingInputs) : Known(run.pendingInputs[k])'
    <3> SUFFICES ASSUME NEW k \in 1..Len(run'.pendingInputs) PROVE Known(run.pendingInputs[k])'
      OBVIOUS
    <3>1. PICK i \in Inputs : i = run'.pendingInputs[k] /\ Known(i)
      BY <2>1, <2>2, <2>4, <2>6
    <3>2. Known(i)'
      BY <1>2, <1>5, <3>1
    <3> QED BY <3>1, <3>2 DEF Known
  <2> QED BY <2>5, <2>6, <2>7 DEF InputsOK
<1>6. ASSUME NEW i \in Inputs, ~Known(i), Known(i)', run'.pendingInputs = Append(run.pendingInputs, i)
      PROVE  InputsOK'
  <2> DEFINE p == run.pendingInputs
  <2>1. /\ p \in Seq(Inputs) /\ Len(p) \in Nat /\ Len(run'.pendingInputs) = Len(p) + 1
        /\ \A k \in 1..Len(p) : run'.pendingInputs[k] = p[k] /\ p[k] \in Inputs
        /\ run'.pendingInputs[Len(p) + 1] = i
    BY <1>1, <1>6
  <2>2. \A k \in 1..Len(p) : p[k] # i
    BY <1>6 DEF InputsOK
  <2>3. \A j, k \in 1..Len(p) : p[j] = p[k] => j = k
    BY DEF InputsOK
  <2>4. \A k \in 1..Len(p) : Known(p[k])
    BY DEF InputsOK
  <2>5. run'.pendingInputs # <<>>
    BY <2>1
  <2> HIDE DEF p
  <2>6. \A j, k \in 1..Len(run'.pendingInputs) : run'.pendingInputs[j] = run'.pendingInputs[k] => j = k
    BY <2>1, <2>2, <2>3
  <2>7. \A k \in 1..Len(run'.pendingInputs) : Known(run.pendingInputs[k])'
    <3> SUFFICES ASSUME NEW k \in 1..Len(run'.pendingInputs) PROVE Known(run.pendingInputs[k])'
      OBVIOUS
    <3>1. PICK x \in Inputs : x = run'.pendingInputs[k] /\ (Known(x) \/ x = i)
      BY <2>1, <2>4
    <3>2. Known(x)'
      BY <1>2, <1>6, <2>5, <3>1
    <3> QED BY <3>1, <3>2 DEF Known
  <2> QED BY <2>6, <2>7 DEF InputsOK
<1> QED BY <1>3, <1>4, <1>5, <1>6, PendingMoves

\* Both lists grow and shrink at the same ends.
LEMMA EndOfIs ==
  ASSUME NEW S, NEW s \in Seq(S), NEW p \in Seq(S)
  PROVE  /\ EndOf(<<>>, p)
         /\ \A i \in S : EndOf(<<i>>, Append(p, i))
         /\ EndOf(s, p) => \A i \in S : EndOf(Append(s, i), Append(p, i))
         /\ EndOf(s, p) /\ s # <<>> => p # <<>> /\ Head(s) \in S /\ EndOf(Tail(s), Tail(p))
<1>1. EndOf(<<>>, p)
  BY DEF EndOf
<1>2. \A i \in S : EndOf(<<i>>, Append(p, i))
  BY DEF EndOf
<1>3. ASSUME EndOf(s, p), NEW i \in S PROVE EndOf(Append(s, i), Append(p, i))
  <2> DEFINE s2 == Append(s, i)
             p2 == Append(p, i)
             d == Len(p) - Len(s)
  <2>1. /\ Len(s) \in Nat /\ Len(p) \in Nat /\ Len(s2) = Len(s) + 1 /\ Len(p2) = Len(p) + 1
        /\ \A k \in 1..Len(s) : s2[k] = s[k]
        /\ \A k \in 1..Len(p) : p2[k] = p[k]
        /\ s2[Len(s) + 1] = i /\ p2[Len(p) + 1] = i
    OBVIOUS
  <2> HIDE DEF s2, p2
  <2>2. Len(p2) - Len(s2) = d /\ d \in Nat
    BY <1>3, <2>1 DEF EndOf
  <2>3. ASSUME NEW k \in 1..Len(s2) PROVE s2[k] = p2[Len(p2) - Len(s2) + k]
    <3>1. CASE k \in 1..Len(s)
      <4>1. Len(p2) - Len(s2) + k = d + k /\ d + k \in 1..Len(p) /\ s[k] = p[d + k]
        BY <1>3, <2>1, <2>2, <3>1 DEF EndOf
      <4> QED BY <2>1, <3>1, <4>1
    <3>2. CASE k = Len(s) + 1
      <4>1. Len(p2) - Len(s2) + k = Len(p) + 1
        BY <2>1, <3>2
      <4> QED BY <2>1, <3>2, <4>1
    <3> QED BY <2>1, <3>1, <3>2
  <2>4. Len(s2) <= Len(p2)
    BY <1>3, <2>1 DEF EndOf
  <2> QED BY <2>3, <2>4 DEF EndOf, s2, p2
<1>4. ASSUME EndOf(s, p), s # <<>> PROVE p # <<>> /\ Head(s) \in S /\ EndOf(Tail(s), Tail(p))
  <2> DEFINE s2 == Tail(s)
             p2 == Tail(p)
             d == Len(p) - Len(s)
  <2>1. Len(s) \in Nat \ {0} /\ Len(s) <= Len(p) /\ Head(s) \in S /\ p # <<>> /\ Len(p) \in Nat /\ d \in Nat
    BY <1>4 DEF EndOf
  <2>2. /\ Len(s2) = Len(s) - 1 /\ Len(p2) = Len(p) - 1
        /\ \A k \in 1..Len(s2) : s2[k] = s[k + 1]
        /\ \A k \in 1..Len(p2) : p2[k] = p[k + 1]
    BY <1>4, <2>1, HeadTail
  <2> HIDE DEF s2, p2
  <2>3. ASSUME NEW k \in 1..Len(s2) PROVE s2[k] = p2[Len(p2) - Len(s2) + k]
    <3>1. /\ k + 1 \in 1..Len(s) /\ d + k \in 1..Len(p2) /\ Len(p2) - Len(s2) + k = d + k
          /\ (d + k) + 1 = d + (k + 1)
      BY <2>1, <2>2
    <3>2. s[k + 1] = p[d + (k + 1)]
      BY <1>4, <3>1 DEF EndOf
    <3> QED BY <2>2, <3>1, <3>2
  <2> QED BY <2>1, <2>2, <2>3 DEF EndOf, s2, p2
<1> QED BY <1>1, <1>2, <1>3, <1>4

\* Every step keeps SteeringOK.
LEMMA SteeringStep ==
  ASSUME Types, SteeringOK, [Next]_vars
  PROVE  SteeringOK'
<1> DEFINE S == Inputs \cup {Budget}
           Fine == EndOf(engine.steering, run.pendingInputs)
<1>1. SUFFICES ASSUME "budget" \notin causes' PROVE Fine' /\ ~orphan'.alive
  BY DEF SteeringOK
<1>2. Fine /\ ~orphan.alive
  BY <1>1, CausesGrow DEF SteeringOK
<1>3. /\ RunTypes /\ run.pendingInputs \in Seq(Inputs) /\ run.pendingInputs \in Seq(S) /\ engine.steering \in Seq(S)
      /\ Free \in SUBSET Tasks /\ {} \in SUBSET Tasks /\ Tasks \subseteq Inputs /\ Steers \subseteq Inputs
  <2>1. RunTypes /\ run.pendingInputs \in Seq(Inputs) /\ engine.steering \in Seq(S)
    BY DEF Types, RunTypes, Runs, Engines
  <2>2. run.pendingInputs \in Seq(S)
    BY <2>1
  <2> QED BY <2>1, <2>2 DEF Free, Pending, Inputs
<1> HIDE DEF S
<1>4. EndOf(<<>>, run.pendingInputs) /\ EndOf(<<>>, <<>>)
  <2>1. <<>> \in Seq(S)
    OBVIOUS
  <2> QED BY <1>3, <2>1, EndOfIs
<1>5. ASSUME run'.pendingInputs = run.pendingInputs, engine'.steering \in {engine.steering, <<>>} PROVE Fine'
  BY <1>2, <1>4, <1>5
<1>6. ASSUME NEW i \in Inputs, Enqueue(i) \/ \E free \in SUBSET Tasks : Wake(i, free) PROVE Fine'
  <2>1. i \in S
    BY DEF S
  <2>2. EndOf(Append(engine.steering, i), Append(run.pendingInputs, i)) /\ EndOf(<<i>>, Append(run.pendingInputs, i))
    BY <1>2, <1>3, <2>1, EndOfIs
  <2> QED BY <1>3, <1>4, <1>6, <2>2, EnqueuedIs, WokenIs DEF Streams
<1>7. ASSUME Over PROVE Fine'
  BY <1>4, <1>7, StoppedIs DEF Over
<1>8. CASE BeginTurn
  <2>1. engine.steering # <<>> => run.pendingInputs # <<>> /\ EndOf(Tail(engine.steering), Tail(run.pendingInputs))
    BY <1>2, <1>3, EndOfIs
  <2> QED BY <1>2, <1>3, <1>8, <2>1, BeginsIs DEF Moves
<1>9. orphan'.alive => BeginTurn
  BY <1>2 DEF Next, EngineStep, StartRun, Interrupt, ResolveDeferred, RejectDeferred, TurnInterrupted, BuildInput, CallModel,
       ToolCalls, Answer, BudgetExceeded, EngineThrows, FinalInterrupted, FinalDeferred, FinalFailed, FinalContinues,
       Steer, Settle, Spawn, OrphanTakes, OrphanEnds, NoOrphan, Compact, Restart, vars, history
<1>10. BeginTurn => ~orphan'.alive
  <2>1. engine.steering # <<>> => run.pendingInputs # <<>>
    BY <1>2, <1>3, EndOfIs
  <2> QED BY <1>2, <1>3, <2>1, BeginsIs
<1>11. StartRun => Fine'
  BY <1>4, StartedIs DEF Streams
<1>12. Interrupt => Fine'
  BY <1>3, <1>5, <1>7, InterruptIs DEF Ended, Stays
<1>13. ResolveDeferred => Fine'
  BY <1>3, <1>5, ResolvedIs DEF Streams
<1>14. RejectDeferred \/ EngineThrows \/ FinalInterrupted \/ FinalFailed \/ Restart => Fine'
  BY <1>7, EndedIs, RestartIs DEF Ended
<1>15. BuildInput => Fine'
  BY <1>3, <1>5, BuildInputIs DEF Moves
<1>16. CallModel => Fine'
  BY <1>3, <1>5, CallIs, StopsIs DEF CallModel, Moves, KeepsInputs
<1>17. TurnInterrupted => Fine'
  BY <1>3, <1>5, StopsIs DEF TurnInterrupted, Moves, KeepsInputs
<1>18. ToolCalls => Fine'
  BY <1>3, <1>5, GoesIs DEF ToolCalls, Moves, KeepsInputs
<1>19. Answer => Fine'
  BY <1>3, <1>5, AnswerIs DEF Moves, KeepsInputs
<1>20. FinalDeferred => Fine'
  BY <1>3, <1>5, RestsIs, StoppedIs DEF FinalDeferred, Rests
<1>21. FinalContinues => Fine'
  BY <1>3, <1>5, <1>7, ContinuesIs, StoppedIs DEF FinalContinues, Streams, Rests
<1>22. ~BudgetExceeded
  BY <1>1 DEF BudgetExceeded
<1>23. UNCHANGED <<run, engine>> => Fine'
  BY <1>5
<1>24. Fine'
  BY <1>6, <1>8, <1>11, <1>12, <1>13, <1>14, <1>15, <1>16, <1>17, <1>18, <1>19, <1>20, <1>21, <1>22, <1>23, InputComes
  DEF Next, EngineStep, Spawn, OrphanTakes, OrphanEnds, Compact, vars
<1> QED BY <1>9, <1>10, <1>24

\* Every step keeps ReadOK.
LEMMA ReadStep ==
  ASSUME Types, PromptOK, ReadOK, [Next]_vars
  PROVE  ReadOK'
<1> DEFINE Fine == run.pendingInputs = engine.steering /\ (engine.stop = "natural" => engine.steering = <<>>)
<1>1. SUFFICES ASSUME causes' \cap {"unread", "budget"} = {} PROVE Fine'
  BY DEF ReadOK
<1>2. Fine
  BY <1>1, CausesGrow DEF ReadOK
<1>3. /\ RunTypes /\ run.pendingInputs \in Seq(Inputs)
      /\ engine.stop \in {"none", "interrupted", "deferred", "max-turns", "natural"}
      /\ Free \in SUBSET Tasks /\ {} \in SUBSET Tasks /\ Tasks \subseteq Inputs /\ Steers \subseteq Inputs
  BY DEF Types, RunTypes, Runs, Engines, Free, Pending, Inputs
<1>4. run.phase # "streaming" => run.pendingInputs = <<>>
  BY <1>2, <1>3 DEF RunTypes
<1>5. ASSUME NEW i \in Inputs, Enqueue(i) PROVE Fine'
  <2>1. engine.at # "completing"
    BY <1>1, <1>5 DEF Enqueue, Late
  <2> QED BY <1>2, <1>3, <1>5, <2>1, EnqueuedIs DEF RunTypes
<1>6. ASSUME NEW i \in Inputs, NEW free \in SUBSET Tasks, Wake(i, free) PROVE Fine'
  <2>1. run.pendingInputs = <<>> /\ Append(<<>>, i) = <<i>>
    BY <1>4, <1>6 DEF Wake
  <2> QED BY <1>3, <1>6, <2>1, WokenIs DEF Streams, RunTypes
<1>7. CASE Over
  BY <1>7, StoppedIs DEF Over
<1>8. CASE Stays
  BY <1>2, <1>8 DEF Stays
<1>9. CASE KeepsInputs /\ engine'.stop # "natural"
  BY <1>2, <1>9 DEF KeepsInputs, Moves
<1>10. StartRun => Fine'
  BY StartedIs DEF Streams, RunTypes
<1>11. Interrupt => Fine'
  BY <1>3, <1>7, <1>8, InterruptIs DEF Ended
<1>12. ResolveDeferred => Fine'
  BY <1>3, <1>4, ResolvedIs DEF ResolveDeferred, Streams, RunTypes
<1>13. RejectDeferred \/ EngineThrows \/ FinalInterrupted \/ FinalFailed \/ Restart => Fine'
  BY <1>7, EndedIs, RestartIs DEF Ended
<1>14. BeginTurn => Fine'
  BY <1>2, <1>3, <1>7, BeginsIs DEF Moves, RunTypes
<1>15. BuildInput => Fine'
  BY <1>2, <1>3, BuildInputIs DEF Moves, RunTypes
<1>16. CallModel => Fine'
  BY <1>2, <1>3, <1>9, CallIs, StopsIs DEF CallModel, Moves, RunTypes
<1>17. TurnInterrupted => Fine'
  BY <1>3, <1>9, StopsIs DEF TurnInterrupted
<1>18. ToolCalls => Fine'
  BY <1>3, <1>9, GoesIs DEF ToolCalls, RunTypes
<1>19. Answer => Fine'
  BY <1>2, <1>3, AnswerIs DEF Moves, KeepsInputs
<1>20. FinalDeferred => Fine'
  <2>1. FinalDeferred => engine.steering = <<>>
    BY <1>1 DEF FinalDeferred, LeavesUnread
  <2> QED BY <1>2, <1>3, <2>1, RestsIs, StoppedIs DEF FinalDeferred, Rests
<1>21. FinalContinues => Fine'
  <2>1. FinalContinues => engine.steering = <<>>
    BY <1>1, <1>2 DEF FinalContinues, EngineEnds, LeavesUnread
  <2> QED BY <1>2, <1>3, <1>7, <2>1, ContinuesIs, StoppedIs DEF FinalContinues, Streams, Rests, RunTypes
<1>22. ~BudgetExceeded
  BY <1>1 DEF BudgetExceeded
<1>23. UNCHANGED <<run, engine>> => Fine'
  BY <1>2
<1> QED
  BY <1>5, <1>6, <1>10, <1>11, <1>12, <1>13, <1>14, <1>15, <1>16, <1>17, <1>18, <1>19, <1>20, <1>21, <1>22, <1>23, InputComes
  DEF Next, EngineStep, Spawn, OrphanTakes, OrphanEnds, Compact, vars

\* What an input adds to the notifications of a list, and what leaves with its
\* first.
LEMMA NotifiedIs ==
  ASSUME NEW p \in Seq(Inputs)
  PROVE  /\ Notified(<<>>) = {} /\ Notified(p) \subseteq Tasks
         /\ \A i \in Inputs : Notified(Append(p, i)) = Notified(p) \cup ({i} \cap Tasks)
         /\ p # <<>> /\ (\A j, k \in 1..Len(p) : p[j] = p[k] => j = k) => Notified(Tail(p)) = Notified(p) \ {Head(p)}
<1>1. Notified(<<>>) = {} /\ Notified(p) \subseteq Tasks
  BY DEF Notified
<1>2. ASSUME NEW i \in Inputs PROVE Notified(Append(p, i)) = Notified(p) \cup ({i} \cap Tasks)
  <2> DEFINE q == Append(p, i)
  <2>1. /\ Len(p) \in Nat /\ Len(q) = Len(p) + 1 /\ q[Len(p) + 1] = i
        /\ \A k \in 1..Len(p) : q[k] = p[k]
    OBVIOUS
  <2> HIDE DEF q
  <2>2. ASSUME NEW t \in Tasks PROVE (\E k \in 1..Len(q) : q[k] = t) <=> ((\E k \in 1..Len(p) : p[k] = t) \/ t = i)
    <3>1. \A k \in 1..Len(q) : k \in 1..Len(p) \/ k = Len(p) + 1
      BY <2>1
    <3>2. Len(p) + 1 \in 1..Len(q) /\ \A k \in 1..Len(p) : k \in 1..Len(q)
      BY <2>1
    <3> QED BY <2>1, <3>1, <3>2
  <2> QED BY <2>2 DEF Notified, q
<1>3. ASSUME p # <<>>, \A j, k \in 1..Len(p) : p[j] = p[k] => j = k
      PROVE  Notified(Tail(p)) = Notified(p) \ {Head(p)}
  <2> DEFINE q == Tail(p)
  <2>1. /\ Len(p) \in Nat \ {0} /\ Len(q) = Len(p) - 1 /\ Head(p) = p[1]
        /\ \A k \in 1..Len(q) : q[k] = p[k + 1]
    BY <1>3, HeadTail
  <2> HIDE DEF q
  <2>2. /\ \A k \in 1..Len(q) : k + 1 \in 1..Len(p) /\ k + 1 # 1
        /\ \A k \in 1..Len(p) : k # 1 => k - 1 \in 1..Len(q) /\ (k - 1) + 1 = k
        /\ 1 \in 1..Len(p)
    BY <2>1
  <2>3. ASSUME NEW t \in Tasks
        PROVE  (\E k \in 1..Len(q) : q[k] = t) <=> ((\E k \in 1..Len(p) : p[k] = t) /\ t # p[1])
    <3>1. ASSUME NEW k \in 1..Len(q), q[k] = t PROVE (\E l \in 1..Len(p) : p[l] = t) /\ t # p[1]
      BY <1>3, <2>1, <2>2, <3>1
    <3>2. ASSUME NEW k \in 1..Len(p), p[k] = t, t # p[1] PROVE \E l \in 1..Len(q) : q[l] = t
      BY <2>1, <2>2, <3>2
    <3> QED BY <3>1, <3>2
  <2> QED BY <2>1, <2>3 DEF Notified, q
<1> QED BY <1>1, <1>2, <1>3

\* What the run holds when nothing is in waitingInputs.
LEMMA HeldIs == RunTypes => HeldBy(run) = run.initial \cup run.system \cup Notified(run.pendingInputs)
<1>1. Notified(<<>>) = {}
  BY DEF Notified
<1> QED BY <1>1 DEF RunTypes, HeldBy

\* Every step keeps HeldOK.
LEMMA HeldStep ==
  ASSUME Types, PromptOK, InputsOK, SteeringOK, HeldOK, [Next]_vars
  PROVE  HeldOK'
<1> DEFINE Fine == /\ reserved = run.initial \cup run.system \cup Notified(run.pendingInputs)
                   /\ reserved \subseteq Pending
                   /\ run.initial \cap run.system = {}
                   /\ Notified(run.pendingInputs) \cap (run.initial \cup run.system) = {}
<1>1. SUFFICES ASSUME causes' \cap {"compact", "budget"} = {} PROVE Fine'
  <2>1. RunTypes'
    BY TypesStep DEF Types
  <2>2. HeldBy(run)' = (run.initial \cup run.system \cup Notified(run.pendingInputs))'
    <3>1. Notified(<<>>) = {}
      BY DEF Notified
    <3> QED BY <2>1, <3>1 DEF RunTypes, HeldBy
  <2> QED BY <1>1, <2>2 DEF HeldOK
<1>2. /\ RunTypes /\ run.pendingInputs \in Seq(Inputs) /\ task \in [Tasks -> Tells] /\ reserved \subseteq Tasks
      /\ run.initial \subseteq Tasks /\ run.system \subseteq Tasks
      /\ engine.at = "completing" <=> engine.stop # "none"
      /\ engine.at = "idle" <=> run.phase # "streaming"
  BY DEF Types, RunTypes, Runs, Tells
<1>3. HeldBy(run) = run.initial \cup run.system \cup Notified(run.pendingInputs)
  BY <1>2, HeldIs
<1>4. Fine
  BY <1>1, <1>3, CausesGrow DEF HeldOK
<1>5. /\ Free = Pending \ reserved /\ Free \in SUBSET Tasks /\ {} \in SUBSET Tasks /\ Tasks \subseteq Inputs /\ Steers \subseteq Inputs
      /\ \A t \in Tasks : t \in Pending <=> task[t] = "pending"
  BY DEF Free, Pending, Inputs
<1>6. Notified(<<>>) = {}
  BY <1>2, NotifiedIs
<1>7. CASE Over /\ reserved' = {}
  BY <1>6, <1>7 DEF Over
<1>8. CASE Over /\ reserved' = reserved \ HeldBy(run)
  BY <1>3, <1>4, <1>7, <1>8
<1>9. CASE UNCHANGED <<reserved, task>> /\ run'.initial = run.initial /\ run'.system = run.system /\ run'.pendingInputs = run.pendingInputs
  BY <1>4, <1>9 DEF Pending
<1>10. StartRun => Fine'
  <2>1. StartRun => reserved' = {}
    BY <1>4, <1>6 DEF StartRun, PromptOK
  <2> QED BY <1>6, <2>1, StartedIs DEF Streams
<1>11. Interrupt => Fine'
  BY <1>2, <1>8, <1>9, InterruptIs DEF Ended, Stays
<1>12. ResolveDeferred => Fine'
  BY <1>2, <1>9, ResolvedIs DEF ResolveDeferred, Streams
<1>13. RejectDeferred \/ EngineThrows \/ FinalInterrupted \/ FinalFailed => Fine'
  BY <1>8, EndedIs DEF Ended
<1>14. Restart => Fine'
  BY <1>7, RestartIs DEF Restart
<1>15. ASSUME BeginTurn PROVE Fine'
  <2>1. ASSUME Correlate, run.pendingInputs # <<>>, run'.pendingInputs = Tail(run.pendingInputs),
               run'.initial = run.initial, run'.system = run.system
        PROVE  Fine'
    <3>1. PICK i \in Inputs : i = Head(run.pendingInputs)
      BY <1>2, <2>1, HeadTail
    <3>2. Notified(run'.pendingInputs) = Notified(run.pendingInputs) \ {i}
      BY <1>2, <2>1, <3>1, NotifiedIs DEF InputsOK
    <3>3. i \in Tasks => i \in Notified(run.pendingInputs)
      <4>1. 1 \in 1..Len(run.pendingInputs) /\ i = run.pendingInputs[1]
        BY <1>2, <2>1, <3>1, HeadTail
      <4> QED BY <4>1 DEF Notified
    <3>4. /\ reserved' = reserved \ {i}
          /\ \A t \in Tasks : task'[t] = task[t] \/ t = i
      BY <1>2, <2>1, <3>1 DEF Correlate
    <3> QED BY <1>2, <1>4, <2>1, <3>2, <3>3, <3>4 DEF Pending
  <2> QED BY <1>2, <1>8, <1>9, <1>15, <2>1, BeginsIs DEF Moves
<1>16. BuildInput => Fine'
  <2>1. BuildInput => UNCHANGED task
    BY DEF BuildInput
  <2> QED BY <1>2, <1>4, <1>5, <2>1, BuildInputIs DEF Moves, Pending
<1>17. CallModel => Fine'
  <2>1. ASSUME CallModel, Aborted PROVE Fine'
    BY <1>2, <1>9, <2>1, StopsIs DEF CallModel, Moves, KeepsInputs
  <2>2. ASSUME CallModel, ~Aborted PROVE Fine'
    <3>1. /\ run'.initial = {} /\ run'.system = {} /\ run'.pendingInputs = run.pendingInputs
      BY <1>2, <2>2, CallIs DEF Moves
    <3>2. /\ reserved' = reserved \ (run.system \cup run.initial)
          /\ \A t \in Tasks : t \notin run.system \cup run.initial => task'[t] = task[t]
      BY <2>2 DEF CallModel
    <3>3. Notified(run.pendingInputs) \subseteq Tasks
      BY <1>2, NotifiedIs
    <3> QED BY <1>4, <3>1, <3>2, <3>3 DEF Pending
  <2> QED BY <2>1, <2>2
<1>18. TurnInterrupted => Fine'
  BY <1>2, <1>9, StopsIs DEF TurnInterrupted, Moves, KeepsInputs
<1>19. ToolCalls => Fine'
  BY <1>2, <1>9, GoesIs DEF ToolCalls, Moves, KeepsInputs
<1>20. Answer => Fine'
  BY <1>2, <1>9, AnswerIs DEF Answer, Moves, KeepsInputs
<1>21. FinalDeferred => Fine'
  BY <1>2, <1>9, RestsIs DEF FinalDeferred, Rests
<1>22. FinalContinues => Fine'
  <2>1. FinalContinues => run.initial = {} /\ run.system = {} /\ UNCHANGED task
    BY DEF FinalContinues, EngineEnds, PromptOK, Told
  <2> QED BY <1>2, <1>4, <1>5, <1>8, <1>9, <2>1, ContinuesIs DEF FinalContinues, Streams, Rests, Pending
<1>23. ~BudgetExceeded /\ ~Compact
  BY <1>1 DEF BudgetExceeded, Compact
<1>24. ~OrphanTakes
  BY <1>1, CausesGrow DEF OrphanTakes, SteeringOK
<1>25. OrphanEnds \/ UNCHANGED vars => Fine'
  BY <1>9 DEF OrphanEnds, vars
<1>26. ASSUME NEW t \in Tasks, Spawn(t) PROVE Fine'
  BY <1>2, <1>4, <1>26 DEF Spawn, Pending
<1>27. ASSUME NEW s \in Steers, Steer(s) PROVE Fine'
  <2>1. UNCHANGED <<task, reserved>> /\ s \notin Tasks /\ s \in Inputs
    BY <1>5, <1>27, InputsAssumption DEF Steer
  <2>2. Notified(Append(run.pendingInputs, s)) = Notified(run.pendingInputs)
    <3>1. {s} \cap Tasks = {}
      BY <2>1
    <3>2. Notified(Append(run.pendingInputs, s)) = Notified(run.pendingInputs) \cup ({s} \cap Tasks)
      BY <1>2, <2>1, NotifiedIs
    <3> HIDE DEF Fine
    <3> QED BY <3>1, <3>2
  <2>3. CASE Enqueue(s)
    BY <1>2, <1>4, <2>1, <2>2, <2>3, EnqueuedIs DEF Pending
  <2>4. CASE Wake(s, {})
    <3>1. run.initial = {} /\ run.system = {}
      BY <2>4 DEF Wake, PromptOK
    <3> QED BY <1>2, <1>9, <1>5, <2>1, <2>4, <3>1, WokenIs DEF Streams
  <2> QED BY <1>27, <2>3, <2>4 DEF Steer
<1>28. ASSUME NEW t \in Tasks, Settle(t) PROVE Fine'
  <2>1. /\ t \in Inputs /\ t \notin Pending /\ t \notin reserved /\ Pending' = Pending \cup {t} /\ t \notin Free
    BY <1>2, <1>4, <1>5, <1>28 DEF Settle, Pending
  <2>2. Notified(Append(run.pendingInputs, t)) = Notified(run.pendingInputs) \cup {t}
    BY <1>2, <2>1, NotifiedIs
  <2>3. CASE Enqueue(t) /\ reserved' = reserved \cup {t}
    BY <1>2, <1>4, <2>1, <2>2, <2>3, EnqueuedIs
  <2>4. CASE Wake(t, Free) /\ reserved' = reserved \cup Free \cup {t}
    <3>1. run.initial = {} /\ run.system = {}
      BY <2>4 DEF Wake, PromptOK
    <3>2. CASE Free # {}
      <4>1. Streams(Append(run.pendingInputs, t), <<t>>, Free, run.system, Free)
        BY <1>2, <1>5, <2>1, <2>4, <3>2, WokenIs
      <4>2. run'.initial = Free /\ run'.system = {} /\ Notified(run'.pendingInputs) = Notified(run.pendingInputs) \cup {t}
        BY <2>2, <3>1, <4>1 DEF Streams
      <4>3. reserved = Notified(run.pendingInputs) /\ reserved' = reserved \cup Free \cup {t}
        BY <1>4, <2>4, <3>1
      <4> QED BY <1>4, <1>5, <2>1, <4>2, <4>3
    <3>3. CASE Free = {}
      <4>1. {t} \cap Tasks = {t}
        OBVIOUS
      <4> QED BY <1>2, <1>4, <1>5, <2>1, <2>4, <3>1, <3>3, <4>1, WokenIs DEF Streams
    <3> QED BY <3>2, <3>3
  <2>5. CASE UNCHANGED <<run, reserved>>
    BY <1>4, <2>1, <2>5
  <2> QED BY <1>28, <2>3, <2>4, <2>5 DEF Settle
<1> QED
  BY <1>10, <1>11, <1>12, <1>13, <1>14, <1>15, <1>16, <1>17, <1>18, <1>19, <1>20, <1>21, <1>22, <1>23, <1>24, <1>25, <1>26,
     <1>27, <1>28 DEF Next, EngineStep

\* What has been seen stays seen.
LEMMA SeenGrows == [Next]_vars => seen \subseteq seen'
BY DEF Next, EngineStep, StartRun, Interrupt, ResolveDeferred, RejectDeferred, TurnInterrupted, BeginTurn, BuildInput, CallModel,
       ToolCalls, Answer, BudgetExceeded, EngineThrows, FinalInterrupted, FinalDeferred, FinalFailed, FinalContinues,
       Steer, Settle, Spawn, OrphanTakes, OrphanEnds, Compact, Restart, vars, history

\* A run begins with what is in its prompt, which the first turn reads.
LEMMA InitialStep ==
  ASSUME Types, PromptOK, run.initial \subseteq seen \cup engine.prompt, [Next]_vars
  PROVE  run'.initial \subseteq seen' \cup engine'.prompt
<1> DEFINE Fine == run.initial \subseteq seen \cup engine.prompt
<1> SUFFICES Fine'
  OBVIOUS
<1>1. /\ RunTypes /\ seen \subseteq seen' /\ Fine
      /\ Free \in SUBSET Tasks /\ {} \in SUBSET Tasks /\ Tasks \subseteq Inputs /\ Steers \subseteq Inputs
  BY SeenGrows DEF Types, Free, Pending, Inputs
<1>2. CASE run'.initial = {}
  BY <1>2
<1>3. CASE run'.initial \subseteq run.initial /\ engine'.prompt = engine.prompt
  BY <1>1, <1>3
<1>4. CASE run'.initial \subseteq engine'.prompt
  BY <1>4
<1>5. engine.at = "idle" => engine.prompt = {}
  BY <1>1 DEF RunTypes
<1>6. ASSUME NEW i \in Inputs, Enqueue(i) \/ \E free \in SUBSET Tasks : Wake(i, free) PROVE Fine'
  BY <1>1, <1>3, <1>4, <1>6, EnqueuedIs, WokenIs DEF Streams
<1>7. BeginTurn => Fine'
  BY <1>1, <1>2, BeginsIs DEF Moves, Over
<1>8. StartRun => Fine'
  BY <1>2, StartedIs DEF Streams
<1>9. Interrupt => Fine'
  BY <1>1, <1>2, <1>3, InterruptIs DEF Ended, Over, Stays
<1>10. ResolveDeferred => Fine'
  BY <1>1, <1>2, ResolvedIs DEF ResolveDeferred, Streams, PromptOK
<1>11. RejectDeferred \/ EngineThrows \/ FinalInterrupted \/ FinalFailed \/ Restart => Fine'
  BY <1>2, EndedIs, RestartIs DEF Ended, Over
<1>12. BuildInput => Fine'
  BY <1>1, <1>3, BuildInputIs DEF Moves
<1>13. CallModel => Fine'
  BY <1>1, <1>2, <1>3, CallIs, StopsIs DEF CallModel, Moves, KeepsInputs
<1>14. TurnInterrupted => Fine'
  BY <1>1, <1>3, StopsIs DEF TurnInterrupted, Moves, KeepsInputs
<1>15. ToolCalls => Fine'
  BY <1>1, <1>3, GoesIs DEF ToolCalls, Moves, KeepsInputs
<1>16. Answer => Fine'
  BY <1>1, <1>3, AnswerIs DEF Moves, KeepsInputs
<1>17. BudgetExceeded => Fine'
  BY <1>1, <1>3, BudgetIs DEF Moves
<1>18. FinalDeferred \/ FinalContinues => Fine'
  <2>1. FinalDeferred \/ FinalContinues => run.initial = {}
    BY DEF FinalDeferred, FinalContinues, EngineEnds, PromptOK, Told
  <2> QED BY <1>1, <1>2, <1>4, <2>1, RestsIs, ContinuesIs DEF FinalDeferred, FinalContinues, Streams, Rests, Over
<1>19. UNCHANGED <<run, engine>> => Fine'
  BY <1>3
<1> QED
  BY <1>6, <1>7, <1>8, <1>9, <1>10, <1>11, <1>12, <1>13, <1>14, <1>15, <1>16, <1>17, <1>18, <1>19, InputComes
  DEF Next, EngineStep, Spawn, OrphanTakes, OrphanEnds, Compact, vars

\* A prompt stays, is read by the model or dropped with its stream, and every step
\* keeps DroppedOK.
LEMMA PromptGoes ==
  ASSUME Types, PromptOK, DroppedOK, [Next]_vars
  PROVE  /\ DroppedOK'
         /\ lost \subseteq lost' /\ engine.prompt \cap Steers \subseteq seen' \cup engine'.prompt \cup lost'
<1> DEFINE Goal == DroppedOK' /\ engine.prompt \cap Steers \subseteq seen' \cup engine'.prompt \cup lost'
<1>1. lost \subseteq lost'
  BY DEF Next, EngineStep, StartRun, Interrupt, ResolveDeferred, RejectDeferred, TurnInterrupted, DropsPrompt, BeginTurn, BuildInput,
         CallModel, ToolCalls, Answer, BudgetExceeded, EngineThrows, FinalInterrupted, FinalDeferred, FinalFailed, FinalContinues,
         Steer, Settle, Spawn, OrphanTakes, OrphanEnds, Compact, Restart, vars, history
<1>2. /\ RunTypes /\ Free \in SUBSET Tasks /\ {} \in SUBSET Tasks /\ Tasks \subseteq Inputs /\ Steers \subseteq Inputs
      /\ (engine.at = "completing" <=> engine.stop # "none") /\ (engine.at = "idle" <=> run.phase # "streaming")
      /\ (engine.at = "idle" => engine.prompt = {})
      /\ engine.stop \in {"none", "interrupted", "deferred", "max-turns", "natural"}
  BY DEF Types, RunTypes, Engines, Free, Pending, Inputs
<1>3. CASE engine'.prompt = engine.prompt /\ engine'.stop = engine.stop
  BY <1>1, <1>3 DEF DroppedOK
<1>4. CASE engine.prompt = {} /\ engine'.prompt = {}
  BY <1>1, <1>4 DEF DroppedOK
<1>5. CASE engine.prompt \cap Steers \subseteq seen' \cup lost' /\ engine'.prompt = {}
  BY <1>1, <1>5 DEF DroppedOK
<1>6. CASE engine.prompt = {} /\ engine'.at = "turn" /\ RunTypes'
  BY <1>1, <1>6 DEF DroppedOK, RunTypes
<1>7. ASSUME NEW i \in Inputs, Enqueue(i) PROVE Goal
  BY <1>2, <1>3, <1>7, EnqueuedIs
<1>8. ASSUME NEW i \in Inputs, NEW free \in SUBSET Tasks, Wake(i, free) PROVE Goal
  <2>1. engine.prompt = {}
    BY <1>2, <1>8 DEF Wake
  <2> QED BY <1>2, <1>6, <1>8, <2>1, WokenIs DEF Streams
<1>9. BeginTurn => Goal
  BY <1>2, <1>5, BeginsIs, StoppedIs DEF Moves, Over
<1>10. StartRun \/ ResolveDeferred => Goal
  <2>1. StartRun \/ ResolveDeferred => engine.prompt = {}
    BY <1>2 DEF StartRun, ResolveDeferred
  <2> QED BY <1>2, <1>6, <2>1, StartedIs, ResolvedIs DEF Streams
<1>11. Interrupt => Goal
  <2>1. CASE run.phase = "streaming"
    BY <1>3, <2>1 DEF Interrupt
  <2>2. CASE run.phase # "streaming"
    BY <1>2, <1>4, <2>2, StoppedIs DEF Interrupt, Ends
  <2> QED BY <2>1, <2>2
<1>12. RejectDeferred \/ EngineThrows \/ FinalFailed => Goal
  <2>1. RejectDeferred \/ EngineThrows \/ FinalFailed => engine.prompt = {}
    BY <1>2 DEF RejectDeferred, EngineThrows, FinalFailed, EngineEnds, PromptOK, Taken
  <2> QED BY <1>4, <2>1, EndedIs, StoppedIs DEF Ended, Over
<1>13. FinalInterrupted => Goal
  <2>1. FinalInterrupted => engine.prompt \cap Steers \subseteq lost
    BY <1>2 DEF FinalInterrupted, PromptOK, Taken, DroppedOK
  <2> QED BY <1>1, <1>5, <2>1, EndedIs, StoppedIs DEF Ended, Over
<1>14. Restart => Goal
  BY <1>5, RestartIs, StoppedIs DEF Over, Restart, DropsPrompt
<1>15. TurnInterrupted => Goal
  BY <1>2, StopsIs DEF TurnInterrupted, DropsPrompt, Moves, KeepsInputs, DroppedOK
<1>16. BuildInput => Goal
  BY <1>2, <1>3, BuildInputIs DEF Moves
<1>17. ToolCalls => Goal
  BY <1>2, <1>3, GoesIs DEF ToolCalls, Moves, KeepsInputs
<1>18. CallModel \/ Answer \/ BudgetExceeded => Goal
  <2>1. CallModel \/ Answer \/ BudgetExceeded => engine.prompt = {}
    BY <1>2, AnswerIs, BudgetIs DEF CallModel, PromptOK, Taken
  <2>2. CallModel \/ Answer \/ BudgetExceeded => engine'.prompt = engine.prompt
    BY <1>2, AnswerIs, BudgetIs, CallIs, StopsIs DEF CallModel, Moves, KeepsInputs
  <2> QED BY <1>4, <2>1, <2>2
<1>19. FinalDeferred \/ FinalContinues => Goal
  <2>1. FinalDeferred \/ FinalContinues => engine.prompt = {}
    BY <1>2 DEF FinalDeferred, FinalContinues, EngineEnds, PromptOK, Taken
  <2> QED BY <1>2, <1>4, <1>6, <2>1, RestsIs, ContinuesIs, StoppedIs DEF FinalDeferred, FinalContinues, Streams, Rests, Over
<1>20. UNCHANGED <<run, engine>> => Goal
  BY <1>3
<1> QED
  BY <1>1, <1>7, <1>8, <1>9, <1>10, <1>11, <1>12, <1>13, <1>14, <1>15, <1>16, <1>17, <1>18, <1>19, <1>20, InputComes
  DEF Next, EngineStep, Spawn, OrphanTakes, OrphanEnds, Compact, vars

\* Every step keeps SeenOK.
LEMMA SeenStep ==
  ASSUME Types, PromptOK, ReadOK, DroppedOK, SeenOK, [Next]_vars
  PROVE  SeenOK'
<1>1. run'.initial \subseteq seen' \cup engine'.prompt
  BY InitialStep DEF SeenOK
<1> DEFINE Fine == {t \in Tasks : task[t] = "delivered"} \subseteq seen /\ consumed \subseteq seen \cup engine.prompt \cup lost
<1>2. SUFFICES ASSUME causes' \cap {"unread", "budget"} = {} PROVE Fine'
  BY <1>1 DEF SeenOK, DeliveredWasSeen
<1>3. Fine /\ run.pendingInputs = engine.steering /\ seen \subseteq seen'
  BY <1>2, CausesGrow, SeenGrows DEF SeenOK, DeliveredWasSeen, ReadOK
<1>4. /\ RunTypes /\ task \in [Tasks -> Tells] /\ run.pendingInputs \in Seq(Inputs) /\ consumed \subseteq Steers
      /\ Steers \subseteq Inputs /\ {} \in SUBSET Tasks
  BY DEF Types, Tells, RunTypes, Runs, Inputs
<1>5. ASSUME \A t \in Tasks : task'[t] = "delivered" => task[t] = "delivered" \/ t \in seen',
             consumed' \subseteq consumed \cup seen' \cup engine'.prompt
      PROVE  Fine'
  BY <1>3, <1>4, <1>5, PromptGoes
<1>6. BeginTurn => Fine'
  <2>1. ASSUME BeginTurn, Correlate, run.pendingInputs # <<>>, engine.steering # <<>> PROVE Fine'
    <3>1. PICK i \in Inputs : i = Head(run.pendingInputs) /\ i \in seen'
      BY <1>3, <1>4, <2>1, BeginsIs, HeadTail
    <3> QED BY <1>4, <1>5, <2>1, <3>1 DEF Correlate
  <2> QED BY <1>4, <1>5, <2>1, BeginsIs
<1>7. CallModel => Fine'
  <2>1. CallModel => run.initial \subseteq seen
    BY DEF CallModel, PromptOK, Taken, SeenOK
  <2> QED BY <1>3, <1>4, <1>5, <2>1 DEF CallModel
<1>8. ASSUME NEW t \in Tasks, Spawn(t) \/ Settle(t) PROVE Fine'
  BY <1>4, <1>5, <1>8 DEF Spawn, Settle, history
<1>9. ASSUME NEW s \in Steers, Steer(s) PROVE Fine'
  <2>1. CASE UNCHANGED consumed
    BY <1>5, <1>9, <2>1 DEF Steer
  <2>2. CASE Wake(s, {}) /\ consumed' = consumed \cup {s}
    <3>1. engine'.prompt = {s}
      BY <1>4, <2>2, WokenIs DEF Streams
    <3> QED BY <1>5, <1>9, <2>2, <3>1 DEF Steer
  <2> QED BY <1>9, <2>1, <2>2 DEF Steer
<1>10. Restart => Fine'
  BY <1>5 DEF Restart
<1>11. UNCHANGED <<task, consumed>> => Fine'
  BY <1>5
<1> QED
  BY <1>6, <1>7, <1>8, <1>9, <1>10, <1>11
  DEF Next, EngineStep, StartRun, Interrupt, ResolveDeferred, RejectDeferred, TurnInterrupted, BuildInput,
      ToolCalls, Answer, BudgetExceeded, EngineThrows, FinalInterrupted, FinalDeferred, FinalFailed, FinalContinues,
      OrphanTakes, OrphanEnds, Compact, vars, history

\* The initial states satisfy the invariant.
LEMMA IInvInit == Init => IInv
<1> SUFFICES ASSUME Init PROVE IInv
  OBVIOUS
<1>1. RunTypes
  BY IdleIs, StoppedIs, LimitsAssumption DEF Init, RunTypes
<1>2. Types
  BY <1>1 DEF Init, Types, NoOrphan
<1>3. PromptOK
  BY IdleIs, StoppedIs DEF Init, PromptOK
<1>4. InputsOK
  BY IdleIs DEF Init, InputsOK
<1>5. SteeringOK
  BY IdleIs, StoppedIs DEF Init, SteeringOK, EndOf, NoOrphan
<1>6. ReadOK
  BY IdleIs, StoppedIs DEF Init, ReadOK
<1>7. HeldOK
  <2>1. Notified(<<>>) = {}
    BY DEF Notified
  <2> QED BY <2>1, IdleIs DEF Init, HeldOK, HeldBy
<1>8. SeenOK
  BY IdleIs DEF Init, SeenOK, DeliveredWasSeen
<1>9. DroppedOK
  BY StoppedIs DEF Init, DroppedOK
<1> QED BY <1>2, <1>3, <1>4, <1>5, <1>6, <1>7, <1>8, <1>9 DEF IInv

\* The invariant that the theorems below rest on.
THEOREM Invariant == Spec => []IInv
<1>1. IInv /\ [Next]_vars => IInv'
  BY TypesStep, PromptStep, InputsStep, SteeringStep, ReadStep, HeldStep, PromptGoes, SeenStep DEF IInv
<1> QED BY <1>1, IInvInit, PTL DEF Spec

\* Every variable of the run and the engine has its type (run.ts:135).
THEOREM TypeCorrect == Spec => []TypeOK
<1>1. IInv => TypeOK
  BY DEF IInv, Types, RunTypes, Runs, Engines, TypeOK
<1> QED BY <1>1, Invariant, PTL

\* What is acknowledged as delivered was in the messages of a model (run.ts
\* model.started), and so was a steer that is reported consumed, or it is in the
\* prompt of the stream it has woken, or that stream was dropped before its first
\* turn (run.ts:275).  Both unless a stream has ended with messages unread or the
\* engine has steered itself.
THEOREM Delivered == Spec => []DeliveredWasSeen
<1>1. IInv => DeliveredWasSeen
  BY DEF IInv, SeenOK
<1> QED BY <1>1, Invariant, PTL

\* A notification is reserved exactly while the run holds it, and is then pending
\* (task-service.ts takeNotifications, release and acknowledge), unless an input was
\* built for a compaction or the engine has steered itself.
THEOREM Reserved == Spec => []ReservedIsHeld
<1>1. IInv => ReservedIsHeld
  BY DEF IInv, HeldOK, ReservedIsHeld
<1> QED BY <1>1, Invariant, PTL

\* The end of a sequence as SubSeq says it.
LEMMA EndIsSubSeq ==
  ASSUME NEW S, NEW s \in Seq(S), NEW p \in Seq(S), EndOf(s, p)
  PROVE  s = SubSeq(p, Len(p) - Len(s) + 1, Len(p))
<1> DEFINE d == Len(p) - Len(s)
           q == SubSeq(p, d + 1, Len(p))
<1>1. Len(s) \in Nat /\ Len(p) \in Nat /\ d \in Nat /\ Len(p) = d + Len(s)
  BY DEF EndOf
<1>2. q \in Seq(S) /\ Len(q) = Len(s) /\ \A k \in 1..Len(s) : q[k] = p[d + k]
  BY <1>1
<1> HIDE DEF q
<1>3. \A k \in 1..Len(s) : s[k] = q[k]
  BY <1>1, <1>2 DEF EndOf
<1>4. s = [k \in 1..Len(s) |-> s[k]] /\ q = [k \in 1..Len(q) |-> q[k]]
  BY <1>2
<1>5. s = q
  BY <1>2, <1>3, <1>4
<1> QED BY <1>5 DEF q

\* The steering queue of the engine is the end of the run's pendingInputs (run.ts:332,
\* 378 and 605), so that a drain always finds an input, unless the engine has steered
\* itself.
THEOREM Steering == Spec => []SteeringIsPending
<1>1. IInv => SteeringIsPending
  <2> SUFFICES ASSUME IInv, "budget" \notin causes
               PROVE  /\ Len(engine.steering) <= Len(run.pendingInputs)
                      /\ engine.steering = SubSeq(run.pendingInputs,
                           Len(run.pendingInputs) - Len(engine.steering) + 1, Len(run.pendingInputs))
    BY DEF SteeringIsPending
  <2>1. EndOf(engine.steering, run.pendingInputs)
    BY DEF IInv, SteeringOK
  <2>2. engine.steering \in Seq(Inputs \cup {Budget}) /\ run.pendingInputs \in Seq(Inputs)
    BY DEF IInv, Types, RunTypes, Runs, Engines
  <2>3. run.pendingInputs \in Seq(Inputs \cup {Budget})
    BY <2>2
  <2> QED BY <2>1, <2>2, <2>3, EndIsSubSeq DEF EndOf
<1> QED BY <1>1, Invariant, PTL

\* A run that completes has no task active or undelivered and no input unread
\* (run.ts waitForContinuation), with the exceptions above.
THEOREM Completes == Spec => CompletesInformed
<1> DEFINE Informs == run'.result = "completed" /\ run'.result # run.result /\ causes' = {} =>
                        /\ \A t \in Tasks : task'[t] \in {"absent", "delivered"}
                        /\ run.pendingInputs = <<>>
<1>1. ASSUME IInv, [Next]_vars PROVE Informs
  <2> SUFFICES ASSUME run'.result = "completed", run'.result # run.result, causes' = {}
               PROVE  /\ \A t \in Tasks : task'[t] \in {"absent", "delivered"}
                      /\ run.pendingInputs = <<>>
    OBVIOUS
  <2>1. /\ RunTypes /\ task \in [Tasks -> Tells] /\ causes = {}
        /\ Free \in SUBSET Tasks /\ {} \in SUBSET Tasks /\ Tasks \subseteq Inputs /\ Steers \subseteq Inputs
    BY <1>1, CausesGrow DEF IInv, Types, Tells, Free, Pending, Inputs
  <2>2. ~UNCHANGED run /\ ~\E i \in Inputs : Enqueue(i) \/ \E free \in SUBSET Tasks : Wake(i, free)
    BY <2>1, EnqueuedIs, WokenIs DEF Streams
  <2>3. FinalContinues
    <3>1. ~StartRun /\ ~ResolveDeferred
      BY <2>1, StartedIs, ResolvedIs DEF Streams
    <3>2. ~Interrupt
      BY <2>1, InterruptIs DEF Ended, Stays
    <3>3. ~(RejectDeferred \/ EngineThrows \/ FinalInterrupted \/ FinalFailed \/ Restart)
      BY EndedIs, RestartIs DEF Ended
    <3>4. ~BeginTurn /\ ~BuildInput /\ ~CallModel
      BY <2>1, <2>2, BeginsIs, BuildInputIs, CallIs DEF CallModel, Moves
    <3>5. ~FinalDeferred
      BY <2>1, RestsIs DEF FinalDeferred, Rests
    <3> QED
      BY <1>1, <2>2, <3>1, <3>2, <3>3, <3>4, <3>5, InputComes
      DEF Next, EngineStep, TurnInterrupted, ToolCalls, Answer, BudgetExceeded, Spawn, OrphanTakes, OrphanEnds, Compact, vars
  <2>4. Free = {} /\ Active = {} /\ UNCHANGED task
    BY <2>1, <2>3, ContinuesIs DEF FinalContinues, Streams, Rests
  <2>5. run.pendingInputs = <<>>
    BY <1>1, <2>1, <2>3 DEF IInv, ReadOK, FinalContinues, EngineEnds, LeavesUnread
  <2>6. Pending = {}
    <3>1. run.initial = {} /\ run.system = {}
      BY <1>1, <2>3 DEF IInv, PromptOK, Told, FinalContinues, EngineEnds
    <3>2. Notified(<<>>) = {}
      BY DEF Notified
    <3>3. reserved = {}
      BY <1>1, <2>1, <2>5, <3>1, <3>2, HeldIs DEF IInv, HeldOK
    <3> QED BY <2>4, <3>3 DEF Free
  <2> QED BY <2>1, <2>4, <2>5, <2>6 DEF Pending, Active, Tells
<1> QED BY <1>1, Invariant, PTL DEF Spec, CompletesInformed
=============================================================================
