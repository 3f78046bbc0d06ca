------------------------------ MODULE ThreadPool ------------------------------
(***************************************************************************)
(* One thread in the pool of a Server (features/thread/state.ts and        *)
(* threads.ts): who loads it, who is subscribed to it, what keeps it       *)
(* loaded and what unloads it, and the controllers its Server Requests are *)
(* sent to.                                                                *)
(*                                                                         *)
(* A connection handles one request at a time, and its handler goes on     *)
(* when the connection is closed.  What runs to its next await is a step;  *)
(* the callers of a load go on before any other event is looked at.  Each  *)
(* time the thread is loaded it gets a new state: a generation.            *)
(***************************************************************************)
EXTENDS Naturals, Sequences, FiniteSets, SequencesExt

CONSTANTS
  Conns,        \* the connections
  Controllers,  \* those that take Server Requests
  Nobody,       \* no connection
  Requests,     \* the Server Requests
  MaxGen        \* bound: how often the thread is loaded

ASSUME ControllersAssumption == Controllers \subseteq Conns /\ Nobody \notin Conns
ASSUME ConnsAssumption == IsFiniteSet(Conns)
ASSUME MaxGenAssumption == MaxGen \in Nat

VARIABLES
  current,   \* the generation that entries has, or 0
  loading,   \* the load that callers join
  lease,     \* the generation that holds the thread's lease, or 0
  states,    \* the generations
  conn,      \* the connections
  call,      \* what each connection's handler does
  request,   \* the Server Requests
  closing,   \* pool.close has been called
  stuck,     \* the close of a state has failed, or waits for ever
  causes     \* history: what the properties except

vars == <<current, loading, lease, states, conn, call, request, closing, stuck, causes>>

Gens == 1..MaxGen
Used == {g \in Gens : states[g].phase # "none"}

\* A ThreadState and its ThreadEntry.
NoState == [phase |-> "none", subscribers |-> <<>>, turn |-> FALSE,
            subscriptions |-> {}, holds |-> 0, timer |-> FALSE]

NotAsked == [conn |-> Nobody, tried |-> {}, failed |-> FALSE]

Init ==
  /\ current = 0 /\ loading = "no" /\ lease = 0
  /\ states = [g \in Gens |-> NoState]
  /\ conn = [c \in Conns |-> "open"]
  /\ call = [c \in Conns |-> [kind |-> "none", gen |-> 0]]
  /\ request = [r \in Requests |-> [phase |-> "none", gen |-> 0, ask |-> NotAsked, refused |-> FALSE]]
  /\ closing = FALSE /\ stuck = FALSE /\ causes = {}

Go(c, kind, g) == call' = [call EXCEPT ![c] = [kind |-> kind, gen |-> g]]
Calls(c, kind) == call[c].kind = kind
Free(c) == conn[c] = "open" /\ Calls(c, "none")

\* The callers of a load that has ended: they go on at once.
Ready == {c \in Conns : call[c].kind \in {"resumes", "operates"}}
Quiet == Ready = {}

Open == {c \in Conns : conn[c] = "open"}
Pending(g) == {r \in Requests : request[r].gen = g /\ request[r].phase = "pending"}

-----------------------------------------------------------------------------
(***************************************************************************)
(* The entry                                                               *)
(***************************************************************************)

\* The members of a sequence that are in S, in their order.
Kept(s, S) ==
  LET kept[n \in 0..Len(s)] ==
        IF n = 0 THEN <<>>
        ELSE IF s[n] \in S THEN Append(kept[n - 1], s[n]) ELSE kept[n - 1]
  IN  kept[Len(s)]

ScheduleUnload(s) ==
  IF s.subscriptions = {} /\ s.holds = 0 THEN [s EXCEPT !.timer = TRUE] ELSE s

\* attach, and the subscribe of the state.
Attached(s, c) ==
  IF c \in s.subscriptions THEN [s EXCEPT !.timer = FALSE]
  ELSE [s EXCEPT !.timer = FALSE, !.subscriptions = @ \cup {c}, !.subscribers = Append(@, c)]

\* unsubscribe and releaseConnection.
Detached(s, c) ==
  IF c \notin s.subscriptions THEN s
  ELSE ScheduleUnload([s EXCEPT !.subscriptions = @ \ {c}, !.subscribers = Kept(@, Conns \ {c})])

Busy(g) == states[g].holds > 0 \/ states[g].turn \/ Pending(g) # {}

\* MUTANT of Unloads: a thread that an operation uses may be unloaded.
UnloadsHeld(g) ==
  /\ ~(states[g].turn \/ Pending(g) # {})
  /\ current' = 0
  /\ states' = [states EXCEPT ![g].phase = "closing", ![g].timer = FALSE]

\* unloadNow, when it is not refused.
Unloads(g) ==
  /\ ~Busy(g)
  /\ current' = 0
  /\ states' = [states EXCEPT ![g].phase = "closing", ![g].timer = FALSE]

\* MUTANT of Refused: nobody looks again.
RefusedForGood(g) == states' = [states EXCEPT ![g].timer = FALSE]

\* A refused timer is set again.
Refused(g) ==
  LET s == [states[g] EXCEPT !.timer = FALSE] IN
  states' = [states EXCEPT ![g] = IF ~closing /\ current = g THEN ScheduleUnload(s) ELSE s]

\* The timer belongs to an entry, and unloads the one that entries has.
TimerFires(g) ==
  /\ Quiet /\ states[g].timer
  /\ IF current = 0 THEN states' = [states EXCEPT ![g].timer = FALSE] /\ UNCHANGED current
     ELSE \/ Unloads(current)
          \/ Busy(current) /\ Refused(g) /\ UNCHANGED current
  /\ UNCHANGED <<loading, lease, conn, call, request, closing, stuck, causes>>

\* archive and delete unload the thread whoever is subscribed.
Archive(c) ==
  /\ Quiet /\ Free(c) /\ current # 0
  /\ Unloads(current)
  /\ UNCHANGED <<loading, lease, conn, call, request, closing, stuck, causes>>

\* The state closes: requests are rejected, the turn ends, the subscribers go
\* and the lease is released last.
StateClosed(g) ==
  /\ Quiet /\ states[g].phase = "closing" /\ ~stuck
  /\ states' = [states EXCEPT ![g].phase = "closed", ![g].turn = FALSE, ![g].subscribers = <<>>]
  /\ request' = [r \in Requests |-> IF r \in Pending(g) THEN [request[r] EXCEPT !.phase = "over"]
                                    ELSE request[r]]
  /\ lease' = 0
  /\ UNCHANGED <<current, loading, conn, call, closing, stuck, causes>>

\* A record of the close cannot be written, the turn or the title fails, or the
\* run waits for the record of a compaction: the close does not come to the
\* lease, nor does anybody close the state again.
StateSticks(g) ==
  /\ Quiet /\ states[g].phase = "closing" /\ ~stuck
  /\ stuck' = TRUE
  /\ UNCHANGED <<current, loading, lease, states, conn, call, request, closing, causes>>

-----------------------------------------------------------------------------
(***************************************************************************)
(* Server Requests                                                         *)
(***************************************************************************)

Candidates(s, tried) == Kept(s.subscribers, Controllers \ tried)

\* requestWithFailover, from one controller to the next.  One whose connection
\* is closed fails, because its writer is closed; only the close itself says
\* that the controller is unavailable.
Dispatch(s, a, open) ==
  LET cs   == Candidates(s, a.tried)
      live == {i \in DOMAIN cs : cs[i] \in open} IN
  IF live = {} THEN [NotAsked EXCEPT !.failed = a.failed \/ cs # <<>>]
  ELSE LET i == CHOOSE i \in live : \A j \in live : i <= j IN
       [conn |-> cs[i], tried |-> a.tried \cup {cs[j] : j \in 1..i}, failed |-> a.failed \/ i > 1]

\* The request after a dispatch: rejected once a controller has failed and none
\* is left.
Dispatched(q, a) ==
  IF a.conn = Nobody /\ a.failed
  THEN [q EXCEPT !.phase = IF @ = "pending" THEN "rejected" ELSE @, !.ask = NotAsked]
  ELSE [q EXCEPT !.ask = a]

\* MUTANT of Redispatched: a new subscriber gets the requests of its own time.
RedispatchedNever(s, c, g) ==
  [r \in Requests |-> IF request[r].gen = g THEN [request[r] EXCEPT !.ask.tried = @ \ {c}]
                      ELSE request[r]]

\* subscribe dispatches what is pending and not dispatched; a controller that
\* comes back is a new one to the loops that go on.
Redispatched(s, c, g) ==
  [r \in Requests |->
     IF request[r].gen # g THEN request[r]
     ELSE IF c \in Controllers /\ r \in Pending(g) /\ request[r].ask.conn = Nobody
     THEN Dispatched(request[r], Dispatch(s, NotAsked, Open))
     ELSE [request[r] EXCEPT !.ask.tried = @ \ {c}]]

\* The run of the turn goes on until the close comes to it.
Alive(g) == states[g].phase \in {"open", "closing"}

\* A turn asks: the record is appended, then dispatched.
Create(g, r) ==
  /\ Quiet /\ Alive(g) /\ states[g].turn
  /\ request[r].phase = "none"
  /\ LET q == [request[r] EXCEPT !.phase = "pending", !.gen = g] IN
     request' = [request EXCEPT ![r] =
                   IF Candidates(states[g], {}) = <<>> THEN q
                   ELSE Dispatched(q, Dispatch(states[g], NotAsked, Open))]
  /\ UNCHANGED <<current, loading, lease, states, conn, call, closing, stuck, causes>>

\* The controller answers, with a result or with an error.
Answer(r) ==
  LET a == request[r].ask IN
  /\ Quiet /\ a.conn # Nobody /\ conn[a.conn] = "open"
  /\ \/ request' = [request EXCEPT ![r].phase = IF @ = "pending" THEN "resolved" ELSE @,
                                   ![r].ask = NotAsked]
     \/ request' = [request EXCEPT ![r] = Dispatched([@ EXCEPT !.refused = TRUE],
                      Dispatch(states[request[r].gen], [a EXCEPT !.failed = TRUE], Open))]
  /\ UNCHANGED <<current, loading, lease, states, conn, call, closing, stuck, causes>>

\* The turn is interrupted, or its task stopped: what is asked is over.
Cancel(r) ==
  /\ Quiet /\ request[r].phase = "pending"
  /\ request' = [request EXCEPT ![r].phase = "over"]
  /\ UNCHANGED <<current, loading, lease, states, conn, call, closing, stuck, causes>>

\* A record is published; a subscriber whose connection is closed is dropped.
Publish(g) ==
  /\ Quiet /\ Alive(g)
  /\ \E c \in Conns : conn[c] # "open" /\ c \in ToSet(states[g].subscribers)
  /\ states' = [states EXCEPT ![g].subscribers = Kept(@, Open)]
  /\ UNCHANGED <<current, loading, lease, conn, call, request, closing, stuck, causes>>

TurnEnds(g) ==
  /\ Quiet /\ Alive(g) /\ states[g].turn /\ Pending(g) = {}
  /\ states' = [states EXCEPT ![g].turn = FALSE]
  /\ UNCHANGED <<current, loading, lease, conn, call, request, closing, stuck, causes>>

-----------------------------------------------------------------------------
(***************************************************************************)
(* Loads                                                                   *)
(***************************************************************************)

\* load: the entry there is, the load there is, or a new one.
Load(c, joined, ready) ==
  \/ /\ current # 0 /\ Go(c, ready, current)
     /\ UNCHANGED loading
  \/ /\ current = 0 /\ Go(c, joined, 0)
     /\ loading' = IF loading = "no" THEN "acquires" ELSE loading

Resume(c) ==
  /\ Quiet /\ Free(c) /\ ~closing /\ Load(c, "awaits resume", "resumes")
  /\ UNCHANGED <<current, lease, states, conn, request, closing, stuck, causes>>

\* withState, for an operation that may load the thread and one that may not.
Operate(c) ==
  /\ Quiet /\ Free(c) /\ Load(c, "awaits operation", "operates")
  /\ UNCHANGED <<current, lease, states, conn, request, closing, stuck, causes>>

\* start and fork: a thread that nobody could have loaded before.
Start(c) ==
  /\ Quiet /\ Free(c) /\ ~closing /\ lease = 0 /\ Used = {} /\ 1 \in Gens
  /\ lease' = 1 /\ states' = [states EXCEPT ![1].phase = "reading"]
  /\ Go(c, "starts", 1)
  /\ UNCHANGED <<current, loading, conn, request, closing, stuck, causes>>

Waiting == {c \in Conns : call[c].kind \in {"awaits resume", "awaits operation"}}

Abandon == call' = [c \in Conns |-> IF c \in Waiting THEN [kind |-> "none", gen |-> 0] ELSE call[c]]

\* store.load takes the lease, unless a state that closes still has it.
LoadAcquires ==
  LET g == Cardinality(Used) + 1 IN
  /\ Quiet /\ loading = "acquires" /\ lease = 0 /\ g \in Gens
  /\ loading' = "reads" /\ lease' = g
  /\ states' = [states EXCEPT ![g].phase = "reading"]
  /\ UNCHANGED <<current, conn, call, request, closing, stuck, causes>>

\* MUTANT of LoadFails: the lease of a thread that cannot be read is kept.
LoadFailsKeeping ==
  /\ Quiet
  /\ \/ loading = "acquires" /\ lease # 0 /\ UNCHANGED states
     \/ loading = "reads" /\ states' = [states EXCEPT ![lease].phase = "closed"]
  /\ loading' = "no" /\ Abandon
  /\ UNCHANGED <<current, lease, conn, request, closing, stuck, causes>>

\* The lease is taken, or the thread cannot be read.
LoadFails ==
  /\ Quiet
  /\ \/ loading = "acquires" /\ lease # 0 /\ UNCHANGED <<lease, states>>
     \/ /\ loading = "reads" /\ lease' = 0
        /\ states' = [states EXCEPT ![lease].phase = "closed"]
  /\ loading' = "no" /\ Abandon
  /\ UNCHANGED <<current, conn, request, closing, stuck, causes>>

LoadReturns ==
  /\ Quiet /\ loading = "reads"
  /\ loading' = "no" /\ current' = lease
  /\ states' = [states EXCEPT ![lease] = ScheduleUnload([@ EXCEPT !.phase = "open"])]
  /\ call' = [c \in Conns |->
                CASE Calls(c, "awaits resume")    -> [kind |-> "resumes", gen |-> lease]
                  [] Calls(c, "awaits operation") -> [kind |-> "operates", gen |-> lease]
                  [] OTHER                        -> call[c]]
  /\ UNCHANGED <<lease, conn, request, closing, stuck, causes>>

\* The end of resume and of register.
Subscribe(c, g) ==
  LET s == Attached(states[g], c) IN
  /\ states' = [states EXCEPT ![g] = ScheduleUnload(s)]
  /\ request' = IF c \in states[g].subscriptions THEN request ELSE Redispatched(s, c, g)
  /\ causes' = IF conn[c] = "released" THEN causes \cup {"lateAttach"} ELSE causes

Resumed(c) ==
  /\ Calls(c, "resumes") /\ Subscribe(c, call[c].gen) /\ Go(c, "none", 0)
  /\ UNCHANGED <<current, loading, lease, conn, closing, stuck>>

Holds(c) ==
  /\ Calls(c, "operates") /\ Go(c, "holds", call[c].gen)
  /\ states' = [states EXCEPT ![call[c].gen].timer = FALSE, ![call[c].gen].holds = @ + 1]
  /\ UNCHANGED <<current, loading, lease, conn, request, closing, stuck, causes>>

\* The operation ends; the one of turn/start has begun a turn.
OperationEnds(c) ==
  LET g == call[c].gen IN
  /\ Quiet /\ Calls(c, "holds") /\ Go(c, "none", 0)
  /\ \E begins \in {FALSE, states[g].phase = "open"} :
       /\ states' = [states EXCEPT ![g] =
                       ScheduleUnload([states[g] EXCEPT !.holds = @ - 1, !.turn = @ \/ begins])]
       /\ causes' = IF begins /\ closing THEN causes \cup {"lateTurn"} ELSE causes
  /\ UNCHANGED <<current, loading, lease, conn, request, closing, stuck>>

\* The thread is created: pool.register.
Registered(c) ==
  LET s == [NoState EXCEPT !.phase = "open", !.subscriptions = {c}, !.subscribers = <<c>>] IN
  /\ Quiet /\ Calls(c, "starts") /\ Go(c, "none", 0)
  /\ current' = 1 /\ states' = [states EXCEPT ![1] = s]
  /\ causes' = IF conn[c] = "released" THEN causes \cup {"lateAttach"} ELSE causes
  /\ UNCHANGED <<loading, lease, conn, request, closing, stuck>>

-----------------------------------------------------------------------------
(***************************************************************************)
(* Connections                                                             *)
(***************************************************************************)

Unsubscribe(c) ==
  /\ Quiet /\ Free(c) /\ current # 0 /\ c \in states[current].subscriptions
  /\ states' = [states EXCEPT ![current] = Detached(@, c)]
  /\ UNCHANGED <<current, loading, lease, conn, call, request, closing, stuck, causes>>

\* The connection is closed: PersistentServerRequests.disconnect, and the
\* requests it was asked go to the next controller.
Close(c) ==
  /\ Quiet /\ conn[c] = "open"
  /\ conn' = [conn EXCEPT ![c] = "closed"]
  /\ request' = [r \in Requests |->
                   IF request[r].ask.conn # c THEN request[r]
                   ELSE Dispatched(request[r], Dispatch(states[request[r].gen], request[r].ask, Open \ {c}))]
  /\ UNCHANGED <<current, loading, lease, states, call, closing, stuck, causes>>

\* What was sent has drained; acceptTransport releases the connection.
Release(c) ==
  /\ Quiet /\ conn[c] = "closed"
  /\ conn' = [conn EXCEPT ![c] = "released"]
  /\ states' = IF current = 0 THEN states ELSE [states EXCEPT ![current] = Detached(@, c)]
  /\ UNCHANGED <<current, loading, lease, call, request, closing, stuck, causes>>

\* AgentServer.stop closes the connections, then the pool.
PoolClose ==
  /\ Quiet /\ ~closing /\ \A c \in Conns : conn[c] # "open"
  /\ closing' = TRUE /\ current' = 0
  /\ states' = IF current = 0 THEN states
               ELSE [states EXCEPT ![current].phase = "closing", ![current].timer = FALSE]
  /\ UNCHANGED <<loading, lease, conn, call, request, stuck, causes>>

-----------------------------------------------------------------------------

Work ==
  \/ LoadAcquires \/ LoadFails \/ LoadReturns
  \/ \E c \in Conns : Resumed(c) \/ Holds(c) \/ OperationEnds(c) \/ Registered(c) \/ Release(c)
  \/ \E g \in Gens : TimerFires(g) \/ StateClosed(g) \/ StateSticks(g)

Next ==
  \/ Work
  \/ \E c \in Conns : Resume(c) \/ Operate(c) \/ Start(c) \/ Unsubscribe(c) \/ Archive(c) \/ Close(c)
  \/ \E g \in Gens : TurnEnds(g) \/ Publish(g)
  \/ \E r \in Requests : Answer(r) \/ Cancel(r) \/ \E g \in Gens : Create(g, r)
  \/ PoolClose

Spec == Init /\ [][Next]_vars

\* Timers fire, calls to the file system and the operations end, and a closed
\* connection is released.
Fairness ==
  /\ WF_vars(LoadAcquires) /\ WF_vars(LoadFails) /\ WF_vars(LoadReturns)
  /\ \A c \in Conns : WF_vars(Resumed(c)) /\ WF_vars(Holds(c)) /\ WF_vars(OperationEnds(c))
                      /\ WF_vars(Registered(c)) /\ WF_vars(Release(c))
  /\ \A g \in Gens : WF_vars(TimerFires(g)) /\ WF_vars(StateClosed(g) \/ StateSticks(g))

FairSpec == Spec /\ Fairness

-----------------------------------------------------------------------------
(***************************************************************************)
(* Properties                                                              *)
(***************************************************************************)

TypeOK ==
  /\ current \in 0..MaxGen /\ lease \in 0..MaxGen /\ closing \in BOOLEAN /\ stuck \in BOOLEAN
  /\ loading \in {"no", "acquires", "reads"}
  /\ states \in [Gens -> [phase : {"none", "reading", "open", "closing", "closed"},
                          subscribers : Seq(Conns), turn : BOOLEAN, subscriptions : SUBSET Conns,
                          holds : 0..Cardinality(Conns), timer : BOOLEAN]]
  /\ \A g \in Gens : IsInjective(states[g].subscribers)
  /\ conn \in [Conns -> {"open", "closed", "released"}]
  /\ call \in [Conns -> [kind : {"none", "awaits resume", "awaits operation", "resumes", "operates",
                                 "holds", "starts"}, gen : 0..MaxGen]]
  /\ request \in [Requests -> [phase : {"none", "pending", "resolved", "rejected", "over"},
                               gen : 0..MaxGen, refused : BOOLEAN,
                               ask : [conn : Conns \cup {Nobody}, tried : SUBSET Conns,
                                      failed : BOOLEAN]]]
  /\ causes \subseteq {"lateAttach", "lateTurn"}

\* What entries has is an open state that holds the lease: nobody is given a
\* state that closes, and no second state is made beside one.
LoadedIsOpen == current # 0 => states[current].phase = "open" /\ lease = current

\* No state closes under an operation, a turn or a request, unless the Server
\* stops.
BusyIsNotUnloaded ==
  \A g \in Gens : states[g].phase \in {"closing", "closed"} /\ ~closing =>
    /\ \A c \in Conns : call[c].gen = g => ~Calls(c, "holds")
    /\ ~states[g].turn /\ Pending(g) = {}

\* The pool counts as subscribed those that the state publishes to.
SubscribersAgree ==
  current # 0 => \A c \in Conns : conn[c] = "open" =>
    (c \in states[current].subscriptions <=> c \in ToSet(states[current].subscribers))

\* A connection that is gone is not subscribed, unless its own resume ended
\* after it was released.
NoDeadSubscriber ==
  \/ "lateAttach" \in causes
  \/ current # 0 => \A c \in states[current].subscriptions : conn[c] # "released"

\* A request that waits is asked of a connection that is there, if any
\* controller is subscribed.
PendingIsAsked ==
  current # 0 => \A r \in Pending(current) :
    (\E c \in Controllers : conn[c] = "open" /\ c \in states[current].subscriptions) =>
      request[r].ask.conn # Nobody /\ conn[request[r].ask.conn] = "open"

\* Nobody is subscribed to the thread and nothing is to do for it.
Idle == /\ current # 0 /\ ~Busy(current)
        /\ \A c \in states[current].subscriptions : conn[c] = "released"

\* A thread that nobody uses is unloaded, also one whose load has ended after the
\* pool was closed, unless a connection that is gone is subscribed to it or a turn
\* has begun after the pool was closed (scheduleUnload does not look again then).
IdleIsUnloaded == Idle ~> (causes # {} \/ ~Idle)

\* Once the pool is closed the lease is given back.  pool.close does not wait for
\* a load that is on its way, whose thread is unloaded by its own timer.  Excepted
\* are a close of a state that fails or hangs, a connection that has subscribed to
\* the late thread although it is gone, and a turn that has begun there.
ClosedReleasesLease == closing ~> (lease = 0 \/ stuck \/ causes # {})

\* A request is rejected only because a client has refused it: a connection that
\* is closed hands it to the others, or it waits.
RejectedWasRefused ==
  \A r \in Requests : request[r].phase = "rejected" => request[r].refused
=============================================================================
