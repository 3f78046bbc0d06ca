----------------------------- MODULE ThreadStream -----------------------------
(***************************************************************************)
(* One connection from a Server to a terminal client and the projection of *)
(* a thread that the client keeps: the writer of server-connection.ts with *)
(* its budget, its waiters and its response barrier, the thread that       *)
(* publishes its records (features/thread/state.ts), and ThreadClient,     *)
(* which applies the notifications and resumes the thread after a gap.     *)
(*                                                                         *)
(* The budget counts messages and bytes; here a message has units, which   *)
(* stand for both.  A message that the transport has taken is received in  *)
(* the same step, and the client has subscribed when the model begins.     *)
(***************************************************************************)
EXTENDS Naturals, Sequences, FiniteSets, SequencesExt

CONSTANTS
  Capacity,    \* maxOutboundMessages, maxOutboundBytes
  Reserved,    \* reservedResponseMessages, reservedResponseBytes
  MaxWaiters,  \* how many messages may wait for capacity
  Units,       \* the sizes of a notification
  Answers,     \* the sizes of a response, which may be a whole snapshot
  MaxSeq,      \* bound: how many records the thread gets
  MaxRequests  \* bound: how many requests the user causes

\* assertConnectionLimits, and messages that fit.
Limits ==
  /\ Capacity \in Nat /\ Reserved \in 1..(Capacity - 1)
  /\ MaxWaiters \in Nat /\ Units \subseteq 1..(Capacity - Reserved)
                        /\ Answers \subseteq 1..Capacity
Bounds == MaxSeq \in Nat /\ MaxRequests \in Nat

VARIABLES
  seq,       \* the sequence number of the thread
  phase,     \* of the connection
  writer,    \* the ProtocolMessageWriter
  inbound,   \* requests that the Server has received and not begun
  handling,  \* the request that the Server handles
  client,    \* the projection of the ThreadClient
  requests,  \* how many requests the user has caused
  causes     \* history: what the properties except

vars == <<seq, phase, writer, inbound, handling, client, requests, causes>>

\* Requests of which the projection learns nothing: a compaction, which runs a
\* model, and its interruption.
Commands == {"compact", "interrupt"}

Record(n, u) == [kind |-> "record", seq |-> n, units |-> u]
Response(to, n, u) == [kind |-> "response", seq |-> n, units |-> u, to |-> to]
IsResponse(m) == m.kind = "response"

Init ==
  /\ seq = 0 /\ phase = "open"
  /\ writer = [total |-> 0, ordinary |-> 0, queue |-> <<>>, barrier |-> FALSE, held |-> <<>>,
               responseWaiters |-> <<>>, ordinaryWaiters |-> <<>>]
  /\ inbound = <<>> /\ handling = "none"
  /\ client = [seq |-> 0, applied |-> {}, stale |-> FALSE, recovering |-> FALSE]
  /\ requests = 0
  /\ causes = {}

-----------------------------------------------------------------------------
(***************************************************************************)
(* The writer                                                              *)
(***************************************************************************)

CanAdmit(w, m) ==
  /\ w.total + m.units <= Capacity
  /\ IsResponse(m) \/ w.ordinary + m.units <= Capacity - Reserved

Reserve(w, m) ==
  [w EXCEPT !.total = @ + m.units,
            !.ordinary = IF IsResponse(m) THEN @ ELSE @ + m.units]

\* MUTANT of WriteAdmitted: a notification is sent although a request is
\* handled.
WriteAdmittedAtOnce(w, m) ==
  IF w.barrier /\ IsResponse(m)
  THEN [w EXCEPT !.barrier = FALSE, !.held = <<>>, !.queue = Append(@, m) \o w.held]
  ELSE [w EXCEPT !.queue = Append(@, m)]

\* MUTANT of WriteAdmitted: what was held is dropped with the barrier.
WriteAdmittedDropping(w, m) ==
  IF ~w.barrier THEN [w EXCEPT !.queue = Append(@, m)]
  ELSE IF IsResponse(m) THEN [w EXCEPT !.barrier = FALSE, !.held = <<>>, !.queue = Append(@, m)]
  ELSE [w EXCEPT !.held = Append(@, m)]

\* writeAdmitted: what is not the response is held while a request is handled,
\* and follows the response.
WriteAdmitted(w, m) ==
  IF ~w.barrier THEN [w EXCEPT !.queue = Append(@, m)]
  ELSE IF IsResponse(m)
  THEN [w EXCEPT !.barrier = FALSE, !.held = <<>>, !.queue = Append(@, m) \o w.held]
  ELSE [w EXCEPT !.held = Append(@, m)]

Admit(w, m) == WriteAdmitted(Reserve(w, m), m)

Overloads(w, m) ==
  /\ ~IsResponse(m) /\ ~CanAdmit(w, m)
  /\ Len(w.responseWaiters) + Len(w.ordinaryWaiters) >= MaxWaiters

\* write and admit.
Write(w, m) ==
  IF CanAdmit(w, m) THEN Admit(w, m)
  ELSE IF IsResponse(m) THEN [w EXCEPT !.responseWaiters = Append(@, m)]
  ELSE [w EXCEPT !.ordinaryWaiters = Append(@, m)]

\* Served(w, ws)[k] is w after the first k of the waiters ws; the loop ends at
\* the first one that does not fit.
Served(w, ws) ==
  LET served[k \in 0..Len(ws)] == IF k = 0 THEN w ELSE Admit(served[k - 1], ws[k])
  IN  served
LoopEnds(w, ws) ==
  LET served == Served(w, ws)
  IN  CHOOSE k \in 0..Len(ws) :
        /\ \A j \in 1..k : CanAdmit(served[j - 1], ws[j])
        /\ k = Len(ws) \/ ~CanAdmit(served[k], ws[k + 1])
Loop(w, ws) ==
  LET k == LoopEnds(w, ws)
  IN  [w |-> Served(w, ws)[k], left |-> SubSeq(ws, k + 1, Len(ws))]

\* drainAdmissionWaiters: responses first.
DrainAdmissionWaiters(w) ==
  LET first  == Loop(w, w.responseWaiters)
      second == IF first.left = <<>> THEN Loop(first.w, w.ordinaryWaiters)
                ELSE [w |-> first.w, left |-> w.ordinaryWaiters]
  IN [second.w EXCEPT !.responseWaiters = first.left, !.ordinaryWaiters = second.left]

Freed(w, m) ==
  [w EXCEPT !.total = @ - m.units,
            !.ordinary = IF IsResponse(m) THEN @ ELSE @ - m.units]

Sum(s, P(_)) == FoldLeft(LAMBDA acc, m : IF P(m) THEN acc + m.units ELSE acc, 0, s)
Every(m) == TRUE
IsOrdinary(m) == ~IsResponse(m)

\* stopAccepting: the waiters are rejected, what is held is released, and what
\* was scheduled stays.
StopAccepting(w) ==
  [w EXCEPT !.total = @ - Sum(w.held, Every), !.ordinary = @ - Sum(w.held, IsOrdinary),
            !.barrier = FALSE, !.held = <<>>, !.responseWaiters = <<>>, !.ordinaryWaiters = <<>>]

-----------------------------------------------------------------------------
(***************************************************************************)
(* The client                                                              *)
(***************************************************************************)

\* MUTANT of Reduce: a gap is not noticed.
ReduceGapless(c, n) ==
  IF n <= c.seq THEN c ELSE [c EXCEPT !.seq = n, !.applied = @ \cup {n}]

\* reduceNotification: a notification behind a gap is applied all the same.
Reduce(c, n) ==
  IF n <= c.seq THEN c
  ELSE [c EXCEPT !.seq = n, !.applied = @ \cup {n}, !.stale = @ \/ n # c.seq + 1]

\* MUTANT of Recovers: a gap of one record is let pass.
RecoversLate(c, n) == n > c.seq + 2 /\ ~c.recovering

\* recover: one request at a time.
Recovers(c, n) == n > c.seq + 1 /\ ~c.recovering

\* A recovery may be refused, or be given up after requestTimeoutMs.
\* A snapshot replaces the projection, whatever it was requested for.
Answered(c, m) ==
  CASE m.to \in Commands -> c
    [] m.to = "refused"  -> [c EXCEPT !.recovering = FALSE]
    [] OTHER -> [c EXCEPT !.seq = m.seq, !.applied = 1..m.seq, !.stale = FALSE,
                          !.recovering = IF m.to = "resume" THEN FALSE ELSE @]

-----------------------------------------------------------------------------
(***************************************************************************)
(* Steps                                                                   *)
(***************************************************************************)

\* fail: the connection is closed by force, and the client told of an error.
Fails ==
  /\ phase' = "closed"
  /\ writer' = [StopAccepting(writer) EXCEPT !.queue = <<>>, !.total = 0, !.ordinary = 0]
  /\ inbound' = <<>> /\ handling' = "none"
  /\ client' = [client EXCEPT !.stale = TRUE, !.recovering = FALSE]
  /\ UNCHANGED <<requests, causes>>

\* applyPersistedRecord publishes the record to the subscribed connection.
Publish ==
  /\ seq < MaxSeq
  /\ seq' = seq + 1
  /\ \E u \in Units :
       IF phase # "open" THEN UNCHANGED <<phase, writer, inbound, handling, client, requests, causes>>
       ELSE IF Overloads(writer, Record(seq', u)) THEN Fails
       ELSE /\ writer' = Write(writer, Record(seq', u))
            /\ UNCHANGED <<phase, inbound, handling, client, requests, causes>>

\* handleMessage begins a barrier for each request, one at a time.
BeginRequest ==
  /\ phase = "open" /\ handling = "none" /\ inbound # <<>>
  /\ handling' = Head(inbound) /\ inbound' = Tail(inbound)
  /\ writer' = [writer EXCEPT !.barrier = TRUE]
  /\ UNCHANGED <<seq, phase, client, requests, causes>>

\* The handler returns, with the snapshot of the moment or an error, and its
\* response is written.
Respond ==
  /\ phase = "open" /\ handling \in {"resume", "read"} \cup Commands
  /\ \E to \in {handling} \cup (IF handling = "resume" THEN {"refused"} ELSE {}), u \in Answers :
       /\ writer' = Write(writer, Response(to, seq, u))
       /\ causes' = IF to = "refused" THEN causes \cup {"refused"} ELSE causes
  /\ handling' = "responding"
  /\ UNCHANGED <<seq, phase, inbound, client, requests>>

\* The transport takes the next message, and the client receives it.
Send ==
  /\ phase # "closed" /\ writer.queue # <<>>
  /\ LET m == Head(writer.queue)
         w == [writer EXCEPT !.queue = Tail(@)]
     IN /\ writer' = IF phase = "open" THEN DrainAdmissionWaiters(Freed(w, m)) ELSE Freed(w, m)
        /\ IF IsResponse(m)
           THEN /\ client' = Answered(client, m)
                /\ handling' = "none"
                /\ UNCHANGED inbound
           ELSE /\ client' = [Reduce(client, m.seq) EXCEPT
                                !.recovering = @ \/ Recovers(client, m.seq)]
                /\ inbound' = IF phase = "open" /\ Recovers(client, m.seq)
                              THEN Append(inbound, "resume") ELSE inbound
                /\ UNCHANGED handling
  /\ UNCHANGED <<seq, phase, requests, causes>>

\* loadHistory, or what the user commands.
Ask ==
  /\ phase = "open" /\ requests < MaxRequests
  /\ requests' = requests + 1
  /\ \E what \in {"read"} \cup Commands : inbound' = Append(inbound, what)
  /\ UNCHANGED <<seq, phase, writer, handling, client, causes>>

\* A message has waited for capacity for backpressureTimeoutMs.
TimesOut ==
  /\ phase = "open" /\ writer.responseWaiters \o writer.ordinaryWaiters # <<>>
  /\ Fails /\ UNCHANGED seq

\* The transport fails or does not take a message.
Break == phase # "closed" /\ Fails /\ UNCHANGED seq

\* The Server closes the connection, which sends what was scheduled.
Close ==
  /\ phase = "open"
  /\ phase' = "draining"
  /\ writer' = StopAccepting(writer)
  /\ inbound' = <<>> /\ handling' = "none"
  /\ UNCHANGED <<seq, client, requests, causes>>

Closed ==
  /\ phase = "draining" /\ writer.queue = <<>>
  /\ phase' = "closed"
  /\ client' = [client EXCEPT !.recovering = FALSE]
  /\ UNCHANGED <<seq, writer, inbound, handling, requests, causes>>

Next == Publish \/ BeginRequest \/ Respond \/ Send \/ Ask \/ TimesOut \/ Break \/ Close \/ Closed

\* Requests are handled and answered, the transport takes what is sent, and
\* the timer of what waits for ever fires.
Fairness == WF_vars(BeginRequest) /\ WF_vars(Respond) /\ WF_vars(Send) /\ WF_vars(TimesOut)

\* The model that a compaction has called may not answer.
RespondAtOnce == handling # "compact" /\ Respond
SilentFairness ==
  WF_vars(BeginRequest) /\ WF_vars(RespondAtOnce) /\ WF_vars(Send) /\ WF_vars(TimesOut)

Spec       == Init /\ [][Next]_vars
FairSpec   == Spec /\ Fairness
SilentSpec == Spec /\ SilentFairness

-----------------------------------------------------------------------------
(***************************************************************************)
(* Properties                                                              *)
(***************************************************************************)

Messages == [kind : {"record"}, seq : 1..MaxSeq, units : Units]
            \cup [kind : {"response"}, seq : 0..MaxSeq, units : Answers,
                  to : {"resume", "read", "refused"} \cup Commands]
AllOf(s, P(_)) == \A i \in 1..Len(s) : P(s[i])

\* The type of every variable: ProtocolMessageWriter, ServerConnection and
\* ClientProjection.
TypeOK ==
  /\ seq \in 0..MaxSeq
  /\ phase \in {"open", "draining", "closed"}
  /\ writer.total \in Nat /\ writer.ordinary \in Nat /\ writer.barrier \in BOOLEAN
  /\ LET message(m) == m \in Messages
         record(m)  == m \in Messages /\ m.kind = "record"
         respons(m) == m \in Messages /\ m.kind = "response"
     IN /\ AllOf(writer.queue, message) /\ AllOf(writer.held, record)
        /\ AllOf(writer.ordinaryWaiters, record) /\ AllOf(writer.responseWaiters, respons)
  /\ handling \in {"none", "resume", "read", "responding"} \cup Commands
  /\ client.seq \in 0..seq /\ client.applied \subseteq 1..seq
  /\ client.stale \in BOOLEAN /\ client.recovering \in BOOLEAN

\* The counters of the budget are what is scheduled and held, whichever way it
\* came there and whatever was closed, and keep the limits (server-connection.ts
\* admit, release and stopAccepting).
BudgetIsKept ==
  LET there == writer.queue \o writer.held
  IN /\ writer.total = Sum(there, Every)
     /\ writer.ordinary = Sum(there, IsOrdinary)
     /\ writer.total <= Capacity
     /\ writer.ordinary <= Capacity - Reserved

\* A response that waits has something to wait for: messages that are being
\* sent, and not those that its own barrier holds, unless it is larger than
\* what is reserved (reservedResponseMessages, reservedResponseBytes).
ResponseIsNotHeldUp ==
  writer.queue = <<>> => AllOf(writer.responseWaiters, LAMBDA m : m.units > Reserved)

\* A projection that is not stale lacks nothing up to its sequence number
\* (event-reducer.ts), although a small message may overtake a large one that
\* waits for capacity.
FreshIsComplete == ~client.stale => client.applied = 1..client.seq

\* The projection never goes back (thread-client.ts:257 and 113): the barrier
\* keeps every later notification behind the snapshot that replaces it.
NeverGoesBack == [][client'.seq >= client.seq]_vars

\* Every record reaches the client or the connection ends.
ArrivesOrCloses ==
  \A n \in 1..MaxSeq : seq = n ~> (client.seq >= n \/ phase # "open")

\* A stale projection is repaired, unless the thread cannot be resumed or the
\* connection ends (thread-client.ts recover).
StaleIsRepaired ==
  client.stale ~> (~client.stale \/ phase # "open" \/ "refused" \in causes)

\* A compaction that its user has interrupted ends, whether or not its model
\* answers: the interrupt is the way to stop it (ello-tui src/api/client.ts:71),
\* which the code does not keep.
CompactionIsInterrupted ==
  (handling = "compact" /\ \E i \in 1..Len(inbound) : inbound[i] = "interrupt")
    ~> handling # "compact"
=============================================================================
