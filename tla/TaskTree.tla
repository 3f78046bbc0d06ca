------------------------------- MODULE TaskTree -------------------------------
(***************************************************************************)
(* What a terminal client shows of the background tasks of one root        *)
(* thread (ello-tui/src/client/agent-task-client.ts): the tree of          *)
(* summaries and the details it has read, kept up to date by notifications *)
(* (subagents/task-routes.ts) that carry the sequence number of the root.  *)
(* A gap makes the client subscribe again and read its details again.      *)
(*                                                                         *)
(* The sequence is the database's: what another Server records advances    *)
(* it and is notified to nobody here.  A change of a task adds one event,  *)
(* so a summary and a detail are the number of events they contain; a task *)
(* that is not there has none.                                             *)
(*                                                                         *)
(* Each subscription notifies its events one after the other, as fast as   *)
(* the connection takes them.  The answer to a request does not wait for   *)
(* them, and a subscription that was replaced still notifies what it has.  *)
(*                                                                         *)
(* A request may fail: the Server refuses it, or it times out at the       *)
(* client (ello-tui/src/api/client.ts), where its answer is then dropped,  *)
(* though the Server may carry it out.                                     *)
(***************************************************************************)
EXTENDS Naturals, Sequences, FiniteSets, SequencesExt

CONSTANTS
  Tasks,      \* the tasks of the root
  MaxChanges, \* bound: the changes of the tasks
  MaxCalls    \* bound: the calls of the user and the requests that fail, together

\* What an instance assumes of its constants.
Assumption == Tasks # {} /\ IsFiniteSet(Tasks) /\ MaxChanges \in Nat /\ MaxCalls \in Nat

VARIABLES
  events,  \* the Server's database: the events of each task
  root,    \* and the sequence of the root
  asks,    \* requests on their way to the Server
  results, \* results of stop and steer that are not yet sent
  pending, \* notifications that are not yet sent
  since,   \* the sequence of the root when the client last subscribed
  wire,    \* responses and notifications on their way to the client
  tree,    \* the client's tree: its sequence and its summaries
  details, \* what it has read of a task and appended: all the events, and those of the header
  reading, \* recoveryTask: "no", "tree", then "details"
  reread,  \* the details that recovery waits for
  calls,   \* how many calls the user has made and requests have failed
  told,    \* history: the events of each task that were notified
  missed   \* history: since the last snapshot a gap was noticed while details were read again, or a request failed

treeVars == <<events, root, asks, results, pending, since, wire, tree, details, reading, reread, calls, told, missed>>
client   == <<tree, details, reading, reread, missed>>

NoDetail == [all |-> 0, head |-> 0]
Nothing  == [t \in Tasks |-> 0]

\* The client has connected before the first task.
Init ==
  /\ events = Nothing /\ root = 0
  /\ asks = <<>> /\ results = {} /\ pending = {} /\ since = 0 /\ wire = <<>>
  /\ tree = [seq |-> 0, tasks |-> Nothing]
  /\ details = [t \in Tasks |-> NoDetail]
  /\ reading = "no" /\ reread = {}
  /\ calls = 0 /\ told = Nothing /\ missed = FALSE

Sends(message) == wire' = Append(wire, message)

\* appendChange: one transaction, and the listener notifies.
Change(t) ==
  /\ root < MaxChanges /\ root' = root + 1
  /\ events' = [events EXCEPT ![t] = @ + 1]
  /\ told' = [told EXCEPT ![t] = events'[t]]
  /\ pending' = pending \cup {[seq |-> root', task |-> t, n |-> events'[t], since |-> since]}
  /\ UNCHANGED <<asks, results, since, wire, calls, client>>

\* peer.notify, when the subscription has sent what it had before.
Notify(e) ==
  /\ \A before \in pending : before.seq < e.seq => before.seq <= e.since
  /\ pending' = pending \ {e}
  /\ Sends([is |-> "event", seq |-> e.seq, task |-> e.task, n |-> e.n])
  /\ UNCHANGED <<events, root, asks, results, since, calls, told, client>>

\* The transaction of another Server.
ChangeElsewhere(t) ==
  /\ root < MaxChanges /\ root' = root + 1
  /\ events[t] > 0
  /\ events' = [events EXCEPT ![t] = @ + 1]
  /\ UNCHANGED <<asks, results, pending, since, wire, calls, told, client>>

\* agent/task/subscribe and agent/task/read, which answer at once.
Answer ==
  /\ asks # <<>> /\ asks' = Tail(asks) /\ Head(asks).is # "late"
  /\ LET ask == Head(asks)
     IN /\ Sends(IF ask.is = "tree" THEN [is |-> "tree", seq |-> root, tasks |-> events]
                 ELSE [is |-> "detail", task |-> ask.task, n |-> events[ask.task], by |-> ask.by])
        /\ since' = IF ask.is = "tree" THEN root ELSE since
  /\ UNCHANGED <<events, root, results, pending, calls, told, client>>

\* They fail: subscribe before or after it has subscribed.
Refuse ==
  /\ asks # <<>> /\ asks' = Tail(asks) /\ Head(asks).is # "late"
  /\ Sends([is |-> "error", of |-> Head(asks)])
  /\ since' \in IF Head(asks).is = "tree" THEN {since, root} ELSE {since}
  /\ calls < MaxCalls /\ calls' = calls + 1
  /\ UNCHANGED <<events, root, results, pending, told, client>>

\* The Server is told of a subscribe that timed out, or finds it cancelled.
Late ==
  /\ asks # <<>> /\ asks' = Tail(asks) /\ Head(asks).is = "late"
  /\ since' \in {since, root}
  /\ UNCHANGED <<events, root, results, pending, wire, calls, told, client>>

\* agent/task/stop and steer: the summary may be old when it is sent.
StopOrSteer(t) ==
  /\ tree.tasks[t] > 0 /\ calls < MaxCalls /\ calls' = calls + 1
  /\ results' = results \cup {[is |-> "task", task |-> t, n |-> events[t]]}
  /\ UNCHANGED <<events, root, asks, pending, since, wire, told, client>>

Result(message) ==
  /\ results' = results \ {message}
  /\ Sends(message)
  /\ UNCHANGED <<events, root, asks, pending, since, calls, told, client>>

\* read.
Asks(t, by) == [is |-> "detail", task |-> t, by |-> by]
Read(t) ==
  /\ tree.tasks[t] > 0 /\ calls < MaxCalls /\ calls' = calls + 1
  /\ asks' = Append(asks, Asks(t, "user"))
  /\ UNCHANGED <<events, root, results, pending, since, wire, told, client>>

Receives(is) ==
  /\ wire # <<>> /\ Head(wire).is = is /\ wire' = Tail(wire)
  /\ UNCHANGED <<events, root, results, pending, since, calls, told>>

\* upsertTask.
Upsert(tasks, m) == [tasks EXCEPT ![m.task] = IF m.n > @ THEN m.n ELSE @]

\* A notification with the next sequence: the summary, and the event if the
\* task's detail is there and has all before it, which is read again otherwise.
NextEvent ==
  /\ Receives("event")
  /\ LET m == Head(wire)
         d == details[m.task]
     IN /\ m.seq \in {tree.seq, tree.seq + 1}
        /\ tree' = [seq |-> m.seq, tasks |-> Upsert(tree.tasks, m)]
        /\ details' = IF d # NoDetail /\ m.n = d.all + 1
                      THEN [details EXCEPT ![m.task].all = m.n] ELSE details
        /\ asks' = IF d # NoDetail /\ m.n > d.all + 1
                   THEN Append(asks, Asks(m.task, "event")) ELSE asks
  /\ UNCHANGED <<reading, reread, missed>>

\* An old one is dropped.
OldEvent ==
  /\ Receives("event")
  /\ Head(wire).seq < tree.seq
  /\ UNCHANGED <<asks, client>>

\* One after a gap is dropped, too, and recover subscribes again, unless a
\* recovery is under way.
GapEvent ==
  /\ Receives("event")
  /\ Head(wire).seq > tree.seq + 1
  /\ asks' = IF reading = "no" THEN Append(asks, [is |-> "tree"]) ELSE asks
  /\ reading' = IF reading = "no" THEN "tree" ELSE reading
  /\ missed' = (missed \/ reading = "details")
  /\ UNCHANGED <<tree, details, reread>>

\* MUTANT of Outdated: details are kept.
OutdatedNone(tasks) == {}

\* The details whose header is not the snapshot's.
Outdated(tasks) == {t \in Tasks : details[t] # NoDetail /\ details[t].head # tasks[t]}

\* recover with its snapshot.
ReceiveTree ==
  /\ Receives("tree")
  /\ LET m     == Head(wire)
         stale == Outdated(m.tasks)
     IN /\ tree' = [seq |-> m.seq, tasks |-> m.tasks] /\ missed' = FALSE
        /\ details' = [t \in Tasks |-> IF t \in stale THEN NoDetail ELSE details[t]]
        /\ reread' = stale
        /\ reading' = IF stale = {} THEN "no" ELSE "details"
        /\ \E order \in SetToSeqs(stale) :
             asks' = asks \o [i \in 1..Cardinality(stale) |-> Asks(order[i], "recovery")]

ReceiveDetail ==
  /\ Receives("detail")
  /\ LET m == Head(wire)
     IN /\ details' = [details EXCEPT ![m.task] = [all |-> m.n, head |-> m.n]]
        /\ reread' = IF m.by = "recovery" THEN reread \ {m.task} ELSE reread
        /\ reading' = IF m.by = "recovery" /\ reread' = {} THEN "no" ELSE reading
  /\ UNCHANGED <<asks, tree, missed>>

\* The request for the tree, or for a detail, ends with an error: recover gives
\* up, and a detail is left as it is.
Fails(ask) ==
  /\ missed' = (missed \/ ask.is = "tree" \/ ask.by = "event")
  /\ reread' = IF ask.is = "detail" /\ ask.by = "recovery" THEN reread \ {ask.task} ELSE reread
  /\ reading' = IF ask.is = "tree" \/ (ask.by = "recovery" /\ reread' = {}) THEN "no" ELSE reading
  /\ UNCHANGED <<tree, details>>

ReceiveError ==
  /\ Receives("error")
  /\ Fails(Head(wire).of)
  /\ UNCHANGED asks

\* RequestTimeoutError, before the Server has the request, or when its answer
\* is on its way.
AskTimesOut ==
  \E i \in 1..Len(asks) :
    /\ asks[i].is # "late" /\ Fails(asks[i])
    /\ asks' = IF asks[i].is = "tree" THEN ReplaceAt(asks, i, [is |-> "late"]) ELSE RemoveAt(asks, i)
    /\ calls < MaxCalls /\ calls' = calls + 1
    /\ UNCHANGED <<events, root, results, pending, since, wire, told>>

AnswerTimesOut ==
  \E i \in 1..Len(wire) :
    /\ \/ wire[i].is = "error" /\ Fails(wire[i].of)
       \/ wire[i].is \in {"tree", "detail"} /\ Fails(wire[i])
       \/ wire[i].is = "task" /\ UNCHANGED client
    /\ wire' = RemoveAt(wire, i)
    /\ calls < MaxCalls /\ calls' = calls + 1
    /\ UNCHANGED <<events, root, asks, results, pending, since, told>>

ReceiveTask ==
  /\ Receives("task")
  /\ tree' = [tree EXCEPT !.tasks = Upsert(@, Head(wire))]
  /\ UNCHANGED <<asks, details, reading, reread, missed>>

Next ==
  \/ \E t \in Tasks : Change(t) \/ ChangeElsewhere(t) \/ StopOrSteer(t) \/ Read(t)
  \/ \E e \in pending : Notify(e)
  \/ Answer \/ Refuse \/ Late \/ \E message \in results : Result(message)
  \/ NextEvent \/ OldEvent \/ GapEvent
  \/ ReceiveTree \/ ReceiveDetail \/ ReceiveTask \/ ReceiveError
  \/ AskTimesOut \/ AnswerTimesOut

Spec == Init /\ [][Next]_treeVars

-----------------------------------------------------------------------------
\* The type of every variable: the fields of AgentTaskClient.
TypeOK ==
  /\ events \in [Tasks -> Nat] /\ told \in [Tasks -> Nat] /\ root \in 0..MaxChanges
  /\ tree \in [seq : Nat, tasks : [Tasks -> Nat]]
  /\ details \in [Tasks -> [all : Nat, head : Nat]]
  /\ reading \in {"no", "tree", "details"} /\ reread \subseteq Tasks
  /\ calls \in 0..MaxCalls /\ missed \in BOOLEAN
  /\ results \subseteq [is : {"task"}, task : Tasks, n : Nat]

Quiet == wire = <<>> /\ asks = <<>> /\ pending = {}

Informed ==
  \A t \in Tasks : /\ tree.tasks[t] >= told[t]
                   /\ details[t] # NoDetail => details[t].all >= told[t]

\* When nothing is on its way the client shows all that it was notified of, in
\* the tree and in each detail it has, whatever gaps there were and requests
\* failed, unless since its last snapshot it noticed a gap while it was reading
\* details again (agent-task-client.ts:201), or a subscribe failed or a read for
\* an event that a detail could not take: nothing asks again before the next gap.
ShowsWhatItWasTold == Quiet /\ ~missed => Informed

\* The same without the exception, as docs/tui/subagent-navigation-and-runtime.md:190
\* has it: after a gap the client must subscribe or read again.
ShowsAllItWasTold == Quiet => Informed

\* The tree never goes back, and a detail loses events only when it is dropped
\* to be read again, however snapshots, details, notifications and late
\* results of stop follow each other.
TreeNeverGoesBack ==
  [][/\ tree'.seq >= tree.seq
     /\ \A t \in Tasks : /\ tree'.tasks[t] >= tree.tasks[t]
                         /\ details'[t] # NoDetail => details'[t].all >= details[t].all]_treeVars
=============================================================================
