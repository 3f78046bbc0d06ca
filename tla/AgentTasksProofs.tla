--------------------------- MODULE AgentTasksProofs ---------------------------
(***************************************************************************)
(* Proofs about AgentTasks, for any tasks and interrupts and any number of *)
(* restarts.                                                               *)
(*                                                                         *)
(* A stop and an interrupt act twice: they queue a cancel, and settle when *)
(* it has run.  In between the child goes on, so the invariant follows     *)
(* each question from the child over the queue to the thread (AsksOK), and *)
(* says what the queue has at most once (QueueOK).  A row is settled by    *)
(* whoever comes first; its run has seen that or will (RunsOK).  An        *)
(* interrupt has listed what runs, and nothing starts behind its barrier   *)
(* (HaltsOK); its second cancel comes behind whatever the listed tasks     *)
(* have asked, and they ask nothing more (ClearsOK).                       *)
(***************************************************************************)
EXTENDS AgentTasks, TLAPS

\* A mutation of the root thread, and the type of the queue that holds them.
Ops == [do : {"register", "cancel", "resolve"}, tasks : SUBSET Tasks, by : Tasks \cup Interrupters]

Types == TypeOK /\ queue \in Seq(Ops)

\* The mutations that register an interaction of t, and that cancel it.
Registers(t, k) == queue[k].do = "register" /\ queue[k].tasks = {t}
Cancels(t, k) == queue[k].do = "cancel" /\ t \in queue[k].tasks

\* What the queue has: a register for each interaction that is on its way, and
\* a cancel for each stop and each interrupt that waits for one.
QueueOK ==
  /\ \A t \in Tasks : ask[t] = "queued" <=> \E k \in 1..Len(queue) : Registers(t, k)
  /\ \A t \in Tasks : \A k, l \in 1..Len(queue) : Registers(t, k) /\ Registers(t, l) => k = l
  /\ \A k \in 1..Len(queue) : queue[k].do = "register" => \E t \in Tasks : queue[k].tasks = {t}
  /\ \A k \in 1..Len(queue) : queue[k].by \in Interrupters =>
       halt[queue[k].by].at \in {"cancelling", "clearing"}
  /\ \A k, l \in 1..Len(queue) : queue[k].by \in Interrupters /\ queue[k].by = queue[l].by => k = l

\* Whoever is stopped, or interrupted, has a row.
StartedOK ==
  /\ \A t \in Tasks : stopper[t] # "idle" => row[t] # "none"
  /\ \A k \in 1..Len(queue) : queue[k].do = "cancel" /\ queue[k].by \in Tasks => row[queue[k].by] # "none"
  /\ \A i \in Interrupters : \A t \in halt[i].active : row[t] # "none"

\* A terminal row has interrupted its run, or will when it is launched.
RunsOK ==
  "other" \notin causes => \A t \in Tasks : row[t] \in Terminal =>
    /\ child[t].at = "launching" => row[t] = "stopped"
    /\ child[t].at = "live" => child[t].interrupted

\* An interrupt has the tree to itself, and all that runs there on its list.
HaltsOK ==
  "overlap" \notin causes => \A i \in Interrupters : halt[i].at \in {"cancelling", "cancelled"} =>
    /\ cancelling /\ Active \subseteq halt[i].active
    /\ \A j \in Interrupters \ {i} : halt[j].at \notin {"cancelling", "cancelled"}

\* An interaction, from the child to the thread, has a run that waits for it; or
\* a run that was made to go on, and a cancel that comes behind.
AskOK(t) ==
  /\ ask[t] # "none" => t \notin pending /\ (child[t].waits \/ child[t].at = "over")
  /\ ask[t] = "emitted" => child[t].waits \/ row[t] \in Terminal
  /\ ask[t] = "queued" =>
       \/ child[t].waits
       \/ \E k, l \in 1..Len(queue) : k < l /\ Registers(t, k) /\ Cancels(t, l)
  /\ t \in pending =>
       \/ child[t].waits
       \/ child[t].at \in {"over", "gone"} /\ \E k \in 1..Len(queue) : Cancels(t, k)
AsksOK == \A t \in Tasks \ late : AskOK(t)

\* The second cancel of an interrupt comes behind whatever its tasks have asked.
ClearOK(i, t) ==
  /\ halt[i].at \in {"clearing", "cleared"} => row[t] \in Terminal
  /\ halt[i].at = "clearing" =>
       \E k \in 1..Len(queue) :
         /\ queue[k] = [do |-> "cancel", tasks |-> Tasks, by |-> i]
         /\ \A l \in k..Len(queue) : ~Registers(t, l)
  /\ halt[i].at = "cleared" => t \notin pending /\ ask[t] # "queued"
ClearsOK == \A i \in Interrupters : \A t \in halt[i].active : ClearOK(i, t)

IInv == Types /\ QueueOK /\ StartedOK /\ RunsOK /\ HaltsOK /\ AsksOK /\ ClearsOK

-----------------------------------------------------------------------------
\* What a mutation that is queued adds,
LEMMA Queued ==
  ASSUME queue \in Seq(Ops), NEW op \in Ops, queue' = Append(queue, op)
  PROVE  /\ queue' \in Seq(Ops) /\ Len(queue) \in Nat /\ Len(queue') = Len(queue) + 1
         /\ \A k \in 1..Len(queue) : queue'[k] = queue[k]
         /\ queue'[Len(queue) + 1] = op
  OBVIOUS

\* and one that runs takes.
LEMMA Ran ==
  ASSUME queue \in Seq(Ops), Runs
  PROVE  /\ queue' \in Seq(Ops) /\ Len(queue) \in Nat \ {0} /\ Len(queue') = Len(queue) - 1
         /\ \A k \in 1..Len(queue') : queue'[k] = queue[k + 1]
         /\ Op = queue[1] /\ Op \in Ops
  BY DEF Runs, Op

\* Where an interrupt of the root turn is, and the stop of a task.
Stages == {"idle", "cancelling", "cancelled", "clearing", "cleared", "failed"}
Stops  == {"idle", "waiting", "cancelled", "rejected"}

\* A run, and what it has to do with the row of its task.
Children == [at : {"none", "launching", "live", "over", "gone"}, waits : BOOLEAN, interrupted : BOOLEAN]
Fits(c, r) == (c.waits => c.at = "live") /\ (c.at = "none" <=> r = "none")

\* The run of t becomes c, and the other ones stay.
Becomes(t, c) ==
  /\ c \in Children /\ child' \in [Tasks -> Children]
  /\ child'[t] = c
  /\ \A u \in Tasks \ {t} : child'[u] = child[u]

\* EXCEPT replaces the one run,
LEMMA BecomesIs ==
  ASSUME Types, NEW t \in Tasks, NEW c \in Children, child' = [child EXCEPT ![t] = c]
  PROVE  Becomes(t, c)
BY DEF Becomes, Types, TypeOK, Children

\* and a run is made of its three fields.
LEMMA RecordIs ==
  \A c \in Children : c = [at |-> c.at, waits |-> c.waits, interrupted |-> c.interrupted]
BY DEF Children

\* The updates of the actions make these records.
LEMMA UpdateIs ==
  ASSUME NEW c \in Children, NEW at \in {"live", "over"}, NEW b \in BOOLEAN
  PROVE  /\ [c EXCEPT !.at = at] = [at |-> at, waits |-> c.waits, interrupted |-> c.interrupted]
         /\ [c EXCEPT !.waits = b] = [at |-> c.at, waits |-> b, interrupted |-> c.interrupted]
         /\ [c EXCEPT !.at = at, !.interrupted = b] = [at |-> at, waits |-> c.waits, interrupted |-> b]
         /\ [c EXCEPT !.waits = b, !.at = at] = [at |-> at, waits |-> b, interrupted |-> c.interrupted]
<1>1. [c EXCEPT !.at = at] = [at |-> at, waits |-> c.waits, interrupted |-> c.interrupted]
  <2> DEFINE d == [c EXCEPT !.at = at]
  <2>1. d \in Children /\ d.at = at /\ d.waits = c.waits /\ d.interrupted = c.interrupted
    BY DEF Children
  <2> QED BY <2>1, RecordIs
<1>2. [c EXCEPT !.waits = b] = [at |-> c.at, waits |-> b, interrupted |-> c.interrupted]
  <2> DEFINE d == [c EXCEPT !.waits = b]
  <2>1. d \in Children /\ d.at = c.at /\ d.waits = b /\ d.interrupted = c.interrupted
    BY DEF Children
  <2> QED BY <2>1, RecordIs
<1>3. [c EXCEPT !.at = at, !.interrupted = b] = [at |-> at, waits |-> c.waits, interrupted |-> b]
  <2> DEFINE d == [c EXCEPT !.at = at, !.interrupted = b]
  <2>1. d \in Children /\ d.at = at /\ d.waits = c.waits /\ d.interrupted = b
    BY DEF Children
  <2> QED BY <2>1, RecordIs
<1>4. [c EXCEPT !.waits = b, !.at = at] = [at |-> at, waits |-> b, interrupted |-> c.interrupted]
  <2> DEFINE d == [c EXCEPT !.waits = b, !.at = at]
  <2>1. d \in Children /\ d.at = at /\ d.waits = b /\ d.interrupted = c.interrupted
    BY DEF Children
  <2> QED BY <2>1, RecordIs
<1> QED BY <1>1, <1>2, <1>3, <1>4

\* What the run becomes when it is launched,
LEMMA LaunchedIs ==
  ASSUME Types, NEW t \in Tasks, Launched(t)
  PROVE  \E b \in BOOLEAN : /\ b <=> (row[t] = "stopped" \/ closing)
                          /\ Becomes(t, [at |-> "live", waits |-> FALSE, interrupted |-> b])
<1>1. PICK b \in BOOLEAN : b = (row[t] = "stopped" \/ closing)
  OBVIOUS
<1>2. child \in [Tasks -> Children] /\ child[t] \in Children /\ child[t].waits = FALSE /\ closing \in BOOLEAN
  BY DEF Launched, Types, TypeOK, Children
<1>3. child' = [child EXCEPT ![t] = [@ EXCEPT !.at = "live", !.interrupted = b]]
  BY <1>1 DEF Launched
<1>4. [child[t] EXCEPT !.at = "live", !.interrupted = b] = [at |-> "live", waits |-> FALSE, interrupted |-> b]
  BY <1>2, UpdateIs
<1>5. Becomes(t, [at |-> "live", waits |-> FALSE, interrupted |-> b])
  BY <1>2, <1>3, <1>4 DEF Becomes, Children
<1> QED BY <1>1, <1>5

\* when it asks,
LEMMA AsksIs ==
  ASSUME Types, NEW t \in Tasks, Asks(t)
  PROVE  Becomes(t, [at |-> "live", waits |-> TRUE, interrupted |-> FALSE])
<1>1. child \in [Tasks -> Children] /\ child[t] \in Children /\ child[t].at = "live" /\ child[t].interrupted = FALSE
  BY DEF Asks, Types, TypeOK, Children
<1>2. child' = [child EXCEPT ![t] = [@ EXCEPT !.waits = TRUE]]
  BY DEF Asks
<1>3. [child[t] EXCEPT !.waits = TRUE] = [at |-> "live", waits |-> TRUE, interrupted |-> FALSE]
  BY <1>1, UpdateIs
<1> QED BY <1>1, <1>2, <1>3 DEF Becomes, Children

\* when it ends,
LEMMA ChildEndsIs ==
  ASSUME Types, NEW t \in Tasks, ChildEnds(t)
  PROVE  Becomes(t, [at |-> "over", waits |-> FALSE, interrupted |-> child[t].interrupted])
<1>1. child \in [Tasks -> Children] /\ child[t] \in Children /\ child[t].waits = FALSE
  BY DEF ChildEnds, Types, TypeOK, Children
<1>2. child' = [child EXCEPT ![t] = [@ EXCEPT !.at = "over"]]
  BY DEF ChildEnds
<1>3. [child[t] EXCEPT !.at = "over"] = [at |-> "over", waits |-> FALSE, interrupted |-> child[t].interrupted]
  BY <1>1, UpdateIs
<1> QED BY <1>1, <1>2, <1>3 DEF Becomes, Children

\* A run that is gone.
Over == [at |-> "gone", waits |-> FALSE, interrupted |-> FALSE]
\* The record of a run that is gone, as the actions build it.
LEMMA OverIs == NoChild \in Children /\ Over \in Children /\ [NoChild EXCEPT !.at = "gone"] = Over
<1>1. NoChild \in Children /\ Over \in Children
  BY DEF NoChild, Over, Children
<1>2. [NoChild EXCEPT !.at = "gone"] \in Children
  BY DEF NoChild, Children
<1>3. /\ [NoChild EXCEPT !.at = "gone"].at = "gone" /\ [NoChild EXCEPT !.at = "gone"].waits = FALSE
      /\ [NoChild EXCEPT !.at = "gone"].interrupted = FALSE
  BY DEF NoChild
<1> QED BY <1>1, <1>2, <1>3, RecordIs DEF Over

\* when its launch fails or its task is completed,
LEMMA GoneIs ==
  ASSUME Types, NEW t \in Tasks, LaunchFails(t) \/ Complete(t)
  PROVE  Becomes(t, Over)
<1>1. child' = [child EXCEPT ![t] = Over]
  BY DEF LaunchFails, Complete, Over, NoChild
<1> QED BY <1>1, BecomesIs DEF Over, Children

\* and when it goes on with its answer, or ends of it.
LEMMA ResumedIs ==
  ASSUME Types, NEW t \in Tasks, NEW at \in {"live", "over"}, Resumed(t, at)
  PROVE  /\ ~child[t].waits => child' = child
         /\ child[t].waits =>
              /\ child[t].at = "live"
              /\ Becomes(t, [at |-> at, waits |-> FALSE, interrupted |-> child[t].interrupted])
<1>1. child \in [Tasks -> Children] /\ child[t] \in Children /\ (child[t].waits => child[t].at = "live")
  BY DEF Types, TypeOK, Children
<1>2. [child[t] EXCEPT !.waits = FALSE, !.at = at] = [at |-> at, waits |-> FALSE, interrupted |-> child[t].interrupted]
  BY <1>1, UpdateIs
<1>3. ASSUME child[t].waits
      PROVE  Becomes(t, [at |-> at, waits |-> FALSE, interrupted |-> child[t].interrupted])
  <2>1. child' = [child EXCEPT ![t] = [@ EXCEPT !.waits = FALSE, !.at = at]]
    BY <1>3 DEF Resumed
  <2> QED BY <2>1, <1>1, <1>2 DEF Becomes, Children
<1>4. ~child[t].waits => child' = child
  BY DEF Resumed
<1> QED BY <1>1, <1>3, <1>4

\* A run that is interrupted, and one that is rejected.
LEMMA InterruptedIs ==
  ASSUME NEW cs \in [Tasks -> Children], NEW S
  PROVE  /\ Interrupted(cs, S) \in [Tasks -> Children]
         /\ \A t \in Tasks :
              /\ (t \notin S \/ cs[t].at # "live") => Interrupted(cs, S)[t] = cs[t]
              /\ t \in S /\ cs[t].at = "live" =>
                   /\ Interrupted(cs, S)[t].at = IF cs[t].waits THEN "over" ELSE "live"
                   /\ ~Interrupted(cs, S)[t].waits /\ Interrupted(cs, S)[t].interrupted
BY DEF Interrupted, Children

\* A rejection ends a run that waits, with the interruption it has seen.
LEMMA RejectedIs ==
  ASSUME NEW cs \in [Tasks -> Children], NEW S
  PROVE  /\ Rejected(cs, S) \in [Tasks -> Children]
         /\ \A t \in Tasks :
              /\ (t \notin S \/ ~cs[t].waits) => Rejected(cs, S)[t] = cs[t]
              /\ t \in S /\ cs[t].waits =>
                   Rejected(cs, S)[t] = [at |-> "over", waits |-> FALSE, interrupted |-> cs[t].interrupted]
<1>1. \A t \in Tasks : cs[t] \in Children
  OBVIOUS
<1>2. \A t \in Tasks : t \in S /\ cs[t].waits =>
        /\ Rejected(cs, S)[t] = [at |-> "over", waits |-> FALSE, interrupted |-> cs[t].interrupted]
        /\ Rejected(cs, S)[t] \in Children
  <2> TAKE t \in Tasks
  <2> HAVE t \in S /\ cs[t].waits
  <2>1. Rejected(cs, S)[t] = [cs[t] EXCEPT !.waits = FALSE, !.at = "over"]
    BY DEF Rejected
  <2> QED BY <2>1, <1>1, UpdateIs DEF Children
<1>3. \A t \in Tasks : (t \notin S \/ ~cs[t].waits) => Rejected(cs, S)[t] = cs[t]
  BY DEF Rejected
<1>4. \A t \in Tasks : Rejected(cs, S)[t] \in Children
  BY <1>1, <1>2, <1>3
<1> QED BY <1>2, <1>3, <1>4 DEF Rejected

\* The status of a row.
Rows == Terminal \cup {"none", "running"}
\* A settlement gives its status to the rows that are not terminal.
LEMMA SettledIs ==
  ASSUME NEW rows \in [Tasks -> Rows], NEW S, NEW status \in Terminal
  PROVE  /\ Settled(rows, S, status) \in [Tasks -> Rows]
         /\ \A t \in Tasks : /\ t \in S /\ rows[t] \notin Terminal => Settled(rows, S, status)[t] = status
                             /\ t \notin S \/ rows[t] \in Terminal => Settled(rows, S, status)[t] = rows[t]
BY DEF Settled, Rows

\* A row that is active is neither terminal nor missing.
LEMMA RowsAre ==
  /\ {"ended", "failed", "stopped"} \subseteq Terminal /\ "none" \notin Terminal /\ "running" \notin Terminal
  /\ \A t \in Tasks : t \in Active <=> row[t] = "running"
  /\ Active \subseteq Tasks
BY DEF Terminal, Active

\* The type, and the type of the queue once more.
TypesButQueue ==
  /\ row \in [Tasks -> Rows]
  /\ child \in [Tasks -> Children]
  /\ \A t \in Tasks : Fits(child[t], row[t])
  /\ ask \in [Tasks -> {"none", "emitted", "queued"}]
  /\ loaded \in BOOLEAN /\ pending \subseteq Tasks /\ forgotten \subseteq pending
  /\ stopper \in [Tasks -> Stops]
  /\ halt \in [Interrupters -> [at : Stages, active : SUBSET Tasks]]
  /\ cancelling \in BOOLEAN /\ closing \in BOOLEAN
  /\ troubles \in 0..MaxTroubles
  /\ late \subseteq Tasks
  /\ causes \subseteq {"overlap", "other"}

\* What each mutation of the queue is made of.
LEMMA OpsAre ==
  ASSUME queue \in Seq(Ops)
  PROVE  \A k \in 1..Len(queue) : /\ queue[k].do \in {"register", "cancel", "resolve"}
                                  /\ queue[k].tasks \subseteq Tasks
                                  /\ queue[k].by \in Tasks \cup Interrupters
<1>1. \A k \in 1..Len(queue) : queue[k] \in Ops
  OBVIOUS
<1> QED BY <1>1 DEF Ops

\* The two forms of the type say the same.
LEMMA TypesAre == Types <=> TypesButQueue /\ queue \in Seq(Ops)
<1>1. queue \in Seq(Ops) => \A k \in 1..Len(queue) : /\ queue[k].do \in {"register", "cancel", "resolve"}
                                                   /\ queue[k].tasks \subseteq Tasks
                                                   /\ queue[k].by \in Tasks \cup Interrupters
  BY OpsAre
<1>2. row \in [Tasks -> Rows] <=> row \in [Tasks -> Terminal \cup {"none", "running"}]
  BY DEF Rows
<1> QED BY <1>1, <1>2 DEF Types, TypeOK, TypesButQueue, Children, Fits, Stages, Stops

\* The run of t becomes c, which fits its row.
LEMMA FitsStep ==
  ASSUME TypesButQueue, NEW t \in Tasks, NEW c, Becomes(t, c), Fits(c, row'[t]),
         \A u \in Tasks \ {t} : row'[u] = row[u]
  PROVE  child' \in [Tasks -> Children] /\ \A u \in Tasks : Fits(child'[u], row'[u])
BY DEF TypesButQueue, Becomes

\* Runs that are rejected end, and fit their rows still.
LEMMA RejectedFits ==
  ASSUME Types, NEW S
  PROVE  /\ Rejected(child, S) \in [Tasks -> Children]
         /\ \A u \in Tasks : /\ u \notin S => Rejected(child, S)[u] = child[u]
                             /\ Rejected(child, S)[u] = child[u] \/ Rejected(child, S)[u].at = "over"
                             /\ Fits(Rejected(child, S)[u], row[u])
<1>1. child \in [Tasks -> Children] /\ \A u \in Tasks : Fits(child[u], row[u])
  BY TypesAre DEF TypesButQueue
<1>2. Rejected(child, S) \in [Tasks -> Children]
  BY <1>1, RejectedIs
<1>3. \A u \in Tasks : (u \notin S \/ ~child[u].waits) => Rejected(child, S)[u] = child[u]
  BY <1>1 DEF Rejected
<1>4. \A u \in Tasks : u \in S /\ child[u].waits =>
        Rejected(child, S)[u].at = "over" /\ ~Rejected(child, S)[u].waits
  BY <1>1 DEF Rejected, Children
<1>5. \A u \in Tasks : Fits(Rejected(child, S)[u], row[u])
  BY <1>1, <1>3, <1>4 DEF Fits
<1> QED BY <1>2, <1>3, <1>4, <1>5

\* Every step keeps the types; a run fits its row, since a task that is stopped
\* or settled has been started.
LEMMA TypesStep == Types /\ StartedOK /\ [Next]_vars => Types'
<1> SUFFICES ASSUME Types, StartedOK, [Next]_vars PROVE (TypesButQueue /\ queue \in Seq(Ops))'
  BY TypesAre, PTL
<1> DEFINE Fine == TypesButQueue /\ queue \in Seq(Ops)
<1> USE TasksAssumption, TroublesAssumption, RowsAre
<1>1. Fine
  BY TypesAre
<1>a. row \in [Tasks -> Rows] /\ child \in [Tasks -> Children] /\ \A u \in Tasks : Fits(child[u], row[u])
  BY <1>1 DEF TypesButQueue
<1>2. ASSUME NEW t \in Tasks, Start(t) PROVE Fine'
  BY <1>1, <1>2 DEF Start, thread, requests, halting, history, Rows, Fits, Children, TypesButQueue
<1>3. ASSUME NEW t \in Tasks, Launched(t) PROVE Fine'
  <2>1. \A b \in BOOLEAN : Fits([at |-> "live", waits |-> FALSE, interrupted |-> b], row'[t])
    BY <1>a, <1>3 DEF Launched, Fits
  <2>2. child' \in [Tasks -> Children] /\ \A u \in Tasks : Fits(child'[u], row'[u])
    BY <2>1, <1>1, <1>3, LaunchedIs, FitsStep DEF Launched
  <2> QED BY <2>2, <1>1, <1>3 DEF Launched, thread, requests, halting, history, TypesButQueue
<1>4. ASSUME NEW t \in Tasks, LaunchFails(t) PROVE Fine'
  <2>1. /\ row' \in [Tasks -> Rows]
        /\ row'[t] # "none" /\ \A u \in Tasks \ {t} : row'[u] = row[u]
    BY <1>a, <1>4, SettledIs DEF LaunchFails
  <2>2. Fits(Over, row'[t])
    BY <2>1 DEF Fits, Over
  <2>3. child' \in [Tasks -> Children] /\ \A u \in Tasks : Fits(child'[u], row'[u])
    BY <2>1, <2>2, <1>1, <1>4, GoneIs, FitsStep
  <2> QED BY <2>1, <2>3, <1>1, <1>4 DEF LaunchFails, thread, requests, halting, history, TypesButQueue
<1>5. ASSUME NEW t \in Tasks, Asks(t) PROVE Fine'
  <2>1. Fits([at |-> "live", waits |-> TRUE, interrupted |-> FALSE], row'[t])
    BY <1>a, <1>5 DEF Asks, Fits
  <2>2. child' \in [Tasks -> Children] /\ \A u \in Tasks : Fits(child'[u], row'[u])
    BY <2>1, <1>1, <1>5, AsksIs, FitsStep DEF Asks
  <2> QED BY <2>2, <1>1, <1>5 DEF Asks, thread, requests, halting, history, TypesButQueue
<1>c. ASSUME NEW t \in Tasks, NotForwarded(t), UNCHANGED row
      PROVE  /\ child' \in [Tasks -> Children] /\ \A u \in Tasks : Fits(child'[u], row'[u])
             /\ ask' \in [Tasks -> {"none", "emitted", "queued"}]
  <2>1. child' = Rejected(child, {t}) /\ ask' = [ask EXCEPT ![t] = "none"]
    BY <1>c DEF NotForwarded
  <2> QED BY <2>1, <1>1, <1>c, RejectedFits DEF TypesButQueue
<1>6. ASSUME NEW t \in Tasks, Forward(t) PROVE Fine'
  <2>1. CASE row[t] \in Terminal
    BY <2>1, <1>1, <1>6 DEF Forward, requests, halting, history, TypesButQueue
  <2>2. CASE row[t] \notin Terminal /\ loaded
    <3> DEFINE op == [do |-> "register", tasks |-> {t}, by |-> t]
    <3>1. op \in Ops
      BY DEF Ops
    <3>2. queue' \in Seq(Ops)
      BY <3>1, <2>2, <1>1, <1>6, Queued DEF Forward
    <3> QED BY <3>2, <2>2, <1>1, <1>6 DEF Forward, requests, halting, history, TypesButQueue
  <2>3. CASE row[t] \notin Terminal /\ ~loaded
    <3>1. NotForwarded(t) /\ UNCHANGED <<row, queue>>
      BY <2>3, <1>6 DEF Forward
    <3> QED BY <3>1, <1>1, <1>c, <1>6 DEF Forward, requests, halting, history, TypesButQueue
  <2> QED BY <2>1, <2>2, <2>3
<1>7. ASSUME NEW t \in Tasks, ChildEnds(t) PROVE Fine'
  <2>1. Fits([at |-> "over", waits |-> FALSE, interrupted |-> child[t].interrupted], row'[t])
    BY <1>a, <1>7 DEF ChildEnds, Fits
  <2>2. child' \in [Tasks -> Children] /\ \A u \in Tasks : Fits(child'[u], row'[u])
    BY <2>1, <1>1, <1>7, ChildEndsIs, FitsStep DEF ChildEnds
  <2> QED BY <2>2, <1>1, <1>7 DEF ChildEnds, thread, requests, halting, history, TypesButQueue
<1>8. ASSUME NEW t \in Tasks, Complete(t) PROVE Fine'
  <2>1. /\ row' \in [Tasks -> Rows]
        /\ row'[t] # "none" /\ \A u \in Tasks \ {t} : row'[u] = row[u]
    BY <1>a, <1>8, SettledIs DEF Complete
  <2>2. Fits(Over, row'[t])
    BY <2>1 DEF Fits, Over
  <2>3. child' \in [Tasks -> Children] /\ \A u \in Tasks : Fits(child'[u], row'[u])
    BY <2>1, <2>2, <1>1, <1>8, GoneIs, FitsStep
  <2> QED BY <2>1, <2>3, <1>1, <1>8 DEF Complete, thread, requests, halting, history, TypesButQueue
<1>d. ASSUME Trouble PROVE troubles' \in 0..MaxTroubles
  BY <1>1, <1>d DEF Trouble, TypesButQueue
<1>9. ASSUME NEW t \in Tasks, Register(t) PROVE Fine'
  BY <1>1, <1>9, Ran DEF Register, halting, history, TypesButQueue
<1>21. ASSUME NEW t \in Tasks, RegisterFails(t) PROVE Fine'
  <2>1. NotForwarded(t) /\ UNCHANGED row /\ Trouble /\ Runs
    BY <1>21 DEF RegisterFails
  <2> QED BY <2>1, <1>1, <1>c, <1>d, <1>21, Ran DEF RegisterFails, requests, halting, TypesButQueue
<1>10. ASSUME NEW t \in Tasks, Answer(t) PROVE Fine'
  <2> DEFINE op == [do |-> "resolve", tasks |-> {t}, by |-> t]
  <2>1. op \in Ops
    BY DEF Ops
  <2>2. queue' \in Seq(Ops)
    BY <2>1, <1>1, <1>10, Queued DEF Answer
  <2> QED BY <2>2, <1>1, <1>10 DEF Answer, requests, halting, history, TypesButQueue
<1>e. ASSUME NEW t \in Tasks, NEW at \in {"live", "over"}, Resumed(t, at), UNCHANGED row
      PROVE  child' \in [Tasks -> Children] /\ \A u \in Tasks : Fits(child'[u], row'[u])
  <2>1. CASE child[t].waits
    <3>1. /\ Becomes(t, [at |-> at, waits |-> FALSE, interrupted |-> child[t].interrupted])
          /\ child[t].at = "live"
      BY <2>1, <1>e, ResumedIs
    <3>2. Fits([at |-> at, waits |-> FALSE, interrupted |-> child[t].interrupted], row'[t])
      BY <3>1, <1>a, <1>e DEF Fits
    <3> QED BY <3>1, <3>2, <1>1, <1>e, FitsStep
  <2>2. CASE ~child[t].waits
    BY <2>2, <1>a, <1>e, ResumedIs
  <2> QED BY <2>1, <2>2
<1>11. ASSUME NEW t \in Tasks, Resolve(t) PROVE Fine'
  <2>1. queue' \in Seq(Ops)
    BY <1>1, <1>11, Ran DEF Resolve
  <2>2. child' \in [Tasks -> Children] /\ \A u \in Tasks : Fits(child'[u], row'[u])
    BY <1>a, <1>e, <1>11 DEF Resolve
  <2> QED BY <2>1, <2>2, <1>1, <1>11 DEF Resolve, halting, history, TypesButQueue
<1>22. ASSUME NEW t \in Tasks, ResolveFails(t) PROVE Fine'
  <2>1. queue' \in Seq(Ops) /\ troubles' \in 0..MaxTroubles
    BY <1>1, <1>d, <1>22, Ran DEF ResolveFails
  <2>2. child' \in [Tasks -> Children] /\ \A u \in Tasks : Fits(child'[u], row'[u])
    BY <1>e, <1>22 DEF ResolveFails
  <2>3. forgotten' \subseteq pending /\ late' \subseteq Tasks
    BY <1>1, <1>22 DEF ResolveFails, TypesButQueue
  <2> QED BY <2>1, <2>2, <2>3, <1>1, <1>22 DEF ResolveFails, halting, TypesButQueue
<1>12. ASSUME Cancel PROVE Fine'
  <2>1. queue' \in Seq(Ops)
    BY <1>1, <1>12, Ran DEF Cancel
  <2>2. child' = Rejected(child, (pending \cap Op.tasks) \ forgotten) /\ UNCHANGED row
    BY <1>12 DEF Cancel
  <2>3. child' \in [Tasks -> Children] /\ \A u \in Tasks : Fits(child'[u], row'[u])
    BY <2>2, RejectedFits
  <2>4. stopper' \in [Tasks -> Stops]
    BY <1>1, <1>12 DEF Cancel, Returns, TypesButQueue, Stops
  <2>5. halt' \in [Interrupters -> [at : Stages, active : SUBSET Tasks]]
    <3>1. halt' = [i \in Interrupters |->
                     IF i # Op.by THEN halt[i]
                     ELSE [halt[i] EXCEPT !.at = IF @ = "cancelling" THEN "cancelled" ELSE "cleared"]]
      BY <1>12 DEF Cancel, Returns
    <3> QED BY <3>1, <1>1 DEF TypesButQueue, Stages
  <2> QED BY <2>1, <2>2, <2>3, <2>4, <2>5, <1>1, <1>12 DEF Cancel, history, TypesButQueue
<1>23. ASSUME CancelFails PROVE Fine'
  <2>1. queue' \in Seq(Ops) /\ troubles' \in 0..MaxTroubles /\ Op \in Ops
    BY <1>1, <1>d, <1>23, Ran DEF CancelFails
  <2>2. PICK done \in SUBSET (pending \cap Op.tasks) :
          /\ pending' = pending \ done /\ forgotten' = forgotten \ done
          /\ child' = Rejected(child, done \ forgotten)
          /\ late' = late \cup ((pending \cap Op.tasks) \ done)
    BY <1>23 DEF CancelFails
  <2>3. child' \in [Tasks -> Children] /\ \A u \in Tasks : Fits(child'[u], row'[u])
    BY <2>2, <1>23, RejectedFits DEF CancelFails
  <2>4. stopper' \in [Tasks -> Stops] /\ cancelling' \in BOOLEAN
    BY <1>1, <1>23 DEF CancelFails, GivesUp, TypesButQueue, Stops
  <2>5. halt' \in [Interrupters -> [at : Stages, active : SUBSET Tasks]]
    <3>1. halt' = [i \in Interrupters |-> IF i = Op.by THEN [halt[i] EXCEPT !.at = "failed"] ELSE halt[i]]
      BY <1>23 DEF CancelFails, GivesUp
    <3> QED BY <3>1, <1>1 DEF TypesButQueue, Stages
  <2>6. forgotten' \subseteq pending' /\ pending' \subseteq Tasks /\ late' \subseteq Tasks
    BY <2>2, <1>1 DEF TypesButQueue
  <2> QED BY <2>1, <2>3, <2>4, <2>5, <2>6, <1>1, <1>23 DEF CancelFails, TypesButQueue
<1>13. ASSUME NEW t \in Tasks, Stop(t) PROVE Fine'
  <2> DEFINE op == [do |-> "cancel", tasks |-> {t}, by |-> t]
  <2>1. op \in Ops
    BY DEF Ops
  <2>2. queue' \in Seq(Ops)
    BY <2>1, <1>1, <1>13, Queued DEF Stop
  <2> QED BY <2>2, <1>1, <1>13 DEF Stop, requests, history, TypesButQueue, Stops
<1>b. ASSUME NEW cs \in [Tasks -> Children], NEW S, \A u \in Tasks : Fits(cs[u], row[u]),
             \A u \in Tasks : row'[u] = "none" <=> row[u] = "none",
             child' = Interrupted(cs, S)
      PROVE  child' \in [Tasks -> Children] /\ \A u \in Tasks : Fits(child'[u], row'[u])
  BY <1>b, InterruptedIs DEF Fits
<1>14. ASSUME NEW t \in Tasks, StopSettles(t) PROVE Fine'
  <2>1. row' \in [Tasks -> Rows] /\ \A u \in Tasks : row'[u] = "none" <=> row[u] = "none"
    BY <1>a, <1>14, SettledIs DEF StopSettles, StartedOK
  <2>2. child' \in [Tasks -> Children] /\ \A u \in Tasks : Fits(child'[u], row'[u])
    BY <2>1, <1>a, <1>b, <1>14 DEF StopSettles
  <2> QED BY <2>1, <2>2, <1>1, <1>14 DEF StopSettles, thread, requests, TypesButQueue, Stops
<1>15. ASSUME NEW i \in Interrupters, Halt(i) PROVE Fine'
  <2> DEFINE op == [do |-> "cancel", tasks |-> Active, by |-> i]
  <2>1. op \in Ops
    BY DEF Ops
  <2>2. queue' \in Seq(Ops)
    BY <2>1, <1>1, <1>15, Queued DEF Halt
  <2> QED BY <2>1, <2>2, <1>1, <1>15 DEF Halt, requests, TypesButQueue, Stages
<1>16. ASSUME NEW i \in Interrupters, HaltSettles(i) PROVE Fine'
  <2> DEFINE op == [do |-> "cancel", tasks |-> Tasks, by |-> i]
  <2>1. op \in Ops
    BY DEF Ops
  <2>2. queue' \in Seq(Ops)
    BY <2>1, <1>1, <1>16, Queued DEF HaltSettles
  <2>3. row' \in [Tasks -> Rows] /\ \A u \in Tasks : row'[u] = "none" <=> row[u] = "none"
    BY <1>a, <1>16, SettledIs DEF HaltSettles, StartedOK
  <2>4. child' \in [Tasks -> Children] /\ \A u \in Tasks : Fits(child'[u], row'[u])
    BY <2>3, <1>a, <1>b, <1>16 DEF HaltSettles
  <2>5. halt' \in [Interrupters -> [at : Stages, active : SUBSET Tasks]]
    BY <1>1, <1>16 DEF HaltSettles, TypesButQueue, Stages
  <2>6. cancelling' \in BOOLEAN /\ UNCHANGED <<ask, loaded, pending, forgotten, stopper, closing, history>>
    BY <1>16 DEF HaltSettles, requests
  <2> HIDE DEF op
  <2> QED BY <2>2, <2>3, <2>4, <2>5, <2>6, <1>1 DEF history, TypesButQueue
<1>17. ASSUME Close PROVE Fine'
  <2>1. row' \in [Tasks -> Rows] /\ \A u \in Tasks : row'[u] = "none" <=> row[u] = "none"
    BY <1>a, <1>17, SettledIs DEF Close
  <2>4. child' \in [Tasks -> Children] /\ \A u \in Tasks : Fits(child'[u], row'[u])
    BY <2>1, <1>b, <1>17, RejectedFits DEF Close
  <2> QED BY <2>1, <2>4, <1>1, <1>17 DEF Close, halting, history, TypesButQueue
<1>18. ASSUME Restart PROVE Fine'
  <2>1. row' \in [Tasks -> Rows] /\ \A u \in Tasks : row'[u] = "none" <=> row[u] = "none"
    BY <1>a, <1>18, SettledIs DEF Restart
  <2>2. child' \in [Tasks -> Children] /\ \A u \in Tasks : Fits(child'[u], row'[u])
    <3>1. \A u \in Tasks : child'[u] = IF row[u] = "none" THEN NoChild ELSE [NoChild EXCEPT !.at = "gone"]
      BY <1>18 DEF Restart
    <3>2. NoChild \in Children /\ [NoChild EXCEPT !.at = "gone"] = Over /\ Over \in Children
      BY OverIs
    <3>3. child' = [u \in Tasks |-> IF row[u] = "none" THEN NoChild ELSE Over]
      BY <3>2, <1>18 DEF Restart
    <3>4. Fits(NoChild, "none") /\ \A r \in Rows \ {"none"} : Fits(Over, r)
      BY DEF Fits, NoChild, Over
    <3>5. \A u \in Tasks : /\ row[u] = "none" => child'[u] = NoChild /\ row'[u] = "none"
                           /\ row[u] # "none" => child'[u] = Over /\ row'[u] \in Rows \ {"none"}
      BY <2>1, <3>3
    <3>6. child' \in [Tasks -> Children]
      BY <3>2, <3>3
    <3>7. ASSUME NEW u \in Tasks PROVE Fits(child'[u], row'[u])
      BY <3>4, <3>5
    <3> QED BY <3>6, <3>7
  <2>3. halt' \in [Interrupters -> [at : Stages, active : SUBSET Tasks]]
    BY <1>1, <1>18 DEF Restart, TypesButQueue, Stages
  <2>4. queue' \in Seq(Ops)
    BY <1>18 DEF Restart
  <2>5. troubles' \in 0..MaxTroubles
    BY <1>1, <1>18 DEF Restart, Trouble, TypesButQueue
  <2> QED BY <2>1, <2>2, <2>3, <2>4, <2>5, <1>1, <1>18 DEF Restart, TypesButQueue, Stops
<1>19. ASSUME OtherStarts PROVE Fine'
  <2>1. row' \in [Tasks -> Rows] /\ \A u \in Tasks : row'[u] = "none" <=> row[u] = "none"
    BY <1>a, <1>19, SettledIs DEF OtherStarts
  <2> QED BY <2>1, <1>1, <1>19, <1>d DEF OtherStarts, thread, requests, halting, Fits, TypesButQueue
<1>24. ASSUME Unload \/ Load PROVE Fine'
  BY <1>1, <1>24 DEF Unload, Load, requests, halting, history, TypesButQueue
<1>20. CASE UNCHANGED vars
  BY <1>1, <1>20 DEF vars, TypesButQueue
<1> QED
  BY <1>2, <1>3, <1>4, <1>5, <1>6, <1>7, <1>8, <1>9, <1>10, <1>11, <1>12, <1>13, <1>14, <1>15, <1>16, <1>17, <1>18,
     <1>19, <1>20, <1>21, <1>22, <1>23, <1>24
     DEF Next, Mutation, Entering

-----------------------------------------------------------------------------
\* A row that is there stays, and a terminal one as it is.
RowMoves(t) ==
  /\ row[t] # "none" => row'[t] # "none"
  /\ row[t] \in Terminal => row'[t] = row[t]
  /\ row'[t] = "running" => row[t] = "running" \/ Start(t)

\* A row moves only from "none" to running to its one terminal status.
LEMMA RowsMove ==
  ASSUME Types, [Next]_vars, NEW t \in Tasks
  PROVE  RowMoves(t)
<1>1. row \in [Tasks -> Rows]
  BY TypesAre DEF TypesButQueue
<1>2. CASE UNCHANGED row
  BY <1>2 DEF RowMoves
<1>3. ASSUME NEW u \in Tasks, Start(u) PROVE RowMoves(t)
  <2>1. row[u] = "none" /\ row' = [row EXCEPT ![u] = "running"]
    BY <1>3 DEF Start
  <2>2. u = t \/ row'[t] = row[t]
    BY <2>1, <1>1
  <2> QED BY <2>1, <2>2, <1>1, <1>3, RowsAre DEF RowMoves
<1>4. ASSUME NEW S, NEW status \in Terminal, row' = Settled(row, S, status) PROVE RowMoves(t)
  BY <1>1, <1>4, SettledIs, RowsAre DEF RowMoves
<1>5. UNCHANGED row \/ (\E u \in Tasks : Start(u)) \/ (\E S : \E status \in Terminal : row' = Settled(row, S, status))
  BY RowsAre
     DEF Next, Mutation, Entering, Launched, LaunchFails, Asks, Forward, ChildEnds, Complete, Answer,
         Stop, StopSettles, Register, RegisterFails, Resolve, ResolveFails, Cancel, CancelFails, Halt, HaltSettles,
          Unload, Load, Close, Restart, OtherStarts, vars
<1> QED BY <1>2, <1>3, <1>4, <1>5

\* Whoever is stopped or interrupted has a row, and rows do not go away.
LEMMA StartedStep ==
  ASSUME Types, StartedOK, [Next]_vars
  PROVE  StartedOK'
<1> USE TasksAssumption, RowsAre
<1>1. \A t \in Tasks : row[t] # "none" => row'[t] # "none"
  BY RowsMove DEF RowMoves
<1>2. queue \in Seq(Ops) /\ \A k \in 1..Len(queue) : queue[k].by \in Tasks \cup Interrupters
  BY TypesAre, OpsAre
\* A cancel is added, or something else is, or something has run.
<1>3. ASSUME NEW op \in Ops, queue' = Append(queue, op), op.do = "cancel" /\ op.by \in Tasks => row[op.by] # "none"
      PROVE  \A k \in 1..Len(queue') : queue'[k].do = "cancel" /\ queue'[k].by \in Tasks => row'[queue'[k].by] # "none"
  <2>1. /\ Len(queue) \in Nat /\ Len(queue') = Len(queue) + 1
        /\ \A k \in 1..Len(queue) : queue'[k] = queue[k]
        /\ queue'[Len(queue) + 1] = op
    BY <1>2, <1>3, Queued
  <2>2. \A k \in 1..Len(queue') : queue'[k] = op \/ (k \in 1..Len(queue) /\ queue'[k] = queue[k])
    BY <2>1
  <2> QED BY <2>2, <1>1, <1>3 DEF StartedOK
<1>4. ASSUME Runs
      PROVE  /\ \A k \in 1..Len(queue') : queue'[k].do = "cancel" /\ queue'[k].by \in Tasks => row'[queue'[k].by] # "none"
             /\ Op.do = "cancel" /\ Op.by \in Tasks => row[Op.by] # "none"
  <2>1. /\ Len(queue) \in Nat \ {0} /\ Len(queue') = Len(queue) - 1
        /\ \A k \in 1..Len(queue') : queue'[k] = queue[k + 1]
        /\ Op = queue[1]
    BY <1>2, <1>4, Ran
  <2> QED BY <2>1, <1>1 DEF StartedOK
<1>5. ASSUME NEW op \in Ops, queue' = Append(queue, op), op.do # "cancel", UNCHANGED <<stopper, halt>>
      PROVE  StartedOK'
  BY <1>1, <1>3, <1>5 DEF StartedOK, Types, TypeOK
<1>6. CASE UNCHANGED <<queue, stopper, halt>>
  BY <1>1, <1>2, <1>6 DEF StartedOK, Types, TypeOK
<1>7. ASSUME NEW t \in Tasks, Forward(t) PROVE StartedOK'
  <2>1. CASE row[t] \in Terminal \/ ~loaded
    BY <2>1, <1>6, <1>7 DEF Forward, halting
  <2>2. CASE row[t] \notin Terminal /\ loaded
    <3> DEFINE op == [do |-> "register", tasks |-> {t}, by |-> t]
    <3>1. op \in Ops /\ op.do # "cancel"
      BY DEF Ops
    <3> QED BY <3>1, <2>2, <1>5, <1>7 DEF Forward, halting
  <2> QED BY <2>1, <2>2
<1>8. ASSUME NEW t \in Tasks, Answer(t) PROVE StartedOK'
  <2> DEFINE op == [do |-> "resolve", tasks |-> {t}, by |-> t]
  <2>1. op \in Ops /\ op.do # "cancel"
    BY DEF Ops
  <2> QED BY <2>1, <1>5, <1>8 DEF Answer, halting
<1>9. ASSUME NEW t \in Tasks, Register(t) \/ RegisterFails(t) \/ Resolve(t) \/ ResolveFails(t) PROVE StartedOK'
  <2>1. Runs /\ UNCHANGED <<stopper, halt>>
    BY <1>9 DEF Register, RegisterFails, Resolve, ResolveFails, halting
  <2> QED BY <2>1, <1>1, <1>4 DEF StartedOK, Types, TypeOK
<1>10. ASSUME Cancel PROVE StartedOK'
  <2>1. /\ \A t \in Tasks : stopper'[t] # "idle" => row'[t] # "none"
        /\ \A i \in Interrupters : halt'[i].active = halt[i].active
    BY <1>1, <1>4, <1>10 DEF StartedOK, Types, TypeOK, Cancel, Returns
  <2> QED BY <2>1, <1>1, <1>4, <1>10 DEF StartedOK, Types, TypeOK, Cancel
<1>17. ASSUME CancelFails PROVE StartedOK'
  <2>1. /\ \A t \in Tasks : stopper'[t] # "idle" => row'[t] # "none"
        /\ \A i \in Interrupters : halt'[i].active = halt[i].active
    BY <1>1, <1>4, <1>17, TypesAre DEF StartedOK, TypesButQueue, CancelFails, GivesUp
  <2> QED BY <2>1, <1>1, <1>4, <1>17 DEF StartedOK, Types, TypeOK, CancelFails
<1>11. ASSUME NEW t \in Tasks, Stop(t) PROVE StartedOK'
  <2> DEFINE op == [do |-> "cancel", tasks |-> {t}, by |-> t]
  <2>1. op \in Ops /\ op.by = t /\ row[t] # "none"
    BY <1>11 DEF Ops, Stop
  <2>2. \A u \in Tasks : stopper'[u] # "idle" => row'[u] # "none"
    BY <2>1, <1>1, <1>11 DEF StartedOK, Types, TypeOK, Stop
  <2>3. CASE loaded
    BY <2>1, <2>2, <2>3, <1>1, <1>3, <1>11 DEF StartedOK, Types, TypeOK, Stop
  <2>4. CASE ~loaded
    BY <2>2, <2>4, <1>1, <1>11 DEF StartedOK, Types, TypeOK, Stop
  <2> QED BY <2>3, <2>4
<1>12. ASSUME NEW t \in Tasks, StopSettles(t) PROVE StartedOK'
  <2>1. \A u \in Tasks : stopper'[u] # "idle" => row'[u] # "none"
    BY <1>1, <1>12 DEF StartedOK, Types, TypeOK, StopSettles
  <2>2. \A k \in 1..Len(queue) : queue[k].do = "cancel" /\ queue[k].by \in Tasks => row'[queue[k].by] # "none"
    BY <1>1 DEF StartedOK
  <2>3. \A i \in Interrupters : \A u \in halt[i].active : row'[u] # "none"
    BY <1>1 DEF StartedOK, Types, TypeOK
  <2> QED BY <2>1, <2>2, <2>3, <1>12 DEF StartedOK, StopSettles, thread, requests
<1>13. ASSUME NEW i \in Interrupters, Halt(i) PROVE StartedOK'
  <2> DEFINE op == [do |-> "cancel", tasks |-> Active, by |-> i]
  <2>1. op \in Ops /\ op.by \notin Tasks
    BY DEF Ops
  <2>2. \A j \in Interrupters : \A u \in halt'[j].active : row'[u] # "none"
    BY <1>1, <1>13 DEF StartedOK, Types, TypeOK, Halt
  <2> QED BY <2>1, <2>2, <1>1, <1>3, <1>13 DEF StartedOK, Types, TypeOK, Halt
<1>14. ASSUME NEW i \in Interrupters, HaltSettles(i) PROVE StartedOK'
  <2> DEFINE op == [do |-> "cancel", tasks |-> Tasks, by |-> i]
  <2>1. op \in Ops /\ op.by \notin Tasks
    BY DEF Ops
  <2>2. \A j \in Interrupters : halt'[j].active = halt[j].active /\ halt[j].active \subseteq Tasks
    BY <1>14 DEF Types, TypeOK, HaltSettles
  <2> QED BY <2>1, <2>2, <1>1, <1>3, <1>14 DEF StartedOK, Types, TypeOK, HaltSettles
<1>15. ASSUME Restart PROVE StartedOK'
  <2>1. \A j \in Interrupters : \A u \in halt'[j].active : u \in halt[j].active
    BY <1>15 DEF Types, TypeOK, Restart
  <2> QED BY <2>1, <1>1, <1>15 DEF StartedOK, Types, TypeOK, Restart
<1>16. UNCHANGED <<queue, stopper, halt>> \/ Cancel \/ CancelFails \/ Restart
       \/ (\E t \in Tasks : \/ Forward(t) \/ Answer(t) \/ Register(t) \/ RegisterFails(t) \/ Resolve(t) \/ ResolveFails(t)
                            \/ Stop(t) \/ StopSettles(t))
       \/ \E i \in Interrupters : Halt(i) \/ HaltSettles(i)
  BY DEF Next, Mutation, Entering, Start, Launched, LaunchFails, Asks, ChildEnds, Complete, Unload, Load, Close,
         OtherStarts, vars, thread, halting
<1> QED BY <1>6, <1>7, <1>8, <1>9, <1>10, <1>11, <1>12, <1>13, <1>14, <1>15, <1>16, <1>17

\* Forward adds the one register of a task, Halt and HaltSettles the one cancel
\* of an interrupt; each is there until it has run.
LEMMA QueueStep ==
  ASSUME Types, QueueOK, [Next]_vars
  PROVE  QueueOK'
<1> USE TasksAssumption
<1>1. /\ queue \in Seq(Ops) /\ \A k \in 1..Len(queue) : queue[k].by \in Tasks \cup Interrupters
      /\ ask \in [Tasks -> {"none", "emitted", "queued"}]
      /\ halt \in [Interrupters -> [at : Stages, active : SUBSET Tasks]]
  BY TypesAre, OpsAre DEF TypesButQueue
<1>2. \A t, u \in Tasks : {t} = {u} => t = u
  OBVIOUS
\* What is added, to a queue that has nothing of its kind.
<1>3. ASSUME NEW op \in Ops, queue' = Append(queue, op),
             op.do = "register" => /\ \E t \in Tasks : op.tasks = {t}
                                   /\ \A t \in Tasks : op.tasks = {t} => ask[t] # "queued",
             op.by \in Interrupters => halt[op.by].at \notin {"cancelling", "clearing"} /\ halt'[op.by].at \in {"cancelling", "clearing"},
             \A i \in Interrupters : i # op.by => halt'[i].at = halt[i].at,
             \A t \in Tasks : ask'[t] = "queued" <=> ask[t] = "queued" \/ (op.do = "register" /\ op.tasks = {t})
      PROVE  QueueOK'
  <2>1. PICK n : n = Len(queue) + 1
    OBVIOUS
  <2>2. /\ Len(queue) \in Nat /\ Len(queue') = n
        /\ \A k \in 1..Len(queue) : queue'[k] = queue[k]
        /\ queue'[n] = op
    BY <2>1, <1>1, <1>3, Queued
  <2>3. /\ \A k \in 1..n : k = n \/ (k \in 1..Len(queue) /\ queue'[k] = queue[k])
        /\ n \in 1..n /\ n \notin 1..Len(queue) /\ \A k \in 1..Len(queue) : k \in 1..n
    BY <2>1, <2>2
  <2>4. \A t \in Tasks : \A k \in 1..Len(queue) : Registers(t, k)' <=> Registers(t, k)
    BY <2>2 DEF Registers
  <2>5. \A t \in Tasks : Registers(t, n)' <=> op.do = "register" /\ op.tasks = {t}
    BY <2>2 DEF Registers
  <2>6. \A t \in Tasks : ask'[t] = "queued" <=> \E k \in 1..n : Registers(t, k)'
    BY <2>3, <2>4, <2>5, <1>3 DEF QueueOK
  <2>7. \A t \in Tasks : \A k, l \in 1..n : Registers(t, k)' /\ Registers(t, l)' => k = l
    BY <2>3, <2>4, <2>5, <1>3 DEF QueueOK
  <2>8. \A k \in 1..n : queue'[k].do = "register" => \E t \in Tasks : queue'[k].tasks = {t}
    BY <2>2, <2>3, <1>3 DEF QueueOK
  <2>9. \A k \in 1..n : queue'[k].by \in Interrupters => halt'[queue'[k].by].at \in {"cancelling", "clearing"}
    BY <2>2, <2>3, <1>3 DEF QueueOK
  <2>10. \A k, l \in 1..n : queue'[k].by \in Interrupters /\ queue'[k].by = queue'[l].by => k = l
    BY <2>2, <2>3, <1>3 DEF QueueOK
  <2> QED BY <2>2, <2>6, <2>7, <2>8, <2>9, <2>10 DEF QueueOK
\* What has run is gone.
<1>4. ASSUME Runs,
             \A i \in Interrupters : i # Op.by => halt'[i].at = halt[i].at,
             \A t \in Tasks : ask'[t] = "queued" <=> ask[t] = "queued" /\ ~(Op.do = "register" /\ Op.tasks = {t})
      PROVE  QueueOK'
  <2>1. /\ Len(queue) \in Nat \ {0} /\ Len(queue') = Len(queue) - 1
        /\ \A k \in 1..Len(queue') : queue'[k] = queue[k + 1]
        /\ Op = queue[1]
    BY <1>1, <1>4, Ran
  <2>2. /\ \A k \in 1..Len(queue') : k + 1 \in 1..Len(queue) /\ k + 1 # 1
        /\ \A k \in 1..Len(queue) : k = 1 \/ (k - 1 \in 1..Len(queue') /\ (k - 1) + 1 = k)
        /\ \A k, l \in 1..Len(queue') : k + 1 = l + 1 => k = l
        /\ 1 \in 1..Len(queue)
    BY <2>1
  <2>3. \A t \in Tasks : \A k \in 1..Len(queue') : Registers(t, k)' <=> Registers(t, k + 1)
    BY <2>1 DEF Registers
  <2>4. \A t \in Tasks : Registers(t, 1) <=> Op.do = "register" /\ Op.tasks = {t}
    BY <2>1 DEF Registers
  <2>5. ASSUME NEW t \in Tasks
        PROVE  ask'[t] = "queued" <=> \E k \in 1..Len(queue') : Registers(t, k)'
    <3>1. ask[t] = "queued" <=> \E k \in 1..Len(queue) : Registers(t, k)
      BY DEF QueueOK
    <3>2. \A k, l \in 1..Len(queue) : Registers(t, k) /\ Registers(t, l) => k = l
      BY DEF QueueOK
    <3>3. ask'[t] = "queued" <=> ask[t] = "queued" /\ ~Registers(t, 1)
      BY <2>4, <1>4
    <3>4. ASSUME NEW k \in 1..Len(queue'), Registers(t, k)' PROVE ask'[t] = "queued"
      <4>1. k + 1 \in 1..Len(queue) /\ Registers(t, k + 1) /\ k + 1 # 1
        BY <3>4, <2>2, <2>3
      <4>2. ~Registers(t, 1)
        BY <4>1, <3>2, <2>2
      <4> QED BY <4>1, <4>2, <3>1, <3>3
    <3>5. ASSUME ask'[t] = "queued" PROVE \E k \in 1..Len(queue') : Registers(t, k)'
      <4>1. PICK k \in 1..Len(queue) : Registers(t, k) /\ k # 1
        BY <3>1, <3>3, <3>5
      <4>2. k - 1 \in 1..Len(queue') /\ Registers(t, k - 1)'
        BY <4>1, <2>2, <2>3
      <4> QED BY <4>2
    <3> QED BY <3>4, <3>5
  <2>6. \A t \in Tasks : \A k, l \in 1..Len(queue') : Registers(t, k)' /\ Registers(t, l)' => k = l
    <3> TAKE t \in Tasks
    <3> TAKE k, l \in 1..Len(queue')
    <3> HAVE Registers(t, k)' /\ Registers(t, l)'
    <3>1. k + 1 \in 1..Len(queue) /\ Registers(t, k + 1) /\ l + 1 \in 1..Len(queue) /\ Registers(t, l + 1)
      BY <2>2, <2>3
    <3>2. k + 1 = l + 1
      BY <3>1 DEF QueueOK
    <3> QED BY <3>2, <2>2
  <2>7. \A k \in 1..Len(queue') : queue'[k].do = "register" => \E t \in Tasks : queue'[k].tasks = {t}
    BY <2>1, <2>2 DEF QueueOK
  <2>8. \A k \in 1..Len(queue') : queue'[k].by \in Interrupters => halt'[queue'[k].by].at \in {"cancelling", "clearing"}
    <3> TAKE k \in 1..Len(queue')
    <3> HAVE queue'[k].by \in Interrupters
    <3>1. k + 1 \in 1..Len(queue) /\ k + 1 # 1 /\ queue'[k] = queue[k + 1]
      BY <2>1, <2>2
    <3>2. queue[k + 1].by # Op.by
      BY <3>1, <2>1, <2>2 DEF QueueOK
    <3> QED BY <3>1, <3>2, <1>4 DEF QueueOK
  <2>9. \A k, l \in 1..Len(queue') : queue'[k].by \in Interrupters /\ queue'[k].by = queue'[l].by => k = l
    BY <2>1, <2>2 DEF QueueOK
  <2> QED BY <2>5, <2>6, <2>7, <2>8, <2>9 DEF QueueOK
<1>5. CASE UNCHANGED <<queue, halt>> /\ \A t \in Tasks : ask'[t] = "queued" <=> ask[t] = "queued"
  <2>1. \A t \in Tasks : \A k \in 1..Len(queue) : Registers(t, k)' <=> Registers(t, k)
    BY <1>5 DEF Registers
  <2>2. Len(queue') = Len(queue)
    BY <1>5
  <2> QED BY <2>1, <2>2, <1>5 DEF QueueOK
<1>6. ASSUME NEW t \in Tasks, Forward(t) PROVE QueueOK'
  <2>1. CASE row[t] \in Terminal \/ ~loaded
    <3>1. UNCHANGED <<queue, halt>> /\ ask[t] = "emitted" /\ ask' = [ask EXCEPT ![t] = "none"]
      BY <2>1, <1>6 DEF Forward, NotForwarded, halting
    <3> QED BY <3>1, <1>1, <1>5
  <2>2. CASE row[t] \notin Terminal /\ loaded
    <3> DEFINE op == [do |-> "register", tasks |-> {t}, by |-> t]
    <3>1. op \in Ops /\ op.do = "register" /\ op.tasks = {t} /\ op.by = t
      BY DEF Ops
    <3>2. queue' = Append(queue, op) /\ UNCHANGED halt /\ ask[t] = "emitted" /\ ask' = [ask EXCEPT ![t] = "queued"]
      BY <2>2, <1>6 DEF Forward, halting
    <3> HIDE DEF op
    <3> QED BY <3>1, <3>2, <1>1, <1>2, <1>3
  <2> QED BY <2>1, <2>2
<1>7. ASSUME NEW t \in Tasks, Answer(t) PROVE QueueOK'
  <2> DEFINE op == [do |-> "resolve", tasks |-> {t}, by |-> t]
  <2>1. op \in Ops /\ op.do # "register" /\ op.by = t
    BY DEF Ops
  <2>2. queue' = Append(queue, op) /\ UNCHANGED <<halt, ask>>
    BY <1>7 DEF Answer, halting
  <2> HIDE DEF op
  <2> QED BY <2>1, <2>2, <1>1, <1>3
<1>8. ASSUME NEW t \in Tasks, Stop(t) PROVE QueueOK'
  <2> DEFINE op == [do |-> "cancel", tasks |-> {t}, by |-> t]
  <2>1. op \in Ops /\ op.do # "register" /\ op.by = t
    BY DEF Ops
  <2>2. (UNCHANGED queue \/ queue' = Append(queue, op)) /\ UNCHANGED <<halt, ask>>
    BY <1>8 DEF Stop
  <2> HIDE DEF op
  <2> QED BY <2>1, <2>2, <1>1, <1>3, <1>5
<1>9. ASSUME NEW t \in Tasks, Register(t) \/ RegisterFails(t) PROVE QueueOK'
  <2>1. Runs /\ Op.do = "register" /\ Op.tasks = {t} /\ UNCHANGED halt /\ ask' = [ask EXCEPT ![t] = "none"]
    BY <1>9 DEF Register, RegisterFails, NotForwarded, halting
  <2> QED BY <2>1, <1>1, <1>2, <1>4
<1>10. ASSUME NEW t \in Tasks, Resolve(t) \/ ResolveFails(t) PROVE QueueOK'
  <2>1. Runs /\ Op.do = "resolve" /\ UNCHANGED <<halt, ask>>
    BY <1>10 DEF Resolve, ResolveFails, halting
  <2> QED BY <2>1, <1>1, <1>4
<1>11. ASSUME Cancel PROVE QueueOK'
  <2>1. \A i \in Interrupters : i # Op.by => halt'[i].at = halt[i].at
    BY <1>1, <1>11 DEF Cancel, Returns
  <2> QED BY <2>1, <1>4, <1>11 DEF Cancel
<1>17. ASSUME CancelFails PROVE QueueOK'
  <2>1. \A i \in Interrupters : i # Op.by => halt'[i].at = halt[i].at
    BY <1>1, <1>17 DEF CancelFails, GivesUp
  <2> QED BY <2>1, <1>4, <1>17 DEF CancelFails
<1>12. ASSUME NEW i \in Interrupters, Halt(i) PROVE QueueOK'
  <2> DEFINE op == [do |-> "cancel", tasks |-> Active, by |-> i]
  <2>1. op \in Ops /\ op.do # "register" /\ op.by = i
    BY RowsAre DEF Ops
  <2>2. /\ queue' = Append(queue, op) /\ UNCHANGED ask
        /\ halt[i].at = "idle" /\ halt'[i].at = "cancelling" /\ \A j \in Interrupters : j # i => halt'[j] = halt[j]
    BY <1>1, <1>12 DEF Halt
  <2> HIDE DEF op
  <2> QED BY <2>1, <2>2, <1>1, <1>3
<1>13. ASSUME NEW i \in Interrupters, HaltSettles(i) PROVE QueueOK'
  <2> DEFINE op == [do |-> "cancel", tasks |-> Tasks, by |-> i]
  <2>1. op \in Ops /\ op.do # "register" /\ op.by = i
    BY DEF Ops
  <2>2. /\ queue' = Append(queue, op) /\ UNCHANGED ask
        /\ halt[i].at = "cancelled" /\ halt'[i].at = "clearing" /\ \A j \in Interrupters : j # i => halt'[j] = halt[j]
    BY <1>1, <1>13 DEF HaltSettles
  <2> HIDE DEF op
  <2> QED BY <2>1, <2>2, <1>1, <1>3
<1>14. ASSUME Restart PROVE QueueOK'
  <2>1. queue' = <<>> /\ \A t \in Tasks : ask'[t] # "queued"
    BY <1>14 DEF Restart
  <2>2. Len(queue') = 0
    BY <2>1
  <2>3. \A k \in 1..Len(queue') : FALSE
    BY <2>2
  <2> QED BY <2>1, <2>3 DEF QueueOK
<1>15. ASSUME NEW t \in Tasks, Asks(t) PROVE QueueOK'
  BY <1>1, <1>5, <1>15 DEF Asks, thread, halting
<1>16. UNCHANGED <<queue, halt, ask>> \/ Cancel \/ CancelFails \/ Restart
       \/ (\E t \in Tasks : \/ Forward(t) \/ Answer(t) \/ Register(t) \/ RegisterFails(t) \/ Resolve(t) \/ ResolveFails(t)
                            \/ Stop(t) \/ Asks(t))
       \/ \E i \in Interrupters : Halt(i) \/ HaltSettles(i)
  BY DEF Next, Mutation, Entering, Start, Launched, LaunchFails, ChildEnds, Complete, Unload, Load, Close, OtherStarts,
         vars, StopSettles, thread, halting
<1> QED BY <1>5, <1>6, <1>7, <1>8, <1>9, <1>10, <1>11, <1>12, <1>13, <1>14, <1>15, <1>16, <1>17

\* Every step that makes a row terminal interrupts its run or finds it over,
\* and a run that is launched late looks at its row.
LEMMA RunsStep ==
  ASSUME Types, RunsOK, [Next]_vars
  PROVE  RunsOK'
<1> USE RowsAre
<1>1. row \in [Tasks -> Rows] /\ child \in [Tasks -> Children]
  BY TypesAre DEF TypesButQueue
<1>2. SUFFICES ASSUME "other" \notin causes', NEW t \in Tasks, row'[t] \in Terminal
               PROVE  /\ child'[t].at = "launching" => row'[t] = "stopped"
                      /\ child'[t].at = "live" => child'[t].interrupted
  BY DEF RunsOK
<1>3. "other" \notin causes
  BY <1>2 DEF Next, Mutation, Entering, Start, Launched, LaunchFails, Asks, Forward, ChildEnds, Complete, Answer,
          Stop, StopSettles, Register, RegisterFails, Resolve, ResolveFails, Cancel, CancelFails, Halt, HaltSettles,
          Unload, Load, Close, Restart, OtherStarts, vars, history
<1>4. row[t] \in Terminal => /\ child[t].at = "launching" => row[t] = "stopped"
                             /\ child[t].at = "live" => child[t].interrupted
  BY <1>3 DEF RunsOK
<1>5. CASE child'[t].at \in {"none", "over", "gone"}
  BY <1>5
<1>6. CASE row'[t] = row[t] /\ child'[t] = child[t]
  BY <1>2, <1>4, <1>6
<1>7. ASSUME NEW cs \in [Tasks -> Children], cs[t] = child[t] \/ cs[t].at = "over",
             NEW S, NEW R, t \in R => t \in S,
             row' = Settled(row, R, "stopped"), child' = Interrupted(cs, S)
      PROVE  /\ child'[t].at = "launching" => row'[t] = "stopped"
             /\ child'[t].at = "live" => child'[t].interrupted
  <2>1. t \in R /\ row[t] \notin Terminal => row'[t] = "stopped"
    BY <1>1, <1>7, SettledIs
  <2>2. t \notin R \/ row[t] \in Terminal => row'[t] = row[t]
    BY <1>1, <1>7, SettledIs
  <2>3. /\ (t \notin S \/ cs[t].at # "live") => child'[t] = cs[t]
        /\ t \in S /\ cs[t].at = "live" =>
             child'[t].at \in {"over", "live"} /\ child'[t].interrupted
    BY <1>7, InterruptedIs
  <2> QED BY <2>1, <2>2, <2>3, <1>2, <1>4, <1>7
<1>8. ASSUME NEW u \in Tasks, Start(u) PROVE row'[t] = row[t] /\ child'[t] = child[t]
  BY <1>1, <1>2, <1>8 DEF Start
<1>9. ASSUME NEW u \in Tasks, Launched(u)
      PROVE  /\ child'[t].at = "launching" => row'[t] = "stopped"
             /\ child'[t].at = "live" => child'[t].interrupted
  <2>1. u # t => child'[t] = child[t]
    BY <1>9, LaunchedIs DEF Becomes
  <2>2. u = t => child'[t].at = "live" /\ (child'[t].interrupted <=> (row[t] = "stopped" \/ closing))
    <3>1. PICK b \in BOOLEAN : /\ b <=> (row[u] = "stopped" \/ closing)
                             /\ child'[u] = [at |-> "live", waits |-> FALSE, interrupted |-> b]
      BY <1>9, LaunchedIs DEF Becomes
    <3> QED BY <3>1
  <2>3. child[u].at = "launching"
    BY <1>9 DEF Launched
  <2>4. row' = row
    BY <1>9 DEF Launched
  <2> QED BY <2>1, <2>2, <2>4, <2>3, <1>2, <1>4
<1>10. ASSUME NEW u \in Tasks, LaunchFails(u) \/ Complete(u)
       PROVE  (row'[t] = row[t] /\ child'[t] = child[t]) \/ child'[t].at = "gone"
  <2>1. u # t => child'[t] = child[t]
    BY <1>10, GoneIs DEF Becomes
  <2>2. u = t => child'[t].at = "gone"
    BY <1>10, GoneIs DEF Becomes, Over
  <2>3. u # t => row'[t] = row[t]
    BY <1>1, <1>10, SettledIs DEF LaunchFails, Complete
  <2> QED BY <2>1, <2>2, <2>3
<1>11. ASSUME NEW u \in Tasks, Asks(u) PROVE row'[t] = row[t] /\ child'[t] = child[t]
  <2>1. u # t => child'[t] = child[t]
    BY <1>11, AsksIs DEF Becomes
  <2>2. u # t
    BY <1>2, <1>4, <1>11 DEF Asks
  <2> QED BY <2>1, <2>2, <1>11 DEF Asks
<1>12. ASSUME NEW u \in Tasks, ChildEnds(u)
       PROVE  (row'[t] = row[t] /\ child'[t] = child[t]) \/ child'[t].at = "over"
  <2>1. u # t => child'[t] = child[t]
    BY <1>12, ChildEndsIs DEF Becomes
  <2>2. u = t => child'[t].at = "over"
    <3>1. child'[u] = [at |-> "over", waits |-> FALSE, interrupted |-> child[u].interrupted]
      BY <1>12, ChildEndsIs DEF Becomes
    <3> QED BY <3>1
  <2> QED BY <2>1, <2>2, <1>12 DEF ChildEnds
<1>13. ASSUME NEW u \in Tasks, Resolve(u) \/ ResolveFails(u)
       PROVE  /\ child'[t].at = "launching" => row'[t] = "stopped"
              /\ child'[t].at = "live" => child'[t].interrupted
  <2>1. row' = row /\ (UNCHANGED child \/ \E at \in {"live", "over"} : Resumed(u, at))
    BY <1>13 DEF Resolve, ResolveFails
  <2>2. CASE UNCHANGED child
    BY <2>1, <2>2, <1>6
  <2>3. ASSUME NEW at \in {"live", "over"}, Resumed(u, at), child[u].waits
        PROVE  /\ child'[t].at = "launching" => row'[t] = "stopped"
               /\ child'[t].at = "live" => child'[t].interrupted
    <3>1. /\ child[u].at = "live"
          /\ Becomes(u, [at |-> at, waits |-> FALSE, interrupted |-> child[u].interrupted])
      BY <2>3, ResumedIs
    <3>2. u # t => child'[t] = child[t]
      BY <3>1 DEF Becomes
    <3>3. u = t => child'[t].at = at /\ child'[t].interrupted = child[t].interrupted
      BY <3>1 DEF Becomes
    <3> QED BY <3>1, <3>2, <3>3, <2>1, <1>2, <1>4, <1>6
  <2> QED BY <2>1, <2>2, <2>3, ResumedIs
<1>14. ASSUME NEW S, child' = Rejected(child, S), UNCHANGED row
       PROVE  (row'[t] = row[t] /\ child'[t] = child[t]) \/ child'[t].at = "over"
  BY <1>14, RejectedFits
<1>15. ASSUME NEW u \in Tasks, StopSettles(u)
       PROVE  /\ child'[t].at = "launching" => row'[t] = "stopped"
              /\ child'[t].at = "live" => child'[t].interrupted
  BY <1>1, <1>7, <1>15 DEF StopSettles
<1>16. ASSUME NEW i \in Interrupters, HaltSettles(i)
       PROVE  /\ child'[t].at = "launching" => row'[t] = "stopped"
              /\ child'[t].at = "live" => child'[t].interrupted
  BY <1>1, <1>7, <1>16 DEF HaltSettles
<1>17. ASSUME Close
       PROVE  /\ child'[t].at = "launching" => row'[t] = "stopped"
              /\ child'[t].at = "live" => child'[t].interrupted
  <2> DEFINE cs == Rejected(child, pending \ forgotten)
  <2>1. cs \in [Tasks -> Children] /\ (cs[t] = child[t] \/ cs[t].at = "over")
    BY RejectedFits
  <2>2. row' = Settled(row, Active, "stopped") /\ child' = Interrupted(cs, Tasks)
    BY <1>17 DEF Close
  <2> HIDE DEF cs
  <2> QED BY <2>1, <2>2, <1>7
<1>18. ASSUME Restart PROVE child'[t].at \in {"none", "gone"}
  BY <1>18 DEF Restart, NoChild
<1>19. ~OtherStarts
  BY <1>2 DEF OtherStarts
<1>20. \/ UNCHANGED <<row, child>> \/ Close \/ Restart \/ OtherStarts
       \/ (\E u \in Tasks : \/ Start(u) \/ Launched(u) \/ LaunchFails(u) \/ Complete(u) \/ Asks(u) \/ ChildEnds(u)
                            \/ Resolve(u) \/ ResolveFails(u) \/ StopSettles(u))
       \/ (\E i \in Interrupters : HaltSettles(i))
       \/ UNCHANGED row /\ \E S : child' = Rejected(child, S)
  <2>1. \A u \in Tasks : Forward(u) \/ RegisterFails(u) =>
          UNCHANGED row /\ (UNCHANGED child \/ child' = Rejected(child, {u}))
    BY DEF Forward, RegisterFails, NotForwarded
  <2>2. Cancel \/ CancelFails => UNCHANGED row /\ \E S : child' = Rejected(child, S)
    BY DEF Cancel, CancelFails
  <2> QED BY <2>1, <2>2 DEF Next, Mutation, Entering, Answer, Register, Stop, Halt, Unload, Load, vars
<1> QED BY <1>5, <1>6, <1>8, <1>9, <1>10, <1>11, <1>12, <1>13, <1>14, <1>15, <1>16, <1>17, <1>18, <1>19, <1>20

\* Nothing starts behind the barrier of an interrupt, and no second interrupt
\* takes it away.
LEMMA HaltsStep ==
  ASSUME Types, HaltsOK, [Next]_vars
  PROVE  HaltsOK'
<1> DEFINE On(i) == halt[i].at \in {"cancelling", "cancelled"}
<1>1. halt \in [Interrupters -> [at : Stages, active : SUBSET Tasks]]
  BY TypesAre DEF TypesButQueue
<1>2. SUFFICES ASSUME "overlap" \notin causes', NEW i \in Interrupters, On(i)'
               PROVE  /\ cancelling' /\ Active' \subseteq halt'[i].active
                      /\ \A j \in Interrupters \ {i} : ~On(j)'
  BY DEF HaltsOK
<1>3. "overlap" \notin causes
  BY <1>2 DEF Next, Mutation, Entering, Start, Launched, LaunchFails, Asks, Forward, ChildEnds, Complete, Answer,
          Stop, StopSettles, Register, RegisterFails, Resolve, ResolveFails, Cancel, CancelFails, Halt, HaltSettles,
          Unload, Load, Close, Restart, OtherStarts, vars, history
<1>4. \A j \in Interrupters : On(j) =>
        /\ cancelling /\ Active \subseteq halt[j].active
        /\ \A k \in Interrupters \ {j} : ~On(k)
  BY <1>3 DEF HaltsOK
<1>5. (\E t \in Tasks : Start(t)) \/ Active' \subseteq Active
  BY RowsMove DEF RowMoves, Active
<1>6. ASSUME NEW t \in Tasks, Start(t) PROVE FALSE
  BY <1>2, <1>4, <1>6 DEF Start, halting
<1>7. CASE /\ \A j \in Interrupters : On(j)' => On(j) /\ halt'[j].active = halt[j].active
           /\ UNCHANGED cancelling
  BY <1>2, <1>4, <1>5, <1>6, <1>7
<1>8. ASSUME Cancel
      PROVE  /\ \A j \in Interrupters : On(j)' => On(j) /\ halt'[j].active = halt[j].active
             /\ UNCHANGED cancelling
  BY <1>1, <1>8 DEF Cancel, Returns, Stages
<1>13. ASSUME CancelFails
       PROVE  /\ \A j \in Interrupters : On(j)' => On(j) /\ halt'[j].active = halt[j].active
              /\ UNCHANGED cancelling
  <2>1. \A j \in Interrupters : On(j)' => On(j) /\ j # Op.by /\ halt'[j] = halt[j]
    BY <1>1, <1>13 DEF CancelFails, GivesUp, Stages
  <2>2. \A j \in Interrupters : j = Op.by => halt[j].at # "cancelling"
    BY <2>1, <1>2, <1>4
  <2>3. cancelling' = cancelling
    BY <2>2, <1>13, TypesAre DEF CancelFails, GivesUp, TypesButQueue
  <2> QED BY <2>1, <2>3
<1>9. ASSUME NEW j \in Interrupters, Halt(j)
      PROVE  /\ cancelling' /\ Active' \subseteq halt'[i].active
             /\ \A k \in Interrupters \ {i} : ~On(k)'
  <2>1. ~cancelling
    BY <1>2, <1>9 DEF Halt
  <2>2. \A k \in Interrupters : ~On(k)
    BY <2>1, <1>4
  <2>3. \A k \in Interrupters : halt'[k] = IF k = j THEN [at |-> "cancelling", active |-> Active] ELSE halt[k]
    BY <1>1, <1>9 DEF Halt
  <2>4. i = j
    BY <2>2, <2>3, <1>2
  <2>5. Active' = Active /\ cancelling'
    BY <1>9 DEF Halt, Active
  <2> QED BY <2>2, <2>3, <2>4, <2>5
<1>10. ASSUME NEW j \in Interrupters, HaltSettles(j) PROVE FALSE
  <2>1. On(j) /\ \A k \in Interrupters : halt'[k].at = IF k = j THEN "clearing" ELSE halt[k].at
    BY <1>1, <1>10 DEF HaltSettles
  <2> QED BY <2>1, <1>2, <1>4
<1>11. ASSUME Restart PROVE FALSE
  BY <1>1, <1>2, <1>11 DEF Restart
<1>12. UNCHANGED <<halt, cancelling>> \/ Cancel \/ CancelFails \/ Restart
       \/ \E j \in Interrupters : Halt(j) \/ HaltSettles(j)
  BY DEF Next, Mutation, Entering, Start, Launched, LaunchFails, Asks, Forward, ChildEnds, Complete, Answer,
         Stop, StopSettles, Register, RegisterFails, Resolve, ResolveFails, Unload, Load, Close, OtherStarts, vars, halting
<1> QED BY <1>7, <1>8, <1>9, <1>10, <1>11, <1>12, <1>13

\* What the queue has of t behind a mutation that is added, and one that runs.
LEMMA QueuedFor ==
  ASSUME queue \in Seq(Ops), NEW op \in Ops, queue' = Append(queue, op), NEW t \in Tasks
  PROVE  /\ Len(queue) \in Nat /\ Len(queue') = Len(queue) + 1
         /\ \A k \in 1..Len(queue) : k \in 1..Len(queue') /\ (Registers(t, k)' <=> Registers(t, k)) /\ (Cancels(t, k)' <=> Cancels(t, k))
         /\ op.do = "cancel" /\ t \in op.tasks =>
              \E k \in 1..Len(queue') : Cancels(t, k)' /\ \A l \in 1..Len(queue) : l < k
<1>1. /\ Len(queue) \in Nat /\ Len(queue') = Len(queue) + 1
      /\ \A k \in 1..Len(queue) : queue'[k] = queue[k]
      /\ queue'[Len(queue) + 1] = op
  BY Queued
<1>2. PICK n : n = Len(queue) + 1
  OBVIOUS
<1>3. n \in 1..Len(queue') /\ \A l \in 1..Len(queue) : l < n /\ l \in 1..Len(queue')
  BY <1>1, <1>2
<1>4. \A k \in 1..Len(queue) : (Registers(t, k)' <=> Registers(t, k)) /\ (Cancels(t, k)' <=> Cancels(t, k))
  BY <1>1 DEF Registers, Cancels
<1>5. op.do = "cancel" /\ t \in op.tasks => Cancels(t, n)'
  BY <1>1, <1>2 DEF Cancels
<1> QED BY <1>1, <1>3, <1>4, <1>5

\* The rest of the queue moves up.
LEMMA RanFor ==
  ASSUME queue \in Seq(Ops), Runs, NEW t \in Tasks
  PROVE  /\ Len(queue) \in Nat \ {0} /\ Len(queue') = Len(queue) - 1
         /\ \A k \in 1..Len(queue) : k = 1 \/ /\ k > 1 /\ k - 1 \in 1..Len(queue')
                                              /\ queue'[k - 1] = queue[k]
                                              /\ Registers(t, k) => Registers(t, k - 1)'
                                              /\ Cancels(t, k) => Cancels(t, k - 1)'
         /\ \A k \in 1..Len(queue') : Registers(t, k)' => Registers(t, k + 1)
         /\ Registers(t, 1) <=> (Op.do = "register" /\ Op.tasks = {t})
         /\ Cancels(t, 1) <=> (Op.do = "cancel" /\ t \in Op.tasks)
<1>1. /\ Len(queue) \in Nat \ {0} /\ Len(queue') = Len(queue) - 1
      /\ \A k \in 1..Len(queue') : queue'[k] = queue[k + 1]
      /\ Op = queue[1]
  BY Ran
<1>2. ASSUME NEW k \in 1..Len(queue), k # 1
      PROVE  /\ k > 1 /\ k - 1 \in 1..Len(queue')
             /\ queue'[k - 1] = queue[k]
             /\ Registers(t, k) => Registers(t, k - 1)'
             /\ Cancels(t, k) => Cancels(t, k - 1)'
  <2>1. k > 1 /\ k - 1 \in 1..Len(queue') /\ (k - 1) + 1 = k
    BY <1>1, <1>2
  <2>2. queue'[k - 1] = queue[k]
    BY <1>1, <2>1
  <2> QED BY <2>1, <2>2 DEF Registers, Cancels
<1>3. \A k \in 1..Len(queue') : Registers(t, k)' => Registers(t, k + 1)
  BY <1>1 DEF Registers
<1>4. /\ Registers(t, 1) <=> (Op.do = "register" /\ Op.tasks = {t})
      /\ Cancels(t, 1) <=> (Op.do = "cancel" /\ t \in Op.tasks)
  BY <1>1 DEF Registers, Cancels
<1> QED BY <1>1, <1>2, <1>3, <1>4

\* A request goes from the child into the queue and from there to the thread;
\* whoever makes its run go on has a cancel behind it.
LEMMA AsksStep ==
  ASSUME Types, QueueOK, AsksOK, [Next]_vars
  PROVE  AsksOK'
<1> USE RowsAre
<1>1. /\ row \in [Tasks -> Rows] /\ child \in [Tasks -> Children] /\ queue \in Seq(Ops)
      /\ ask \in [Tasks -> {"none", "emitted", "queued"}] /\ pending \subseteq Tasks
      /\ \A t \in Tasks : Fits(child[t], row[t])
  BY TypesAre DEF TypesButQueue
<1>2. SUFFICES ASSUME NEW t \in Tasks, t \notin late' PROVE AskOK(t)'
  BY DEF AsksOK
<1>3. ASSUME Restart PROVE AskOK(t)'
  BY <1>3 DEF Restart, AskOK
<1>4. SUFFICES ASSUME ~Restart PROVE AskOK(t)'
  BY <1>3
<1>5. t \notin late
  BY <1>2, <1>4 DEF Next, Mutation, Entering, Start, Launched, LaunchFails, Asks, Forward, ChildEnds, Complete, Answer,
          Stop, StopSettles, Register, RegisterFails, Resolve, ResolveFails, Cancel, CancelFails, Halt, HaltSettles,
          Unload, Load, Close, OtherStarts, vars, history
<1>6. AskOK(t)
  BY <1>5 DEF AsksOK
<1>7. row[t] \in Terminal => row'[t] \in Terminal
  BY RowsMove DEF RowMoves
\* The run asks nothing.
<1>8. ASSUME ask'[t] = "none", t \notin pending' PROVE AskOK(t)'
  BY <1>8 DEF AskOK
<1>9. ~child[t].waits /\ child[t].at \notin {"over", "gone"} => ask[t] = "none" /\ t \notin pending
  BY <1>1, <1>6 DEF AskOK
<1>10. child[t].waits => child[t].at = "live" /\ row[t] # "none"
  BY <1>1 DEF Fits
\* Nothing of t changes but what the queue has.
<1>11. ASSUME ask'[t] = ask[t], child'[t] = child[t], t \in pending' => t \in pending,
              UNCHANGED queue \/ \E op \in Ops : queue' = Append(queue, op)
       PROVE  AskOK(t)'
  <2>1. CASE UNCHANGED queue
    BY <2>1, <1>6, <1>7, <1>11 DEF AskOK, Registers, Cancels
  <2>2. ASSUME NEW op \in Ops, queue' = Append(queue, op) PROVE AskOK(t)'
    <3>1. /\ \A k \in 1..Len(queue) : k \in 1..Len(queue') /\ (Registers(t, k)' <=> Registers(t, k)) /\ (Cancels(t, k)' <=> Cancels(t, k))
      BY <2>2, <1>1, QueuedFor
    <3> QED BY <3>1, <1>6, <1>7, <1>11 DEF AskOK
  <2> QED BY <2>1, <2>2, <1>11
<1>12. ASSUME Runs, ask'[t] = ask[t], child'[t] = child[t],
              t \in pending' => t \in pending /\ ~(Op.do = "cancel" /\ t \in Op.tasks),
              ~(Op.do = "register" /\ Op.tasks = {t})
       PROVE  AskOK(t)'
  <2>1. /\ \A k \in 1..Len(queue) : k = 1 \/ /\ k > 1 /\ k - 1 \in 1..Len(queue')
                                             /\ queue'[k - 1] = queue[k]
                                             /\ Registers(t, k) => Registers(t, k - 1)'
                                             /\ Cancels(t, k) => Cancels(t, k - 1)'
        /\ ~Registers(t, 1) /\ (Cancels(t, 1) <=> (Op.do = "cancel" /\ t \in Op.tasks))
    BY <1>1, <1>12, RanFor
  <2>2. ASSUME ask[t] = "queued", ~child[t].waits
        PROVE  \E k, l \in 1..Len(queue') : k < l /\ Registers(t, k)' /\ Cancels(t, l)'
    <3>1. PICK k, l \in 1..Len(queue) : k < l /\ Registers(t, k) /\ Cancels(t, l)
      BY <2>2, <1>6 DEF AskOK
    <3>2. k # 1 /\ l # 1 /\ k - 1 < l - 1
      BY <3>1, <2>1
    <3> QED BY <3>1, <3>2, <2>1
  <2>3. ASSUME t \in pending', ~child[t].waits
        PROVE  \E k \in 1..Len(queue') : Cancels(t, k)'
    <3>1. PICK k \in 1..Len(queue) : Cancels(t, k)
      BY <2>3, <1>6, <1>12 DEF AskOK
    <3> QED BY <3>1, <2>1, <2>3, <1>12
  <2> QED BY <2>2, <2>3, <1>6, <1>7, <1>12 DEF AskOK
<1>13. ASSUME NEW u \in Tasks, Start(u) \/ Launched(u) \/ LaunchFails(u) PROVE AskOK(t)'
  <2>1. UNCHANGED <<ask, queue, pending>>
    BY <1>13 DEF Start, Launched, LaunchFails, thread, requests
  <2>2. u # t => child'[t] = child[t]
    BY <1>1, <1>13 DEF Start, Launched, LaunchFails
  <2>3. u = t => child[t].at \in {"none", "launching"}
    BY <1>1, <1>13 DEF Start, Launched, LaunchFails, Fits
  <2> QED BY <2>1, <2>2, <2>3, <1>8, <1>9, <1>10, <1>11
<1>14. ASSUME NEW u \in Tasks, Asks(u) PROVE AskOK(t)'
  <2>1. /\ UNCHANGED <<queue, pending>> /\ child[u].at = "live" /\ ~child[u].waits
        /\ u # t => ask'[t] = ask[t] /\ child'[t] = child[t]
    BY <1>1, <1>14 DEF Asks, thread, requests
  <2>2. u = t => ask'[t] = "emitted" /\ child'[t].waits
    BY <1>1, <1>14, AsksIs DEF Asks, Becomes
  <2> QED BY <2>1, <2>2, <1>9, <1>11 DEF AskOK
\* The thread does not take what the run asks.
<1>28. ASSUME NEW u \in Tasks, NotForwarded(u)
       PROVE  /\ u # t => ask'[t] = ask[t] /\ child'[t] = child[t]
              /\ u = t => ask'[t] = "none"
  <2>1. child' = Rejected(child, {u}) /\ ask' = [ask EXCEPT ![u] = "none"]
    BY <1>28 DEF NotForwarded
  <2> QED BY <2>1, <1>1, RejectedFits
<1>15. ASSUME NEW u \in Tasks, Forward(u) PROVE AskOK(t)'
  <2> DEFINE op == [do |-> "register", tasks |-> {u}, by |-> u]
  <2>1. op \in Ops
    BY DEF Ops
  <2>2. /\ UNCHANGED <<row, pending>> /\ ask[u] = "emitted"
        /\ UNCHANGED queue \/ queue' = Append(queue, op)
    BY <1>15 DEF Forward, requests
  <2>3. CASE NotForwarded(u)
    <3>1. u = t => t \notin pending'
      BY <2>2, <1>6 DEF AskOK
    <3> QED BY <3>1, <2>1, <2>2, <2>3, <1>8, <1>11, <1>28
  <2>4. CASE ~NotForwarded(u)
    <3>1. UNCHANGED child /\ (u # t => ask'[t] = ask[t])
      BY <2>4, <1>1, <1>15 DEF Forward
    <3>2. u = t => IF row[t] \in Terminal THEN ask'[t] = "none" ELSE ask'[t] = "queued"
      BY <2>4, <1>1, <1>15 DEF Forward
    <3> HIDE DEF op
    <3>3. CASE u # t
      BY <2>1, <2>2, <3>1, <3>3, <1>11
    <3>4. CASE u = t
      BY <2>2, <3>1, <3>2, <3>4, <1>6 DEF AskOK
    <3> QED BY <3>3, <3>4
  <2> QED BY <2>3, <2>4
<1>16. ASSUME NEW u \in Tasks, ChildEnds(u) PROVE AskOK(t)'
  <2>1. /\ UNCHANGED <<ask, queue, pending>> /\ child[u].at = "live" /\ ~child[u].waits
        /\ u # t => child'[t] = child[t]
    BY <1>1, <1>16 DEF ChildEnds, thread, requests
  <2> QED BY <2>1, <1>8, <1>9, <1>11
<1>17. ASSUME NEW u \in Tasks, Complete(u) PROVE AskOK(t)'
  <2>1. /\ UNCHANGED <<ask, queue, pending>> /\ child[u].at = "over" /\ ask[u] = "none"
        /\ u # t => child'[t] = child[t]
    BY <1>1, <1>17 DEF Complete, thread, requests
  <2>2. u = t => child'[t].at = "gone"
    BY <1>17, GoneIs DEF Becomes, Over
  <2>3. u = t => ~child[t].waits
    BY <2>1, <1>10
  <2> QED BY <2>1, <2>2, <2>3, <1>6, <1>11 DEF AskOK, Cancels
<1>18. ASSUME NEW u \in Tasks, Register(u) PROVE AskOK(t)'
  <2>1. /\ Runs /\ Op.do = "register" /\ Op.tasks = {u} /\ UNCHANGED <<row, child>>
        /\ pending' = pending \cup {u} /\ ask'[u] = "none"
        /\ u # t => ask'[t] = ask[t]
    BY <1>1, <1>18 DEF Register
  <2>2. CASE u # t
    BY <2>1, <2>2, <1>12
  <2>3. CASE u = t
    <3>1. /\ \A k \in 1..Len(queue) : k = 1 \/ /\ k > 1 /\ k - 1 \in 1..Len(queue')
                                               /\ queue'[k - 1] = queue[k]
                                               /\ Registers(t, k) => Registers(t, k - 1)'
                                               /\ Cancels(t, k) => Cancels(t, k - 1)'
          /\ Registers(t, 1) /\ 1 \in 1..Len(queue)
      BY <1>1, <2>1, <2>3, RanFor
    <3>2. ask[t] = "queued"
      BY <3>1 DEF QueueOK
    <3>3. ASSUME ~child[t].waits PROVE child[t].at = "over" /\ \E k \in 1..Len(queue') : Cancels(t, k)'
      <4>1. PICK k, l \in 1..Len(queue) : k < l /\ Registers(t, k) /\ Cancels(t, l)
        BY <3>2, <3>3, <1>6 DEF AskOK
      <4>2. l # 1
        BY <4>1
      <4> QED BY <4>1, <4>2, <3>1, <3>2, <3>3, <1>6 DEF AskOK
    <3> QED BY <3>3, <2>1, <2>3 DEF AskOK
  <2> QED BY <2>2, <2>3
<1>19. ASSUME NEW u \in Tasks, Answer(u) PROVE AskOK(t)'
  <2>1. [do |-> "resolve", tasks |-> {u}, by |-> u] \in Ops
    BY DEF Ops
  <2> QED BY <2>1, <1>11, <1>19 DEF Answer, requests
<1>29. ASSUME NEW u \in Tasks, RegisterFails(u) PROVE AskOK(t)'
  <2>1. Runs /\ Op.do = "register" /\ Op.tasks = {u} /\ NotForwarded(u) /\ UNCHANGED <<row, pending>>
    BY <1>29 DEF RegisterFails, requests
  <2>2. CASE u # t
    BY <2>1, <2>2, <1>12, <1>28
  <2>3. CASE u = t
    <3>1. /\ Registers(t, 1) /\ 1 \in 1..Len(queue)
      BY <1>1, <2>1, <2>3, RanFor
    <3>2. ask[t] = "queued"
      BY <3>1 DEF QueueOK
    <3>3. t \notin pending
      BY <3>2, <1>6 DEF AskOK
    <3> QED BY <3>3, <2>1, <2>3, <1>8, <1>28
  <2> QED BY <2>2, <2>3
<1>30. ASSUME NEW u \in Tasks \ {t}, NEW at \in {"live", "over"}, Resumed(u, at) PROVE child'[t] = child[t]
  BY <1>30, ResumedIs DEF Becomes
<1>20. ASSUME NEW u \in Tasks, Resolve(u) PROVE AskOK(t)'
  <2>1. Runs /\ Op.do = "resolve" /\ UNCHANGED <<row, ask>>
    BY <1>20 DEF Resolve
  <2>2. CASE u = t /\ t \in pending \ forgotten
    <3>1. t \notin pending' /\ ask[t] = "none"
      BY <2>2, <1>1, <1>6, <1>20 DEF Resolve, AskOK
    <3> QED BY <3>1, <2>1, <1>8
  <2>3. CASE ~(u = t /\ t \in pending \ forgotten)
    <3>1. child'[t] = child[t] /\ (t \in pending' => t \in pending)
      BY <2>3, <1>20, <1>30 DEF Resolve
    <3> QED BY <3>1, <2>1, <1>12
  <2> QED BY <2>2, <2>3
<1>31. ASSUME NEW u \in Tasks, ResolveFails(u) PROVE AskOK(t)'
  <2>1. Runs /\ Op.do = "resolve" /\ UNCHANGED <<row, ask, pending>> /\ u # t
    BY <1>2, <1>31 DEF ResolveFails
  <2>2. child'[t] = child[t]
    BY <2>1, <1>30, <1>31 DEF ResolveFails
  <2> QED BY <2>1, <2>2, <1>12
\* What is cancelled is pending no more, and the rest as it was.
<1>32. ASSUME Runs, Op.do = "cancel", UNCHANGED <<row, ask>>, NEW done \in SUBSET (pending \cap Op.tasks),
              pending' = pending \ done, child' = Rejected(child, done \ forgotten),
              t \in pending \cap Op.tasks => t \in done
       PROVE  AskOK(t)'
  <2>1. CASE t \in done
    <3>1. t \notin pending' /\ ask[t] = "none"
      BY <2>1, <1>1, <1>6, <1>32 DEF AskOK
    <3> QED BY <3>1, <1>8, <1>32
  <2>2. CASE t \notin done
    <3>1. child'[t] = child[t]
      BY <2>2, <1>32, RejectedFits
    <3> QED BY <3>1, <2>2, <1>12, <1>32
  <2> QED BY <2>1, <2>2
<1>21. ASSUME Cancel PROVE AskOK(t)'
  <2> DEFINE done == pending \cap Op.tasks
  <2>1. /\ Runs /\ Op.do = "cancel" /\ UNCHANGED <<row, ask>> /\ pending' = pending \ done
        /\ child' = Rejected(child, done \ forgotten)
    BY <1>21 DEF Cancel
  <2> QED BY <2>1, <1>32
<1>33. ASSUME CancelFails PROVE AskOK(t)'
  <2>1. PICK done \in SUBSET (pending \cap Op.tasks) :
          /\ pending' = pending \ done /\ child' = Rejected(child, done \ forgotten)
          /\ late' = late \cup ((pending \cap Op.tasks) \ done)
    BY <1>33 DEF CancelFails
  <2>2. t \in pending \cap Op.tasks => t \in done
    BY <2>1, <1>2
  <2> QED BY <2>1, <2>2, <1>32, <1>33 DEF CancelFails
<1>22. ASSUME NEW u \in Tasks, Stop(u) PROVE AskOK(t)'
  <2>1. [do |-> "cancel", tasks |-> {u}, by |-> u] \in Ops
    BY DEF Ops
  <2> QED BY <2>1, <1>11, <1>22 DEF Stop, requests
<1>23. ASSUME NEW u \in Tasks, StopSettles(u) PROVE AskOK(t)'
  <2>1. /\ UNCHANGED <<ask, queue, pending>> /\ child' = Interrupted(child, {u}) /\ row' = Settled(row, {u}, "stopped")
        /\ u = t => ask[t] # "queued" /\ t \notin pending
    BY <1>2, <1>23 DEF StopSettles, thread, requests, OnTheirWay
  <2>2. CASE u # t
    <3>1. child'[t] = child[t]
      BY <2>1, <2>2, <1>1, InterruptedIs
    <3> QED BY <3>1, <2>1, <1>11
  <2>3. CASE u = t
    <3>1. row'[t] \in Terminal
      BY <2>1, <2>3, <1>1, SettledIs
    <3>2. child[t].waits \/ child[t].at = "over" => child'[t].at = "over"
      BY <2>1, <2>3, <1>1, <1>10, InterruptedIs
    <3> QED BY <3>1, <3>2, <2>1, <2>3, <1>6 DEF AskOK
  <2> QED BY <2>2, <2>3
<1>24. ASSUME NEW i \in Interrupters, Halt(i) PROVE AskOK(t)'
  <2>1. [do |-> "cancel", tasks |-> Active, by |-> i] \in Ops
    BY DEF Ops
  <2> QED BY <2>1, <1>11, <1>24 DEF Halt, requests
<1>25. ASSUME NEW i \in Interrupters, HaltSettles(i) PROVE AskOK(t)'
  <2> DEFINE op == [do |-> "cancel", tasks |-> Tasks, by |-> i]
  <2>1. op \in Ops /\ op.do = "cancel" /\ op.tasks = Tasks
    BY DEF Ops
  <2>2. /\ UNCHANGED <<ask, pending>> /\ queue' = Append(queue, op)
        /\ child' = Interrupted(child, halt[i].active) /\ row' = Settled(row, halt[i].active, "stopped")
    BY <1>25 DEF HaltSettles, requests
  <2> HIDE DEF op
  <2>3. CASE t \notin halt[i].active
    <3>1. child'[t] = child[t]
      BY <2>2, <2>3, <1>1, InterruptedIs
    <3> QED BY <3>1, <2>1, <2>2, <1>11
  <2>4. CASE t \in halt[i].active
    <3>1. row'[t] \in Terminal
      BY <2>2, <2>4, <1>1, SettledIs
    <3>2. child[t].waits \/ child[t].at = "over" => child'[t].at = "over"
      BY <2>2, <2>4, <1>1, <1>10, InterruptedIs
    <3>3. child[t].at = "gone" => child'[t].at = "gone"
      BY <2>2, <2>4, <1>1, InterruptedIs
    <3>4. PICK k \in 1..Len(queue') : Cancels(t, k)' /\ \A l \in 1..Len(queue) : l < k
      BY <2>1, <2>2, <1>1, QueuedFor
    <3>5. \A l \in 1..Len(queue) : l \in 1..Len(queue') /\ (Registers(t, l)' <=> Registers(t, l))
      BY <2>1, <2>2, <1>1, QueuedFor
    <3>6. ask[t] = "queued" => \E l \in 1..Len(queue') : l < k /\ Registers(t, l)'
      BY <3>4, <3>5 DEF QueueOK
    <3> QED BY <3>1, <3>2, <3>3, <3>4, <3>6, <2>2, <1>6 DEF AskOK
  <2> QED BY <2>3, <2>4
<1>26. ASSUME Close PROVE AskOK(t)'
  <2>1. /\ UNCHANGED ask /\ queue = <<>> /\ pending' = {}
        /\ child' = Interrupted(Rejected(child, pending \ forgotten), Tasks) /\ row' = Settled(row, Active, "stopped")
    BY <1>26 DEF Close, Unused
  <2>2. ask[t] # "queued"
    <3>1. \A k \in 1..Len(queue) : FALSE
      BY <2>1
    <3> QED BY <3>1 DEF QueueOK
  <2>3. CASE ask[t] = "none"
    BY <2>1, <2>3, <1>8
  <2>4. CASE ask[t] = "emitted"
    <3>1. t \notin pending /\ (child[t].waits \/ child[t].at = "over")
      BY <2>4, <1>6 DEF AskOK
    <3>2. Rejected(child, pending \ forgotten)[t] = child[t]
      BY <3>1, RejectedFits
    <3>3. Rejected(child, pending \ forgotten) \in [Tasks -> Children]
      BY RejectedFits
    <3>4. child'[t].at = "over"
      <4>1. PICK cs \in [Tasks -> Children] : cs[t] = child[t] /\ child' = Interrupted(cs, Tasks)
        BY <2>1, <3>2, <3>3
      <4> QED BY <4>1, <3>1, <1>10, InterruptedIs
    <3>5. row[t] \in Terminal \/ row[t] = "running"
      BY <3>1, <1>1 DEF Fits, Rows
    <3>6. row'[t] \in Terminal
      BY <3>5, <2>1, <1>1, SettledIs
    <3> QED BY <3>4, <3>6, <2>1, <2>4 DEF AskOK
  <2> QED BY <2>2, <2>3, <2>4, <1>1
<1>27. UNCHANGED <<ask, child, pending, queue>> \/ Cancel \/ CancelFails \/ Close
       \/ (\E u \in Tasks : \/ Start(u) \/ Launched(u) \/ LaunchFails(u) \/ Asks(u) \/ Forward(u) \/ ChildEnds(u)
                            \/ Complete(u) \/ Register(u) \/ RegisterFails(u) \/ Answer(u) \/ Resolve(u) \/ ResolveFails(u)
                            \/ Stop(u) \/ StopSettles(u))
       \/ \E i \in Interrupters : Halt(i) \/ HaltSettles(i)
  BY <1>4 DEF Next, Mutation, Entering, Unload, Load, OtherStarts, vars, thread, requests
<1> QED
  BY <1>11, <1>13, <1>14, <1>15, <1>16, <1>17, <1>18, <1>19, <1>20, <1>21, <1>22, <1>23, <1>24, <1>25, <1>26, <1>27,
     <1>29, <1>31, <1>33

\* Nothing registers for a task that is terminal, so the second cancel stays
\* behind all its tasks have asked.
LEMMA ClearsStep ==
  ASSUME Types, QueueOK, StartedOK, ClearsOK, [Next]_vars
  PROVE  ClearsOK'
<1> DEFINE Second(i) == [do |-> "cancel", tasks |-> Tasks, by |-> i]
<1>1. /\ row \in [Tasks -> Rows] /\ queue \in Seq(Ops) /\ pending \subseteq Tasks
      /\ ask \in [Tasks -> {"none", "emitted", "queued"}]
      /\ halt \in [Interrupters -> [at : Stages, active : SUBSET Tasks]]
  BY TypesAre DEF TypesButQueue
<1>2. SUFFICES ASSUME NEW i \in Interrupters, NEW t \in Tasks, t \in halt'[i].active,
                      halt'[i].at \in {"clearing", "cleared"}
               PROVE  ClearOK(i, t)'
  <2>1. halt' \in [Interrupters -> [at : Stages, active : SUBSET Tasks]]
    BY TypesStep DEF Types, TypeOK, Stages
  <2>2. ASSUME NEW i \in Interrupters, NEW t \in halt'[i].active PROVE t \in Tasks
    BY <2>1
  <2>3. \A i \in Interrupters : \A t \in halt'[i].active :
          halt'[i].at \notin {"clearing", "cleared"} => ClearOK(i, t)'
    BY DEF ClearOK
  <2> QED BY <1>2, <2>2, <2>3 DEF ClearsOK
<1>3. row[t] \in Terminal => row'[t] \in Terminal
  BY RowsMove DEF RowMoves
\* Nothing changes for the interrupt and the task, but what the queue has.
<1>4. ASSUME halt'[i] = halt[i], t \in pending' => t \in pending, ask'[t] = "queued" => ask[t] = "queued",
             UNCHANGED queue \/ \E op \in Ops : queue' = Append(queue, op) /\ ~(op.do = "register" /\ op.tasks = {t})
      PROVE  ClearOK(i, t)'
  <2>1. ClearOK(i, t)
    BY <1>2, <1>4 DEF ClearsOK
  <2>2. ASSUME halt[i].at = "clearing"
        PROVE  \E k \in 1..Len(queue') : queue'[k] = Second(i) /\ \A l \in k..Len(queue') : ~Registers(t, l)'
    <3>1. PICK k \in 1..Len(queue) : queue[k] = Second(i) /\ \A l \in k..Len(queue) : ~Registers(t, l)
      BY <2>1, <2>2 DEF ClearOK
    <3>2. CASE UNCHANGED queue
      BY <3>1, <3>2 DEF Registers
    <3>3. ASSUME NEW op \in Ops, queue' = Append(queue, op), ~(op.do = "register" /\ op.tasks = {t})
          PROVE  k \in 1..Len(queue') /\ queue'[k] = Second(i) /\ \A l \in k..Len(queue') : ~Registers(t, l)'
      <4>1. /\ Len(queue) \in Nat /\ Len(queue') = Len(queue) + 1
            /\ \A l \in 1..Len(queue) : queue'[l] = queue[l]
            /\ queue'[Len(queue) + 1] = op
        BY <3>3, <1>1, Queued
      <4>2. k \in 1..Len(queue') /\ queue'[k] = Second(i)
        BY <3>1, <4>1
      <4>3. ASSUME NEW l \in k..Len(queue') PROVE ~(queue'[l].do = "register" /\ queue'[l].tasks = {t})
        <5>1. l \in k..Len(queue) \/ l = Len(queue) + 1
          BY <4>1, <3>1
        <5>2. CASE l \in k..Len(queue)
          <6>1. l \in 1..Len(queue) /\ queue'[l] = queue[l]
            BY <5>2, <4>1, <3>1
          <6> QED BY <6>1, <5>2, <3>1 DEF Registers
        <5>3. CASE l = Len(queue) + 1
          BY <5>3, <4>1, <3>3
        <5> QED BY <5>1, <5>2, <5>3
      <4> QED BY <4>2, <4>3 DEF Registers
    <3> QED BY <3>1, <3>2, <3>3, <1>4
  <2> QED BY <2>1, <2>2, <1>3, <1>4 DEF ClearOK
<1>5. ASSUME Runs, Op.do # "cancel", halt'[i] = halt[i], ask'[t] = "queued" => ask[t] = "queued",
             t \in pending' => t \in pending \/ (Op.do = "register" /\ Op.tasks = {t})
      PROVE  ClearOK(i, t)'
  <2>1. ClearOK(i, t)
    BY <1>2, <1>5 DEF ClearsOK
  <2>2. /\ Len(queue) \in Nat \ {0} /\ Len(queue') = Len(queue) - 1
        /\ \A k \in 1..Len(queue) : k = 1 \/ /\ k > 1 /\ k - 1 \in 1..Len(queue')
                                             /\ queue'[k - 1] = queue[k]
                                             /\ Registers(t, k) => Registers(t, k - 1)'
                                             /\ Cancels(t, k) => Cancels(t, k - 1)'
        /\ \A k \in 1..Len(queue') : Registers(t, k)' => Registers(t, k + 1)
        /\ Registers(t, 1) <=> (Op.do = "register" /\ Op.tasks = {t})
    BY <1>1, <1>5, RanFor
  <2>3. ASSUME halt[i].at = "clearing"
        PROVE  \E k \in 1..Len(queue') : queue'[k] = Second(i) /\ \A l \in k..Len(queue') : ~Registers(t, l)'
    <3>1. PICK k \in 1..Len(queue) : queue[k] = Second(i) /\ \A l \in k..Len(queue) : ~Registers(t, l)
      BY <2>1, <2>3 DEF ClearOK
    <3>2. k # 1
      <4>1. queue[k].do = "cancel" /\ Op = queue[1]
        BY <3>1, <1>1, <1>5, Ran
      <4> QED BY <4>1, <1>5
    <3>3. k - 1 \in 1..Len(queue') /\ queue'[k - 1] = Second(i)
      BY <3>1, <3>2, <2>2
    <3>4. ASSUME NEW l \in (k - 1)..Len(queue') PROVE ~Registers(t, l)'
      <4>1. l \in 1..Len(queue') /\ l + 1 \in k..Len(queue)
        BY <2>2, <3>3
      <4> QED BY <4>1, <2>2, <3>1
    <3> QED BY <3>3, <3>4
  <2>4. ASSUME halt[i].at = "cleared" PROVE t \notin pending'
    <3>1. ~Registers(t, 1)
      BY <2>1, <2>2, <2>4 DEF ClearOK, QueueOK
    <3> QED BY <3>1, <2>1, <2>2, <2>4, <1>5 DEF ClearOK
  <2> QED BY <2>1, <2>3, <2>4, <1>3, <1>5 DEF ClearOK
<1>6. ASSUME NEW u \in Tasks, Forward(u) PROVE ClearOK(i, t)'
  <2> DEFINE op == [do |-> "register", tasks |-> {u}, by |-> u]
  <2>1. op \in Ops /\ (op.tasks = {t} => u = t)
    BY DEF Ops
  <2>2. /\ halt'[i] = halt[i] /\ UNCHANGED pending
        /\ row[u] \in Terminal => UNCHANGED queue /\ ask'[u] = "none"
        /\ u # t => ask'[t] = ask[t]
        /\ UNCHANGED queue \/ queue' = Append(queue, op)
    BY <1>1, <1>6 DEF Forward, NotForwarded, halting, requests
  <2>3. row[t] \in Terminal
    BY <2>2, <1>2 DEF ClearsOK, ClearOK
  <2> HIDE DEF op
  <2> QED BY <2>1, <2>2, <2>3, <1>4
<1>7. ASSUME NEW u \in Tasks, Register(u) \/ RegisterFails(u) \/ Resolve(u) \/ ResolveFails(u) PROVE ClearOK(i, t)'
  <2>1. /\ Runs /\ Op.do # "cancel" /\ halt'[i] = halt[i]
        /\ ask'[t] = "queued" => ask[t] = "queued"
        /\ t \in pending' => t \in pending \/ (Op.do = "register" /\ Op.tasks = {t})
    BY <1>1, <1>7 DEF Register, RegisterFails, NotForwarded, Resolve, ResolveFails, halting, requests
  <2> QED BY <2>1, <1>5
\* A cancel of somebody else runs.
<1>16. ASSUME Runs, Op.do = "cancel", i # Op.by, halt'[i] = halt[i], pending' \subseteq pending, UNCHANGED <<row, ask>>
       PROVE  ClearOK(i, t)'
  <2>2. ClearOK(i, t)
    BY <1>2, <1>16 DEF ClearsOK
  <2>3. /\ Len(queue) \in Nat \ {0} /\ Len(queue') = Len(queue) - 1
        /\ \A k \in 1..Len(queue) : k = 1 \/ /\ k > 1 /\ k - 1 \in 1..Len(queue')
                                             /\ queue'[k - 1] = queue[k]
        /\ \A k \in 1..Len(queue') : Registers(t, k)' => Registers(t, k + 1)
        /\ Op = queue[1]
    BY <1>1, <1>16, RanFor, Ran
  <2>4. ASSUME halt[i].at = "clearing"
        PROVE  \E k \in 1..Len(queue') : queue'[k] = Second(i) /\ \A l \in k..Len(queue') : ~Registers(t, l)'
    <3>1. PICK k \in 1..Len(queue) : queue[k] = Second(i) /\ \A l \in k..Len(queue) : ~Registers(t, l)
      BY <2>2, <2>4 DEF ClearOK
    <3>2. k # 1
      BY <3>1, <2>3, <1>16
    <3>3. k - 1 \in 1..Len(queue') /\ queue'[k - 1] = Second(i)
      BY <3>1, <3>2, <2>3
    <3>4. ASSUME NEW l \in (k - 1)..Len(queue') PROVE ~Registers(t, l)'
      <4>1. l \in 1..Len(queue') /\ l + 1 \in k..Len(queue)
        BY <2>3, <3>3
      <4> QED BY <4>1, <2>3, <3>1
    <3> QED BY <3>3, <3>4
  <2> QED BY <2>2, <2>4, <1>16 DEF ClearOK
<1>8. ASSUME Cancel PROVE ClearOK(i, t)'
  <2>1. /\ Runs /\ Op.do = "cancel" /\ pending' = pending \ Op.tasks /\ UNCHANGED <<row, ask>>
        /\ i # Op.by => halt'[i] = halt[i]
        /\ i = Op.by => /\ halt'[i].active = halt[i].active
                        /\ halt'[i].at = IF halt[i].at = "cancelling" THEN "cancelled" ELSE "cleared"
    BY <1>1, <1>8 DEF Cancel, Returns
  <2>2. ClearOK(i, t)
    BY <2>1, <1>2 DEF ClearsOK
  <2>3. /\ Len(queue) \in Nat \ {0} /\ Len(queue') = Len(queue) - 1
        /\ \A k \in 1..Len(queue) : k = 1 \/ /\ k > 1 /\ k - 1 \in 1..Len(queue')
                                             /\ queue'[k - 1] = queue[k]
        /\ \A k \in 1..Len(queue') : Registers(t, k)' => Registers(t, k + 1)
        /\ Op = queue[1]
    BY <1>1, <2>1, RanFor, Ran
  <2>4. CASE i # Op.by
    <3>1. halt'[i] = halt[i] /\ pending' \subseteq pending
      BY <2>1, <2>4
    <3> QED BY <3>1, <2>1, <2>4, <1>16
  <2>5. CASE i = Op.by
    <3>1. halt[i].at = "clearing" /\ halt'[i].at = "cleared"
      <4>1. 1 \in 1..Len(queue) /\ queue[1].by = i
        BY <2>3, <2>5
      <4>2. halt[i].at \in {"cancelling", "clearing"}
        BY <4>1 DEF QueueOK
      <4> QED BY <4>2, <2>1, <2>5, <1>2
    <3>2. PICK k \in 1..Len(queue) : queue[k] = Second(i) /\ \A l \in k..Len(queue) : ~Registers(t, l)
      BY <3>1, <2>2 DEF ClearOK
    <3>3. k = 1
      <4>1. 1 \in 1..Len(queue) /\ queue[1].by = i /\ queue[k].by = i
        BY <2>3, <2>5, <3>2
      <4> QED BY <4>1 DEF QueueOK
    <3>4. ask[t] # "queued"
      BY <3>2, <3>3 DEF QueueOK
    <3>5. t \notin pending'
      BY <2>1, <2>3, <3>2, <3>3
    <3> QED BY <3>1, <3>4, <3>5, <2>1, <2>2 DEF ClearOK
  <2> QED BY <2>4, <2>5
<1>17. ASSUME CancelFails PROVE ClearOK(i, t)'
  <2>1. i # Op.by /\ halt'[i] = halt[i]
    BY <1>1, <1>2, <1>17 DEF CancelFails, GivesUp
  <2>2. pending' \subseteq pending
    BY <1>17 DEF CancelFails
  <2> QED BY <2>1, <2>2, <1>16, <1>17 DEF CancelFails
<1>9. ASSUME NEW j \in Interrupters, Halt(j) PROVE ClearOK(i, t)'
  <2> DEFINE op == [do |-> "cancel", tasks |-> Active, by |-> j]
  <2>1. op \in Ops /\ op.do # "register"
    BY RowsAre DEF Ops
  <2>2. UNCHANGED <<ask, pending>> /\ queue' = Append(queue, op)
    BY <1>9 DEF Halt, requests
  <2>3. i # j /\ halt'[i] = halt[i]
    BY <1>1, <1>2, <1>9 DEF Halt
  <2> HIDE DEF op
  <2> QED BY <2>1, <2>2, <2>3, <1>4
<1>10. ASSUME NEW j \in Interrupters, HaltSettles(j) PROVE ClearOK(i, t)'
  <2>1. /\ Second(j) \in Ops /\ Second(j).do # "register"
        /\ UNCHANGED <<ask, pending>> /\ queue' = Append(queue, Second(j)) /\ row' = Settled(row, halt[j].active, "stopped")
    BY <1>10 DEF HaltSettles, Ops, requests
  <2>2. CASE i # j
    <3>1. halt'[i] = halt[i]
      BY <1>1, <1>10, <2>2 DEF HaltSettles
    <3> HIDE DEF Second
    <3> QED BY <3>1, <2>1, <1>4
  <2>3. CASE i = j
    <3>1. halt'[i].active = halt[i].active /\ halt'[i].at = "clearing"
      BY <1>1, <1>10, <2>3 DEF HaltSettles
    <3>2. row'[t] \in Terminal
      <4>1. t \in halt[j].active /\ row' = Settled(row, halt[j].active, "stopped")
        BY <3>1, <2>1, <2>3, <1>2
      <4> QED BY <4>1, <1>1, SettledIs, RowsAre
    <3>3. /\ Len(queue) \in Nat /\ Len(queue') = Len(queue) + 1
          /\ queue'[Len(queue) + 1] = Second(i)
      BY <2>1, <2>3, <1>1, Queued
    <3>4. PICK k : k = Len(queue) + 1
      OBVIOUS
    <3>5. k \in 1..Len(queue') /\ queue'[k] = Second(i) /\ \A l \in k..Len(queue') : l = k
      BY <3>3, <3>4
    <3>6. \A l \in k..Len(queue') : ~Registers(t, l)'
      BY <3>5 DEF Registers
    <3> QED BY <3>1, <3>2, <3>5, <3>6 DEF ClearOK
  <2> QED BY <2>2, <2>3
<1>11. ASSUME Restart PROVE FALSE
  BY <1>1, <1>2, <1>11 DEF Restart
<1>12. ASSUME NEW u \in Tasks, Answer(u) \/ Stop(u) PROVE ClearOK(i, t)'
  <2>1. \A op \in {[do |-> "resolve", tasks |-> {u}, by |-> u], [do |-> "cancel", tasks |-> {u}, by |-> u]} :
          op \in Ops /\ op.do # "register"
    BY DEF Ops
  <2>2. UNCHANGED queue \/ \E op \in Ops : op.do # "register" /\ queue' = Append(queue, op)
    BY <2>1, <1>12 DEF Answer, Stop
  <2>3. halt'[i] = halt[i] /\ UNCHANGED <<ask, pending>>
    BY <1>12 DEF Answer, Stop, halting, requests
  <2> QED BY <2>2, <2>3, <1>4
<1>13. ASSUME NEW u \in Tasks, Asks(u) PROVE ClearOK(i, t)'
  BY <1>1, <1>4, <1>13 DEF Asks, thread, requests, halting
<1>14. CASE UNCHANGED <<halt, ask, queue>> /\ pending' \subseteq pending
  BY <1>4, <1>14
<1>15. \/ UNCHANGED <<halt, ask, queue>> /\ pending' \subseteq pending
       \/ Cancel \/ CancelFails \/ Restart
       \/ \E u \in Tasks : \/ Forward(u) \/ Register(u) \/ RegisterFails(u) \/ Resolve(u) \/ ResolveFails(u)
                           \/ Answer(u) \/ Stop(u) \/ Asks(u)
       \/ \E j \in Interrupters : Halt(j) \/ HaltSettles(j)
  BY DEF Next, Mutation, Entering, Start, Launched, LaunchFails, ChildEnds, Complete,
         StopSettles, Unload, Load, Close, OtherStarts, vars, thread, requests, halting
<1> QED BY <1>6, <1>7, <1>8, <1>9, <1>10, <1>11, <1>12, <1>13, <1>14, <1>15, <1>17

-----------------------------------------------------------------------------
\* Nothing has begun.
LEMMA IInvInit == Init => IInv
<1> SUFFICES ASSUME Init PROVE IInv
  OBVIOUS
<1> USE TasksAssumption, TroublesAssumption, RowsAre DEF Init
<1>1. Types
  <2>1. \A t \in Tasks : row[t] = "none" /\ child[t] = NoChild /\ stopper[t] = "idle" /\ ask[t] = "none"
    OBVIOUS
  <2>2. /\ row \in [Tasks -> Rows] /\ child \in [Tasks -> Children]
        /\ \A t \in Tasks : Fits(child[t], row[t])
    <3>1. NoChild \in Children /\ Fits(NoChild, "none") /\ "none" \in Rows
      BY DEF NoChild, Children, Fits, Rows
    <3> QED BY <2>1, <3>1
  <2>3. /\ halt \in [Interrupters -> [at : Stages, active : SUBSET Tasks]]
        /\ ask \in [Tasks -> {"none", "emitted", "queued"}]
        /\ stopper \in [Tasks -> Stops]
        /\ troubles \in 0..MaxTroubles
    BY DEF Stages, Stops
  <2>4. TypesButQueue
    BY <2>2, <2>3 DEF TypesButQueue
  <2> QED BY <2>4, TypesAre
<1>2. \A k \in 1..Len(queue) : FALSE
  OBVIOUS
<1>3. QueueOK /\ StartedOK
  BY <1>2 DEF QueueOK, StartedOK
<1>4. RunsOK /\ HaltsOK /\ AsksOK /\ ClearsOK
  BY DEF RunsOK, HaltsOK, AsksOK, AskOK, ClearsOK, ClearOK
<1> QED BY <1>1, <1>3, <1>4 DEF IInv

\* Each part is kept with the help of the ones before it.
LEMMA IInvStep == IInv /\ [Next]_vars => IInv'
<1> SUFFICES ASSUME IInv, [Next]_vars PROVE IInv'
  OBVIOUS
<1>1. Types /\ QueueOK /\ StartedOK /\ RunsOK /\ HaltsOK /\ AsksOK /\ ClearsOK
  BY DEF IInv
<1> QED
  BY <1>1, TypesStep, QueueStep, StartedStep, RunsStep, HaltsStep, AsksStep, ClearsStep DEF IInv

\* What the rows, the runs, the interrupts, the queue and the pending requests
\* of a root thread agree on, whatever is stopped, interrupted, closed or
\* restarted in between.
THEOREM Invariant == Spec => []IInv
BY IInvInit, IInvStep, PTL DEF Spec

\* Every variable has its type.
THEOREM TypeCorrect == Spec => []TypeOK
<1>1. IInv => TypeOK
  BY DEF IInv, Types
<1> QED BY <1>1, Invariant, PTL

\* The run of a task that is over has been interrupted or is over too, or will
\* be interrupted when it is launched.
THEOREM NoRunOutlives == Spec => []NoRunOutlivesTask
<1>1. IInv => NoRunOutlivesTask
  BY DEF IInv, RunsOK, NoRunOutlivesTask
<1> QED BY <1>1, Invariant, PTL

\* A request that is pending has a run that waits for it, or a cancel behind it.
THEOREM PendingAnswerable == Spec => []PendingIsAnswerable
<1>1. IInv => PendingIsAnswerable
  <2> SUFFICES ASSUME IInv, NEW t \in pending \ late
               PROVE  child[t].waits \/ \E k \in 1..Len(queue) : queue[k].do = "cancel" /\ t \in queue[k].tasks
    BY DEF PendingIsAnswerable
  <2>1. t \in Tasks \ late
    BY DEF IInv, Types, TypeOK
  <2>2. AskOK(t)
    BY <2>1 DEF IInv, AsksOK
  <2> QED BY <2>2 DEF AskOK, Cancels
<1> QED BY <1>1, Invariant, PTL

\* A task that an interrupt has stopped asks nothing once its second cancel has
\* run, neither in the thread nor in its queue.
THEOREM ClearedAsks == Spec => []ClearedAsksNothing
<1>1. IInv => ClearedAsksNothing
  <2> SUFFICES ASSUME IInv, NEW i \in Interrupters, halt[i].at = "cleared", NEW t \in halt[i].active
               PROVE  /\ t \notin pending
                      /\ \A k \in 1..Len(queue) : queue[k].do = "register" => queue[k].tasks # {t}
    BY DEF ClearedAsksNothing
  <2>1. t \in Tasks /\ t \notin pending /\ ask[t] # "queued"
    BY DEF IInv, Types, TypeOK, ClearsOK, ClearOK
  <2> QED BY <2>1 DEF IInv, QueueOK, Registers
<1> QED BY <1>1, Invariant, PTL

\* Whatever ends a task first decides: a terminal row never changes again.
THEOREM TerminalFinal == Spec => TerminalIsFinal
<1>1. IInv /\ [Next]_vars => [\A t \in Tasks : row[t] \in Terminal => row'[t] = row[t]]_vars
  BY RowsMove DEF IInv, RowMoves
<1> QED BY <1>1, Invariant, PTL DEF Spec, TerminalIsFinal

\* An interrupt of the root turn that has the tree to itself leaves no task
\* running, those included that were started while it was under way.
THEOREM HaltStops == Spec => HaltStopsAll
<1> DEFINE StopsAll(i) == /\ halt[i].at = "cancelled" /\ halt'[i].at \in {"clearing", "cleared"}
                       /\ troubles' = troubles /\ "overlap" \notin causes
<1>1. ASSUME IInv, Next, NEW i \in Interrupters, StopsAll(i), NEW t \in Tasks PROVE row'[t] # "running"
  <2>1. /\ row \in [Tasks -> Rows] /\ queue \in Seq(Ops)
        /\ halt \in [Interrupters -> [at : Stages, active : SUBSET Tasks]]
        /\ troubles \in Nat
    BY <1>1, TypesAre, TroublesAssumption DEF IInv, TypesButQueue
  <2>2. ~Restart /\ \A j \in Interrupters : ~Halt(j) \/ j # i
    BY <2>1, <1>1 DEF Restart, Trouble, Halt
  <2>7. ~CancelFails /\ \A u \in Tasks : ~RegisterFails(u) /\ ~ResolveFails(u)
    BY <2>1, <1>1 DEF CancelFails, RegisterFails, ResolveFails, Trouble
  <2>3. ASSUME Cancel PROVE FALSE
    <3>1. i = Op.by
      BY <2>1, <2>3, <1>1 DEF Cancel, Returns
    <3>2. 1 \in 1..Len(queue) /\ queue[1] = Op
      BY <2>1, <2>3, Ran DEF Cancel
    <3> QED BY <3>1, <3>2, <1>1 DEF IInv, QueueOK
  <2>4. HaltSettles(i)
    <3>1. halt'[i] # halt[i]
      BY <1>1
    <3>2. \A j \in Interrupters \ {i} : ~HaltSettles(j) /\ ~Halt(j)
      BY <3>1, <2>1 DEF HaltSettles, Halt
    <3> QED BY <3>1, <3>2, <2>2, <2>3, <2>7, <1>1
          DEF Next, Mutation, Entering, Start, Launched, LaunchFails, Asks, Forward, ChildEnds, Complete, Answer,
              Stop, StopSettles, Register, RegisterFails, Resolve, ResolveFails, Unload, Load, Close, OtherStarts, halting
  <2>5. row[t] = "running" => t \in halt[i].active
    BY <1>1, RowsAre DEF IInv, HaltsOK
  <2>6. /\ t \in halt[i].active /\ row[t] \notin Terminal => row'[t] = "stopped"
        /\ t \notin halt[i].active \/ row[t] \in Terminal => row'[t] = row[t]
    BY <2>1, <2>4, SettledIs, RowsAre DEF HaltSettles
  <2> QED BY <2>5, <2>6, RowsAre
<1>2. IInv /\ [Next]_vars =>
        [\A i \in Interrupters :
           /\ halt[i].at = "cancelled" /\ halt'[i].at \in {"clearing", "cleared"}
           /\ troubles' = troubles /\ "overlap" \notin causes
           => \A t \in Tasks : row'[t] # "running"]_vars
  BY <1>1
<1> QED BY <1>2, Invariant, PTL DEF Spec, HaltStopsAll
=============================================================================
