----------------------------- MODULE ThreadStore ------------------------------
(***************************************************************************)
(* One thread in the persistent store: its JSONL log                       *)
(* (storage/threads/thread-log.ts), the SQLite catalog that projects it    *)
(* (features/thread/catalog-store.ts), and the store that writes both and  *)
(* recovers them at start (features/thread/store.ts).  Every client spawns *)
(* a Server of its own over the same files, so several may be up, and each *)
(* may die between any two steps.                                          *)
(*                                                                         *)
(* A log file is its number of records, what projecting them yields, and   *)
(* whether readPath accepts it.  Records that change nothing of that       *)
(* (deltas, updates, usage, goals) are left out.  The lease is taken and   *)
(* given back in one step, and a dead Server's is free: how the lock file  *)
(* achieves that, and when it does not, is ThreadLease's concern.  What a  *)
(* process wrote survives its death; power failures are left out.          *)
(***************************************************************************)
EXTENDS Naturals, Sequences

CONSTANTS
  Servers,   \* the Server processes
  Nobody,    \* no Server
  MaxLen     \* bound: no log grows beyond this many records, nor any nextSeq

ASSUME NobodyAssumption == Nobody \notin Servers
ASSUME MaxLenAssumption == MaxLen \in Nat \ {0}

VARIABLES
  file,      \* the active and the archived log
  row,       \* the catalog's row of the thread
  empty,     \* the active log has been opened and has no record yet
  born,      \* the creation of the thread has begun
  holder,    \* who has the lease
  stage,     \* where each Server is in initialize, or whether it is ready
  plan,      \* the records its recovery has still to append
  seen,      \* what reconciling has listed and read of the thread
  state,     \* the loaded ThreadState: its projection, or none
  writer,    \* nextSeq of the Server's writer; 0 when it has none
  unapplied, \* the record on disk that no listener has seen yet
  task,      \* the archive, unarchive or delete it is in
  causes     \* history: what the guarantees below do not cover

serverVars == <<stage, plan, seen, state, writer, unapplied, task>>
vars == <<file, empty, row, born, holder, serverVars, causes>>

Places == {"active", "archived"}

Kinds ==
  {"created", "turn", "item", "call", "request", "resolved", "done", "result",
   "ended", "interrupted", "status", "archived", "unarchived"}

Statuses == {"idle", "running", "awaiting", "interrupted", "archived"}

\* What a snapshot tells of a thread: whether a turn and one Command Run item
\* of it are in progress, whether the transcript has the item's tool call
\* without its result, and whether a Server Request is pending.
Views ==
  [turn : BOOLEAN, item : BOOLEAN, call : BOOLEAN, request : BOOLEAN,
   archived : BOOLEAN, status : Statuses]

Fresh == [turn |-> FALSE, item |-> FALSE, call |-> FALSE, request |-> FALSE,
          archived |-> FALSE, status |-> "idle"]

Absent == [len |-> 0, view |-> Fresh, ok |-> TRUE]
NoRow  == [seq |-> 0, view |-> Fresh]
NoRecord == [seq |-> 0, kind |-> "created"]
Unseen == [place |-> "none", seq |-> 0, view |-> Fresh]

Init ==
  /\ file = [p \in Places |-> Absent]
  /\ empty = FALSE
  /\ row = NoRow
  /\ born = FALSE
  /\ holder = Nobody
  /\ stage = [s \in Servers |-> "down"]
  /\ plan = [s \in Servers |-> <<>>]
  /\ seen = [s \in Servers |-> Unseen]
  /\ state = [s \in Servers |-> NoRow]
  /\ writer = [s \in Servers |-> 0]
  /\ unapplied = [s \in Servers |-> NoRecord]
  /\ task = [s \in Servers |-> "none"]
  /\ causes = {}

Up(s)       == stage[s] # "down"
Ready(s)    == stage[s] = "ready"
Loaded(s)   == state[s].seq > 0
Pending(s)  == unapplied[s].seq > 0
Exists(p)   == file[p].len > 0
Readable(p) == Exists(p) /\ file[p].ok
Opened      == Exists("active") \/ empty
LeaseFree   == holder = Nobody

-----------------------------------------------------------------------------
(***************************************************************************)
(* Projection and the log                                                  *)
(***************************************************************************)

\* applyThreadRecord, and applyCatalogRecord alike.
Project(v, kind) ==
  CASE kind = "created"     -> Fresh
    [] kind = "turn"        -> [v EXCEPT !.turn = TRUE, !.call = FALSE,
                                  !.status = "running"]
    [] kind = "item"        -> [v EXCEPT !.item = TRUE]
    [] kind = "call"        -> [v EXCEPT !.call = TRUE]
    [] kind = "request"     -> [v EXCEPT !.request = TRUE, !.status = "awaiting"]
    [] kind = "resolved"    -> [v EXCEPT !.request = FALSE,
                                  !.status = IF v.turn THEN "running" ELSE "idle"]
    [] kind = "done"        -> [v EXCEPT !.item = FALSE]
    [] kind = "result"      -> [v EXCEPT !.call = FALSE]
    [] kind = "ended"       -> [v EXCEPT !.turn = FALSE, !.status = "idle"]
    [] kind = "interrupted" -> [v EXCEPT !.turn = FALSE, !.status = "interrupted"]
    [] kind = "status"      -> [v EXCEPT !.status = "interrupted"]
    [] kind = "archived"    -> [v EXCEPT !.archived = TRUE, !.status = "archived"]
    [] kind = "unarchived"  -> [v EXCEPT !.archived = FALSE, !.status = "idle"]

\* appendQueued's write.  The file is opened with 'a', which creates it; a
\* line readPath does not expect makes the whole log unreadable.
Grown(f, seq, kind) ==
  [len  |-> f.len + 1,
   view |-> Project(f.view, kind),
   ok   |-> /\ f.ok
            /\ seq = f.len + 1
            /\ seq = 1 <=> kind = "created"]

\* writerFor: the writer of this Server if it has one, else one read off the
\* log, which has to be readable.
HasWriter(s) == writer[s] > 0 \/ Readable("active")
NextSeq(s)   == IF writer[s] > 0 THEN writer[s] ELSE file["active"].len + 1

Room(s) == file["active"].len < MaxLen /\ NextSeq(s) <= MaxLen

\* The queue of s writes one record; its listener runs later.
Write(s, kind) ==
  /\ ~Pending(s) /\ HasWriter(s) /\ Room(s)
  /\ file' = [file EXCEPT !["active"] = Grown(@, NextSeq(s), kind)]
  /\ writer' = [writer EXCEPT ![s] = NextSeq(s)]
  /\ unapplied' = [unapplied EXCEPT ![s] = [seq |-> NextSeq(s), kind |-> kind]]

\* MUTANT of Advance: the writer's nextSeq stays.
AdvanceNot(s) == UNCHANGED writer

\* nextSeq += 1, unless the writer has been forgotten meanwhile.
Advance(s) == writer' = [writer EXCEPT ![s] = IF @ = 0 THEN 0 ELSE @ + 1]

\* The writer moves on, then the catalog applies the record and the loaded
\* state does.  Each takes only the record after the one it has: if the
\* catalog throws, the state never sees the record.
Apply(s) ==
  LET u     == unapplied[s]
      fits  == row.seq = u.seq - 1
      first == u.kind = "created"
  IN  /\ Pending(s)
      /\ unapplied' = [unapplied EXCEPT ![s] = NoRecord]
      /\ Advance(s)
      /\ row' = IF fits THEN [seq |-> u.seq, view |-> Project(row.view, u.kind)]
                        ELSE row
      /\ state' = [state EXCEPT ![s] =
                     IF fits /\ @.seq = u.seq - 1 /\ (Loaded(s) \/ first)
                     THEN [seq |-> u.seq, view |-> Project(@.view, u.kind)] ELSE @]
      /\ holder' = IF first /\ ~fits THEN Nobody ELSE holder
      /\ UNCHANGED <<file, empty, born, stage, plan, seen, task>>

-----------------------------------------------------------------------------
(***************************************************************************)
(* initialize: recovery, then reconciling the catalog                      *)
(***************************************************************************)

\* s stops, with nothing left of what it held in memory.
Stop(s) ==
  /\ stage' = [stage EXCEPT ![s] = "down"]
  /\ plan' = [plan EXCEPT ![s] = <<>>]
  /\ seen' = [seen EXCEPT ![s] = Unseen]
  /\ state' = [state EXCEPT ![s] = NoRow]
  /\ writer' = [writer EXCEPT ![s] = 0]
  /\ unapplied' = [unapplied EXCEPT ![s] = NoRecord]
  /\ task' = [task EXCEPT ![s] = "none"]

GoTo(s, next) == stage' = [stage EXCEPT ![s] = next]

Boot(s) ==
  /\ stage[s] = "down"
  /\ GoTo(s, "scan")
  /\ UNCHANGED <<file, empty, row, born, holder, plan, seen, state, writer, unapplied, task>>

\* MUTANT of RecoveryPlan: a turn that had ended is not looked at, so its
\* pending request stays.
RecoveryPlanOfTurn(v) ==
  IF ~v.turn THEN <<>>
  ELSE (IF v.item THEN <<"done">> ELSE <<>>) \o <<"interrupted">>
       \o (IF v.request THEN <<"resolved">> ELSE <<>>) \o <<"status">>

\* What recoverInterruptedThreads appends to a log that projects to v: the
\* items and the turn are closed, a call that is still without a result gets
\* one with its item, requests are cancelled, and the status goes last.
RecoveryPlan(v) ==
  (IF v.turn /\ v.item THEN <<"done">> ELSE <<>>)
  \o (IF v.turn /\ v.item /\ v.call THEN <<"result">> ELSE <<>>)
  \o (IF v.turn THEN <<"interrupted">> ELSE <<>>)
  \o (IF v.request THEN <<"resolved">> ELSE <<>>)
  \o (IF v.turn \/ v.request THEN <<"status">> ELSE <<>>)

\* No active log, or tryAcquire finds the lease taken: the thread is skipped.
ScanSkip(s) ==
  /\ stage[s] = "scan"
  /\ \/ ~Opened /\ UNCHANGED seen
     \/ /\ Opened /\ ~LeaseFree
        /\ seen' = [seen EXCEPT ![s].place = "skip"]
  /\ GoTo(s, "list")
  /\ UNCHANGED <<file, empty, row, born, holder, plan, state, writer, unapplied, task>>

ScanTake(s) ==
  /\ stage[s] = "scan" /\ Readable("active") /\ LeaseFree
  /\ holder' = s
  /\ plan' = [plan EXCEPT ![s] = RecoveryPlan(file["active"].view)]
  /\ GoTo(s, "repair")
  /\ UNCHANGED <<file, empty, row, born, seen, state, writer, unapplied, task>>

\* A log that cannot be read, an empty one among them, stops the Server.
ScanFails(s) ==
  /\ stage[s] = "scan" /\ Opened /\ ~Readable("active") /\ LeaseFree
  /\ Stop(s)
  /\ holder' = Nobody
  /\ UNCHANGED <<file, empty, row, born>>

\* logs.append: nothing listens yet, and the catalog is not told.
Repair(s) ==
  /\ stage[s] = "repair" /\ plan[s] # <<>>
  /\ HasWriter(s) /\ Room(s)
  /\ file' = [file EXCEPT !["active"] = Grown(@, NextSeq(s), Head(plan[s]))]
  /\ writer' = [writer EXCEPT ![s] = NextSeq(s) + 1]
  /\ plan' = [plan EXCEPT ![s] = Tail(@)]
  /\ UNCHANGED <<empty, row, born, holder, stage, seen, state, unapplied, task>>

RepairEnds(s) ==
  /\ stage[s] = "repair" /\ plan[s] = <<>>
  /\ holder' = Nobody
  /\ GoTo(s, "list")
  /\ UNCHANGED <<file, empty, row, born, plan, seen, state, writer, unapplied, task>>

\* Which log there is; a thread with both is corrupt.
List(s) ==
  /\ stage[s] = "list" /\ ~(Exists("active") /\ Exists("archived"))
  /\ IF Opened /\ seen[s].place = "skip"
     THEN GoTo(s, "ready") /\ seen' = [seen EXCEPT ![s] = Unseen]
     ELSE /\ GoTo(s, "read")
          /\ seen' = [seen EXCEPT ![s].place =
                        IF Opened THEN "active"
                        ELSE IF Exists("archived") THEN "archived" ELSE "none"]
  /\ UNCHANGED <<file, empty, row, born, holder, plan, state, writer, unapplied, task>>

ReadLog(s) ==
  /\ stage[s] = "read"
  /\ LET p == seen[s].place
     IN  IF p = "none" THEN UNCHANGED seen
         ELSE /\ Readable(p)
              /\ seen' = [seen EXCEPT ![s].seq = file[p].len,
                                      ![s].view = file[p].view]
  /\ GoTo(s, "compare")
  /\ UNCHANGED <<file, empty, row, born, holder, plan, state, writer, unapplied, task>>

ReconcileFails(s) ==
  /\ \/ stage[s] = "list" /\ Exists("active") /\ Exists("archived")
     \/ stage[s] = "read" /\ seen[s].place # "none" /\ ~Readable(seen[s].place)
  /\ Stop(s)
  /\ UNCHANGED <<file, empty, row, born, holder>>

\* MUTANT of Stale: the sequence numbers are not compared.
StaleIfMissing(s) == row.seq = 0

\* The row differs from what was read of the log.
Stale(s) ==
  row.seq # seen[s].seq \/ row.view.archived # seen[s].view.archived

\* The row is rebuilt from what was read, or deleted when no log was listed.
Reconcile(s) ==
  /\ stage[s] = "compare"
  /\ row' = IF seen[s].place = "none" THEN NoRow
            ELSE IF Stale(s) THEN [seq |-> seen[s].seq, view |-> seen[s].view]
            ELSE row
  /\ seen' = [seen EXCEPT ![s] = Unseen]
  /\ GoTo(s, "ready")
  /\ UNCHANGED <<file, empty, born, holder, plan, state, writer, unapplied, task>>

-----------------------------------------------------------------------------
(***************************************************************************)
(* A Server that is ready                                                  *)
(***************************************************************************)

\* store.create under a new id: the lease is taken and the log is opened with
\* 'wx'.  No client has the id before its creation has ended.
Open(s) ==
  /\ Ready(s) /\ ~born /\ ~Pending(s)
  /\ GoTo(s, "create")
  /\ born' = TRUE
  /\ holder' = s
  /\ empty' = TRUE
  /\ UNCHANGED <<file, row, plan, seen, state, writer, unapplied, task>>

\* The first record is written.
Create(s) ==
  /\ stage[s] = "create"
  /\ GoTo(s, "ready")
  /\ file' = [file EXCEPT !["active"] = Grown(@, 1, "created")]
  /\ empty' = FALSE
  /\ writer' = [writer EXCEPT ![s] = 1]
  /\ unapplied' = [unapplied EXCEPT ![s] = [seq |-> 1, kind |-> "created"]]
  /\ UNCHANGED <<row, born, holder, plan, seen, state, task>>

\* The write or the sync throws: what is in the file then stays there, nothing
\* that readPath accepts or the whole record.
CreateFails(s) ==
  /\ stage[s] = "create"
  /\ GoTo(s, "ready")
  /\ \/ UNCHANGED <<file, empty>>
     \/ file' = [file EXCEPT !["active"] = Grown(@, 1, "created")] /\ empty' = FALSE
  /\ holder' = Nobody
  /\ UNCHANGED <<row, born, plan, seen, state, writer, unapplied, task>>

\* store.load: the state starts from the log; a writer of s stays.
Load(s) ==
  /\ Ready(s) /\ ~Loaded(s) /\ ~Pending(s)
  /\ LeaseFree /\ Readable("active")
  /\ holder' = s
  /\ state' = [state EXCEPT ![s] = [seq  |-> file["active"].len,
                                   view |-> file["active"].view]]
  /\ UNCHANGED <<file, empty, row, born, stage, plan, seen, writer, unapplied, task>>

\* What the loaded state appends, judging by its own projection.  A turn may
\* go on, and end, before the answer to its request is recorded.
MayAppend(v) ==
  {k \in {"turn", "item", "call", "request", "resolved", "done", "result", "ended"} :
     CASE k = "turn"     -> ~v.turn
       [] k = "item"     -> v.turn /\ ~v.item /\ ~v.call
       [] k = "call"     -> v.turn /\ ~v.call
       [] k = "request"  -> v.turn /\ v.item /\ ~v.request
       [] k = "resolved" -> v.request
       [] k = "done"     -> v.item
       [] k = "result"   -> v.call /\ ~v.item
       [] k = "ended"    -> v.turn /\ ~v.item /\ ~v.call}

AppendRecord(s) ==
  /\ Ready(s) /\ Loaded(s)
  /\ \E k \in MayAppend(state[s].view) : Write(s, k)
  /\ UNCHANGED <<empty, row, born, holder, stage, plan, seen, state, task>>

\* The write or the sync throws, after a part of the line or all of it.
AppendFails(s) ==
  /\ Ready(s) /\ Loaded(s) /\ ~Pending(s) /\ HasWriter(s) /\ Room(s)
  /\ \/ file' = [file EXCEPT !["active"].ok = FALSE]
     \/ \E k \in MayAppend(state[s].view) :
          file' = [file EXCEPT !["active"] = Grown(@, NextSeq(s), k)]
  /\ writer' = [writer EXCEPT ![s] = NextSeq(s)]
  /\ UNCHANGED <<empty, row, born, holder, stage, plan, seen, state, unapplied, task>>

\* unloadNow: refused while the state has a turn or a pending request.
Unload(s) ==
  /\ Loaded(s) /\ ~Pending(s)
  /\ ~state[s].view.turn /\ ~state[s].view.request
  /\ state' = [state EXCEPT ![s] = NoRow]
  /\ holder' = Nobody
  /\ UNCHANGED <<file, empty, row, born, stage, plan, seen, writer, unapplied, task>>

\* A lifecycle operation starts on a thread its own Server has not loaded.
MayStart(s) == Ready(s) /\ ~Loaded(s) /\ task[s] = "none"

Continue(s, next) == task' = [task EXCEPT ![s] = next]

Archive(s) ==
  /\ MayStart(s) /\ HasWriter(s) /\ ~Pending(s)
  /\ Continue(s, "archive")
  /\ UNCHANGED <<file, empty, row, born, holder, stage, plan, seen, state, writer, unapplied>>

ArchiveAppend(s) ==
  /\ task[s] = "archive" /\ Write(s, "archived")
  /\ Continue(s, "flush")
  /\ UNCHANGED <<empty, row, born, holder, stage, plan, seen, state>>

\* logs.archive waits for the queue it finds; a later append is not waited for.
ArchiveFlush(s) ==
  /\ task[s] = "flush" /\ ~Pending(s)
  /\ Continue(s, "rename")
  /\ UNCHANGED <<file, empty, row, born, holder, stage, plan, seen, state, writer, unapplied>>

\* rename replaces what has the new name.
ArchiveRename(s) ==
  /\ task[s] = "rename"
  /\ IF Exists("active")
     THEN /\ file' = [active |-> Absent, archived |-> file["active"]]
          /\ Continue(s, "moved")
     ELSE Continue(s, "none") /\ UNCHANGED file
  /\ UNCHANGED <<empty, row, born, holder, stage, plan, seen, state, writer, unapplied>>

\* Once rename has returned, the writer of s is forgotten.
ArchiveEnds(s) ==
  /\ task[s] = "moved"
  /\ writer' = [writer EXCEPT ![s] = 0]
  /\ Continue(s, "none")
  /\ UNCHANGED <<file, empty, row, born, holder, stage, plan, seen, state, unapplied>>

Unarchive(s) ==
  /\ MayStart(s) /\ Exists("archived") /\ ~Pending(s)
  /\ file' = [active |-> file["archived"], archived |-> Absent]
  /\ Continue(s, "unarchive")
  /\ UNCHANGED <<empty, row, born, holder, stage, plan, seen, state, writer, unapplied>>

UnarchiveAppend(s) ==
  /\ task[s] = "unarchive" /\ Write(s, "unarchived")
  /\ Continue(s, "none")
  /\ UNCHANGED <<empty, row, born, holder, stage, plan, seen, state>>

\* writerFor throws: the operation ends here.
LifecycleFails(s) ==
  /\ task[s] \in {"archive", "unarchive"} /\ ~HasWriter(s)
  /\ Continue(s, "none")
  /\ UNCHANGED <<file, empty, row, born, holder, stage, plan, seen, state, writer, unapplied>>

Delete(s) ==
  /\ MayStart(s) /\ ~Pending(s)
  /\ \E p \in Places :
       /\ Exists(p) /\ (p = "archived" => ~Exists("active"))
       /\ file' = [file EXCEPT ![p] = Absent]
  /\ Continue(s, "delete")
  /\ UNCHANGED <<empty, row, born, holder, stage, plan, seen, state, writer, unapplied>>

\* Once rm has returned, the writer and the row go.
DeleteRow(s) ==
  /\ task[s] = "delete"
  /\ writer' = [writer EXCEPT ![s] = 0]
  /\ row' = NoRow
  /\ Continue(s, "none")
  /\ UNCHANGED <<file, empty, born, holder, stage, plan, seen, state, unapplied>>

\* The process dies; its lease is free for whoever looks.
Crash(s) ==
  /\ Up(s)
  /\ Stop(s)
  /\ holder' = IF holder = s THEN Nobody ELSE holder
  /\ UNCHANGED <<file, empty, row, born>>

-----------------------------------------------------------------------------
(***************************************************************************)
(* What happens outside the guarantees                                     *)
(***************************************************************************)

\* A lifecycle operation takes no lease: it meets a loaded thread, another
\* such operation, or the writer another Server has kept.
Overlap ==
  \E s \in Servers :
    /\ task[s] # "none"
    /\ \/ holder # Nobody
       \/ \E t \in Servers \ {s} : task[t] # "none" \/ writer[t] > 0

\* Two Servers that are up have each kept a writer.
HandedOver ==
  \E s \in Servers : \E t \in Servers \ {s} : writer[s] > 0 /\ writer[t] > 0

\* A Server reconciles while another one works on the thread.
StartBeside ==
  \E s \in Servers : \E t \in Servers \ {s} :
    /\ stage[s] \in {"list", "read", "compare"}
    /\ \/ task[t] # "none"
       \/ seen[s].place # "skip" /\ (Pending(t) \/ holder = t)

Present ==
  (IF Overlap THEN {"overlap"} ELSE {})
  \union (IF HandedOver THEN {"handover"} ELSE {})
  \union (IF StartBeside THEN {"start"} ELSE {})

Step(s) ==
  \/ Apply(s) \/ Boot(s) \/ ScanSkip(s) \/ ScanTake(s) \/ ScanFails(s)
  \/ Repair(s) \/ RepairEnds(s) \/ List(s) \/ ReadLog(s) \/ ReconcileFails(s)
  \/ Reconcile(s) \/ Open(s) \/ Create(s) \/ Load(s) \/ AppendRecord(s) \/ Unload(s)
  \/ Archive(s) \/ ArchiveAppend(s) \/ ArchiveFlush(s) \/ ArchiveRename(s)
  \/ ArchiveEnds(s)
  \/ Unarchive(s) \/ UnarchiveAppend(s) \/ LifecycleFails(s)
  \/ Delete(s) \/ DeleteRow(s)

\* What the death of s adds: other Servers that are up find out late, and a
\* log that s has just opened stays empty.
DeathOf(s) ==
  (IF \E t \in Servers \ {s} : Up(t) THEN {"crash"} ELSE {})
  \union (IF stage[s] = "create" THEN {"creation"} ELSE {})

Next ==
  \E s \in Servers :
    \/ Step(s) /\ causes' = causes \union Present'
    \/ /\ AppendFails(s) \/ CreateFails(s)
       /\ causes' = causes \union Present' \union {"failure"}
    \/ Crash(s) /\ causes' = causes \union Present' \union DeathOf(s)

Spec == Init /\ [][Next]_vars

-----------------------------------------------------------------------------
(***************************************************************************)
(* Properties                                                              *)
(***************************************************************************)

TypeOK ==
  /\ file \in [Places -> [len : 0..MaxLen, view : Views, ok : BOOLEAN]]
  /\ empty \in BOOLEAN
  /\ row \in [seq : 0..MaxLen, view : Views]
  /\ born \in BOOLEAN
  /\ holder \in Servers \union {Nobody}
  /\ stage \in [Servers -> {"down", "scan", "repair", "list", "read", "compare",
                            "create", "ready"}]
  /\ plan \in [Servers -> Seq(Kinds)]
  /\ seen \in [Servers -> [place : Places \union {"none", "skip"},
                           seq : 0..MaxLen, view : Views]]
  /\ state \in [Servers -> [seq : 0..MaxLen, view : Views]]
  /\ writer \in [Servers -> 0..(MaxLen + 1)]
  /\ unapplied \in [Servers -> [seq : 0..MaxLen, kind : Kinds]]
  /\ task \in [Servers -> {"none", "archive", "flush", "rename", "moved",
                           "unarchive", "delete"}]
  /\ causes \subseteq {"overlap", "handover", "start", "failure", "crash",
                      "creation"}

\* Over any number of restarts, deaths in the middle of recovery included,
\* a thread has one log and every reader accepts it, but for the moment in
\* which its creator has opened it and not written to it: as long as no
\* lifecycle operation met a loaded thread, no two Servers kept a writer, no
\* write failed and no Server died in that moment.  After such a death no
\* Server starts any more.
OneReadableLog ==
  causes \subseteq {"start", "crash"} =>
    /\ ~(Exists("active") /\ Exists("archived"))
    /\ \A p \in Places : file[p].ok
    /\ empty => \E s \in Servers : stage[s] = "create"

\* No write is under way and at least one Server has started.
Quiet ==
  /\ \E s \in Servers : Ready(s)
  /\ \A s \in Servers : ~Pending(s) /\ task[s] # "delete"
                        /\ stage[s] \notin {"scan", "repair", "list", "read", "compare", "create"}

\* Log and catalog have no common transaction, yet between writes the row is
\* exactly what the log projects to, and there is none without a log: the
\* records a death kept from the catalog are found at the next start.
CatalogInStep ==
  causes = {} /\ Quiet =>
    IF \E p \in Places : Exists(p)
    THEN \E p \in Places :
           Exists(p) /\ row = [seq |-> file[p].len, view |-> file[p].view]
    ELSE row = NoRow

\* Once a Server has started, a thread that nobody has loaded shows no turn,
\* item or request in progress, however often recovery itself was cut off.
RecoveredClean ==
  causes = {} /\ (\E s \in Servers : Ready(s)) /\ holder = Nobody =>
    \A p \in Places : LET v == file[p].view
                      IN  ~v.turn /\ ~v.item /\ ~v.request
                          /\ v.status \notin {"running", "awaiting"}

(***************************************************************************)
(* What the documentation says and the code does not do                    *)
(***************************************************************************)

\* The lease owns the thread across processes
\* (docs/agent/thread-runtime-and-event-log.md:46) and its sequence is
\* contiguous: so handing the thread from one Server to another, each with
\* the lease and unharmed, leaves a readable log.
HandoverKeepsLog ==
  causes \subseteq {"handover"} => \A p \in Places : file[p].ok

\* Archiving creates no second log (thread-log.test.ts:162), also when the
\* thread is loaded again meanwhile by the same Server.
ArchiveKeepsOneLog ==
  causes \subseteq {"overlap"} => ~(Exists("active") /\ Exists("archived"))
=============================================================================
