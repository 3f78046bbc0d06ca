--------------------------- MODULE ThreadStoreProofs ---------------------------
(***************************************************************************)
(* Proofs about ThreadStore, for any Servers and any bound on the log.     *)
(*                                                                         *)
(* What the code guarantees depends on what has gone wrong so far, and so  *)
(* does the invariant, in three layers.  Whatever happened, a Server has   *)
(* in memory what its stage allows and the lease is held for a reason      *)
(* (AlwaysOK).  As long as nobody but a starting or a dying Server has got *)
(* in the way, there is one log, and who has a writer numbers the next     *)
(* record right (LogOK).  As long as nothing has, every Server knows what  *)
(* the log had when it looked, the catalog projects the first records of   *)
(* the log, and what a recovery has still to append makes it clean         *)
(* (StepsOK).                                                              *)
(*                                                                         *)
(* The catalog is behind for the whole time between a death and the next   *)
(* start that finds it: CatalogOK says of every such moment who will still *)
(* reconcile.  That nobody worked on the thread meanwhile is what the      *)
(* history tells (Exclusions), of the state before a step and after it.    *)
(***************************************************************************)
EXTENDS ThreadStore, SequenceTheorems, TLAPS

\* The stages of reconcileCatalog.
Reading == {"list", "read", "compare"}

\* Where a Server is in its start says what it may have in memory.
StageOK(s) ==
  /\ ~Ready(s) => ~Loaded(s) /\ ~Pending(s) /\ task[s] = "none"
  /\ stage[s] \in {"down", "scan"} => writer[s] = 0
  /\ stage[s] # "repair" => plan[s] = <<>>
  /\ plan[s] \in Seq(Kinds \ {"created"})
  /\ stage[s] \notin Reading => seen[s].place = "none"
  /\ stage[s] = "list" => seen[s].place \in {"none", "skip"}
  /\ stage[s] \in {"read", "compare"} => seen[s].place # "skip"

\* The lease is held for a recovery, a new thread or a loaded one.
Creating(s) == Pending(s) /\ unapplied[s].kind = "created"

LeaseOK(s) ==
  /\ holder = s <=> Loaded(s) \/ stage[s] \in {"repair", "create"} \/ Creating(s)
  /\ Creating(s) => ~Loaded(s) /\ unapplied[s].seq = 1
  /\ Pending(s) => writer[s] <= MaxLen

\* The log has its first record, or had it once.
Made == born /\ ~empty

\* There is nothing of a thread whose log was never written.
BornOK ==
  /\ ~Made =>
       /\ row = NoRow /\ \A p \in Places : file[p] = Absent
       /\ \A s \in Servers : ~Pending(s) /\ writer[s] = 0 /\ task[s] = "none"
                             /\ stage[s] # "repair" /\ ~Loaded(s)
                             /\ (stage[s] = "compare" => seen[s].place = "none")
  /\ ~born => ~empty /\ \A s \in Servers : seen[s].place = "none"
  /\ \A s \in Servers : stage[s] = "create" => born /\ empty

\* While one Server works on the thread at a time there is one log, and who
\* has a writer will number the next record right.
OneLog ==
  /\ ~(Exists("active") /\ Exists("archived"))
  /\ \A p \in Places : file[p].ok /\ (~Exists(p) => file[p] = Absent)

\* A writer numbers behind the record it has just written, and the log is where
\* the operation that Server is in needs it.
WriterOK(s) ==
  /\ Pending(s) => writer[s] > 0 /\ unapplied[s].seq = writer[s]
  /\ task[s] \in {"rename", "moved", "delete"} => ~Pending(s)
  /\ writer[s] > 0 /\ task[s] \notin {"moved", "delete"} =>
       Exists("active") /\ writer[s] = file["active"].len + (IF Pending(s) THEN 0 ELSE 1)
  /\ task[s] \in {"archive", "flush", "rename", "unarchive"} => Exists("active")
  /\ task[s] = "delete" => \A p \in Places : ~Exists(p)
  /\ stage[s] = "repair" => Exists("active")
  /\ Loaded(s) => Exists("active")

\* A log without a record has its creator at work on it.
Begun == empty => \E s \in Servers : stage[s] = "create"

\* All of that, unless Servers or lifecycle operations have met, a write has
\* failed or a creator has died over its work.
LogOK ==
  causes \subseteq {"start", "crash"} => OneLog /\ Begun /\ \A s \in Servers : WriterOK(s)

\* Nothing of the thread is in progress.
Clean(v) == ~v.turn /\ ~v.item /\ ~v.request /\ v.status \notin {"running", "awaiting"}

\* What a log that was written in order can say.
ViewOK(v) ==
  /\ v.item => v.turn
  /\ v.status \in {"running", "awaiting"} => v.turn \/ v.request

\* What a recovery has still to append makes the log clean.
RestOK(v, rest) ==
  \/ rest = RecoveryPlan(v)
  \/ v.turn /\ ~v.item /\ rest = <<"result">> \o RecoveryPlan(v)
  \/ Clean(v) /\ rest = <<"status">>

\* What a Server that is up has of the log is what the log had.
StateOK(s) ==
  /\ stage[s] = "repair" => RestOK(file["active"].view, plan[s])
  /\ Loaded(s) =>
       IF Pending(s)
       THEN /\ state[s].seq = file["active"].len - 1
            /\ Project(state[s].view, unapplied[s].kind) = file["active"].view
       ELSE state[s] = [seq |-> file["active"].len, view |-> file["active"].view]
  /\ Creating(s) => file["active"].view = Fresh
  /\ stage[s] \in {"read", "compare"} =>
       \A p \in Places : Exists(p) <=> seen[s].place = p
  /\ stage[s] = "compare" /\ seen[s].place # "none" =>
       seen[s].seq = file[seen[s].place].len /\ seen[s].view = file[seen[s].place].view

\* The row is the projection of the first records of the log.
PrefixOK ==
  \A p \in Places : Exists(p) =>
    /\ row.seq <= file[p].len
    /\ row.seq = file[p].len => row.view = file[p].view
    /\ \A s \in Servers : Pending(s) /\ row.seq = file[p].len - 1 =>
         Project(row.view, unapplied[s].kind) = file[p].view

\* The Server is yet to compare the row with the log.
Reconciles(s) == stage[s] = "repair" \/ (stage[s] \in Reading /\ seen[s].place # "skip")

\* The row is behind by the record that no listener has seen, and no more.
InStep ==
  IF \E p \in Places : Exists(p)
  THEN \A p \in Places : Exists(p) =>
         row.seq = file[p].len - (IF \E s \in Servers : Pending(s) THEN 1 ELSE 0)
  ELSE row = NoRow \/ \E s \in Servers : task[s] = "delete"

\* The Server has been through its start.
Started(s) == stage[s] \in {"create", "ready"}

\* A Server that is up relies on another one's reconciling, or on its own.
CatalogOK ==
  /\ PrefixOK
  /\ (\E s \in Servers : Started(s) \/ seen[s].place = "skip") =>
       InStep \/ \E s \in Servers : Reconciles(s)

\* A log can be told clean or has a recovery or a holder to make it so.
CleanOK ==
  /\ \A p \in Places : ViewOK(file[p].view)
  /\ Clean(file["archived"].view)
  /\ (\E s \in Servers : stage[s] \notin {"down", "scan", "repair"}) /\ holder = Nobody =>
       Clean(file["active"].view)

\* All of that, when nothing has got in the way of anything.
StepsOK == causes = {} => (\A s \in Servers : StateOK(s)) /\ CatalogOK /\ CleanOK

\* What holds whatever went wrong.
AlwaysOK == TypeOK /\ (\A s \in Servers : StageOK(s) /\ LeaseOK(s)) /\ BornOK

\* The inductive invariant.
IInv == AlwaysOK /\ Present \subseteq causes /\ LogOK /\ StepsOK

\* What is said of a thread that does not exist has the types of what is said
\* of one that does.
LEMMA Constants ==
  /\ Nobody \notin Servers /\ MaxLen \in Nat /\ MaxLen > 0
  /\ Fresh \in Views
  /\ Absent \in [len : 0..MaxLen, view : Views, ok : BOOLEAN]
  /\ NoRow \in [seq : 0..MaxLen, view : Views] /\ NoRow.seq = 0
  /\ NoRecord \in [seq : 0..MaxLen, kind : Kinds] /\ NoRecord.seq = 0
  /\ Unseen \in [place : Places \union {"none", "skip"}, seq : 0..MaxLen, view : Views]
  /\ Unseen.place = "none"
  /\ Absent.len = 0 /\ Absent.ok = TRUE /\ Absent.view = Fresh
  BY NobodyAssumption, MaxLenAssumption
  DEF Fresh, Views, Statuses, Absent, NoRow, NoRecord, Kinds, Unseen, Places

\* applyThreadRecord yields a snapshot again, whatever the record.
LEMMA Projected ==
  ASSUME NEW v \in Views, NEW kind \in Kinds
  PROVE  Project(v, kind) \in Views
<1>1. Statuses = {"idle", "running", "awaiting", "interrupted", "archived"}
  BY DEF Statuses
<1>2. Fresh \in Views
  BY Constants
<1>3. CASE kind \in {"created", "turn", "item", "call"}
  BY <1>1, <1>2, <1>3 DEF Project, Views
<1>4. CASE kind \in {"request", "resolved"}
  BY <1>1, <1>2, <1>4 DEF Project, Views
<1>5. CASE kind \in {"done", "result", "ended", "interrupted"}
  BY <1>1, <1>2, <1>5 DEF Project, Views
<1>6. CASE kind \in {"status", "archived", "unarchived"}
  BY <1>1, <1>2, <1>6 DEF Project, Views
<1> QED
  BY <1>3, <1>4, <1>5, <1>6 DEF Kinds

\* Recovery never plans a thread.created.
LEMMA PlanKinds ==
  ASSUME NEW v
  PROVE  RecoveryPlan(v) \in Seq(Kinds \ {"created"})
<1> DEFINE K == Kinds \ {"created"}
<1>1. \A k \in {"done", "result", "interrupted", "resolved", "status"} : <<k>> \in Seq(K)
  BY DEF Kinds
<1>2. <<>> \in Seq(K)
  OBVIOUS
<1> HIDE DEF K
<1>3. \A a, b \in Seq(K) : a \o b \in Seq(K)
  OBVIOUS
<1>4. /\ (IF v.turn /\ v.item THEN <<"done">> ELSE <<>>) \in Seq(K)
      /\ (IF v.turn /\ v.item /\ v.call THEN <<"result">> ELSE <<>>) \in Seq(K)
      /\ (IF v.turn THEN <<"interrupted">> ELSE <<>>) \in Seq(K)
      /\ (IF v.request THEN <<"resolved">> ELSE <<>>) \in Seq(K)
      /\ (IF v.turn \/ v.request THEN <<"status">> ELSE <<>>) \in Seq(K)
  BY <1>1, <1>2
<1>5. RecoveryPlan(v) \in Seq(K)
  BY <1>3, <1>4 DEF RecoveryPlan
<1> QED
  BY <1>5 DEF K

\* The first of the planned records is the one that is written next, and what
\* is left is the rest.
LEMMA Cons ==
  ASSUME NEW S, NEW a \in S, NEW t \in Seq(S)
  PROVE  /\ <<a>> \o t # <<>>
         /\ Head(<<a>> \o t) = a
         /\ Tail(<<a>> \o t) = t
<1> DEFINE u == <<a>> \o t
<1>1. <<a>> \in Seq(S) /\ Len(<<a>>) = 1 /\ <<a>>[1] = a
  OBVIOUS
<1>2. Len(t) \in Nat
  BY LenProperties
<1>3. u \in Seq(S) /\ Len(u) = Len(<<a>>) + Len(t)
      /\ \A i \in 1 .. Len(<<a>>) + Len(t) : u[i] = IF i <= Len(<<a>>) THEN <<a>>[i] ELSE t[i - Len(<<a>>)]
  BY <1>1, ConcatProperties
<1> HIDE DEF u
<1>4. Len(u) = 1 + Len(t) /\ \A i \in 1 .. 1 + Len(t) : u[i] = IF i <= 1 THEN <<a>>[i] ELSE t[i - 1]
  BY <1>1, <1>3
<1>5. u # <<>>
  <2>1. Len(<<>>) = 0
    OBVIOUS
  <2> QED
    BY <1>2, <1>4, <2>1
<1>6. u[1] = a
  <2>1. 1 \in 1 .. 1 + Len(t)
    BY <1>2
  <2> QED
    BY <1>1, <1>4, <2>1
<1>7. Head(u) = a
  BY <1>6 DEF Head
<1>8. Tail(u) \in Seq(S) /\ Len(Tail(u)) = Len(u) - 1
      /\ \A i \in 1 .. Len(Tail(u)) : Tail(u)[i] = u[i + 1]
  BY <1>3, <1>5, HeadTailProperties
<1>9. Len(Tail(u)) = Len(t)
  BY <1>2, <1>4, <1>8
<1>10. ASSUME NEW i \in 1 .. Len(Tail(u)) PROVE Tail(u)[i] = t[i]
  <2>1. i + 1 \in 1 .. 1 + Len(t) /\ i + 1 > 1 /\ (i + 1) - 1 = i
    BY <1>2, <1>9
  <2>2. Tail(u)[i] = u[i + 1]
    BY <1>8
  <2>3. u[i + 1] = t[(i + 1) - 1]
    BY <1>2, <1>4, <2>1
  <2> QED
    BY <2>1, <2>2, <2>3
<1>11. Tail(u) = t
  BY <1>8, <1>9, <1>10, SeqEqual
<1> QED
  BY <1>5, <1>7, <1>11 DEF u

\* Appending is associative, with the sum of the last two already known.
LEMMA Regroup ==
  ASSUME NEW S, NEW x \in Seq(S), NEW y \in Seq(S), NEW z \in Seq(S), NEW w, w = y \o z
  PROVE  (x \o y) \o z = x \o w
BY ConcatAssociative

\* The records of recoveryPlan in their order, each there or not.
LEMMA PlanInParts ==
  ASSUME NEW v
  PROVE  RecoveryPlan(v) =
    (IF v.turn /\ v.item THEN <<"done">> ELSE <<>>)
    \o ((IF v.turn /\ v.item /\ v.call THEN <<"result">> ELSE <<>>)
    \o ((IF v.turn THEN <<"interrupted">> ELSE <<>>)
    \o ((IF v.request THEN <<"resolved">> ELSE <<>>)
    \o (IF v.turn \/ v.request THEN <<"status">> ELSE <<>>))))
<1>1. /\ \A k \in {"done", "result", "interrupted", "resolved", "status"} : <<k>> \in Seq(Kinds)
      /\ <<>> \in Seq(Kinds)
  BY DEF Kinds
<1>2. PICK a \in Seq(Kinds) : a = IF v.turn /\ v.item THEN <<"done">> ELSE <<>>
  BY <1>1
<1>3. PICK b \in Seq(Kinds) : b = IF v.turn /\ v.item /\ v.call THEN <<"result">> ELSE <<>>
  BY <1>1
<1>4. PICK c \in Seq(Kinds) : c = IF v.turn THEN <<"interrupted">> ELSE <<>>
  BY <1>1
<1>5. PICK d \in Seq(Kinds) : d = IF v.request THEN <<"resolved">> ELSE <<>>
  BY <1>1
<1>6. PICK e \in Seq(Kinds) : e = IF v.turn \/ v.request THEN <<"status">> ELSE <<>>
  BY <1>1
<1>7. RecoveryPlan(v) = (((a \o b) \o c) \o d) \o e
  BY <1>2, <1>3, <1>4, <1>5, <1>6 DEF RecoveryPlan
<1>8. (((a \o b) \o c) \o d) \o e = a \o (b \o (c \o (d \o e)))
  <2>1. PICK S : S = Kinds
    OBVIOUS
  <2>2. a \in Seq(S) /\ b \in Seq(S) /\ c \in Seq(S) /\ d \in Seq(S) /\ e \in Seq(S)
    BY <2>1
  <2>3. \A x, y \in Seq(S) : x \o y \in Seq(S)
    OBVIOUS
  <2>4. (((a \o b) \o c) \o d) \o e = ((a \o b) \o c) \o (d \o e)
    BY <2>2, <2>3, Regroup
  <2>5. ((a \o b) \o c) \o (d \o e) = (a \o b) \o (c \o (d \o e))
    BY <2>2, <2>3, Regroup
  <2>6. c \o (d \o e) \in Seq(S)
    BY <2>2, <2>3
  <2>7. (a \o b) \o (c \o (d \o e)) = a \o (b \o (c \o (d \o e)))
    BY <2>2, <2>6, Regroup
  <2> QED
    BY <2>4, <2>5, <2>7
<1> QED
  BY <1>2, <1>3, <1>4, <1>5, <1>6, <1>7, <1>8

\* What each record of a recovery changes of the snapshot.
LEMMA ProjectRecovery ==
  ASSUME NEW v \in Views
  PROVE  LET w(k) == Project(v, k)
         IN  /\ w("done").turn = v.turn /\ w("done").item = FALSE /\ w("done").call = v.call
             /\ w("done").request = v.request /\ w("done").status = v.status
             /\ w("result").turn = v.turn /\ w("result").item = v.item /\ w("result").call = FALSE
             /\ w("result").request = v.request /\ w("result").status = v.status
             /\ w("interrupted").turn = FALSE /\ w("interrupted").item = v.item
             /\ w("interrupted").call = v.call
             /\ w("interrupted").request = v.request /\ w("interrupted").status = "interrupted"
             /\ w("resolved").turn = v.turn /\ w("resolved").item = v.item
             /\ w("resolved").call = v.call
             /\ w("resolved").request = FALSE
             /\ w("resolved").status = IF v.turn THEN "running" ELSE "idle"
             /\ w("status").turn = v.turn /\ w("status").item = v.item /\ w("status").call = v.call
             /\ w("status").request = v.request /\ w("status").status = "interrupted"
  BY DEF Project, Views

\* After the next record of a recovery the log is still what its plan makes
\* clean, and with nothing left to append it is clean.
LEMMA PlanStep ==
  ASSUME NEW v \in Views, ViewOK(v), NEW rest, RestOK(v, rest)
  PROVE  /\ rest = <<>> => Clean(v)
         /\ rest # <<>> => /\ RestOK(Project(v, Head(rest)), Tail(rest))
                           /\ ViewOK(Project(v, Head(rest)))
<1>1. /\ v.turn \in BOOLEAN /\ v.item \in BOOLEAN /\ v.call \in BOOLEAN /\ v.request \in BOOLEAN
  BY DEF Views
<1>2. \A k \in {"done", "result", "interrupted", "resolved", "status"} :
        k \in Kinds /\ <<k>> \in Seq(Kinds)
  BY DEF Kinds
<1>3. ASSUME NEW k \in {"done", "result", "interrupted", "resolved", "status"}, NEW t \in Seq(Kinds)
      PROVE  <<k>> \o t # <<>> /\ Head(<<k>> \o t) = k /\ Tail(<<k>> \o t) = t
  BY <1>2, Cons
<1>4. \A t \in Seq(Kinds) : <<>> \o t = t /\ t \o <<>> = t
  BY ConcatEmptySeq
<1>5. \A x, y \in Seq(Kinds) : x \o y \in Seq(Kinds)
  OBVIOUS
<1>6. <<>> \in Seq(Kinds)
  OBVIOUS
<1> DEFINE Last(w) == (IF w.request THEN <<"resolved">> ELSE <<>>)
                        \o (IF w.turn \/ w.request THEN <<"status">> ELSE <<>>)
           Late(w) == (IF w.turn THEN <<"interrupted">> ELSE <<>>) \o Last(w)
           Calls(w) == (IF w.turn /\ w.item /\ w.call THEN <<"result">> ELSE <<>>) \o Late(w)
<1>7. ASSUME NEW w
      PROVE  /\ RecoveryPlan(w) = (IF w.turn /\ w.item THEN <<"done">> ELSE <<>>) \o Calls(w)
             /\ Last(w) \in Seq(Kinds) /\ Late(w) \in Seq(Kinds) /\ Calls(w) \in Seq(Kinds)
             /\ RecoveryPlan(w) \in Seq(Kinds)
  <2>1. RecoveryPlan(w) = (IF w.turn /\ w.item THEN <<"done">> ELSE <<>>) \o Calls(w)
    BY PlanInParts
  <2>2. Last(w) \in Seq(Kinds)
    BY <1>2, <1>5, <1>6
  <2>3. Late(w) \in Seq(Kinds)
    <3> HIDE DEF Last
    <3> QED
      BY <2>2, <1>2, <1>5, <1>6
  <2>4. Calls(w) \in Seq(Kinds)
    <3> HIDE DEF Late
    <3> QED
      BY <2>3, <1>2, <1>5, <1>6
  <2>5. RecoveryPlan(w) \in Seq(Kinds)
    <3> HIDE DEF Calls
    <3> QED
      BY <2>1, <2>4, <1>2, <1>5, <1>6
  <2> QED
    BY <2>1, <2>2, <2>3, <2>4, <2>5
\* The plan without what need not be done.
<1>8. ASSUME NEW w, ~(w.turn /\ w.item) PROVE RecoveryPlan(w) = Late(w)
  <2> HIDE DEF Late
  <2>1. Calls(w) = <<>> \o Late(w)
    BY <1>8
  <2>2. Calls(w) = Late(w)
    BY <2>1, <1>4, <1>7
  <2>3. RecoveryPlan(w) = <<>> \o Calls(w)
    BY <1>7, <1>8
  <2> HIDE DEF Calls
  <2> QED
    BY <2>2, <2>3, <1>4, <1>7
<1>9. ASSUME NEW w, ~w.turn PROVE RecoveryPlan(w) = Last(w)
  <2> HIDE DEF Last
  <2>1. Late(w) = <<>> \o Last(w)
    BY <1>9
  <2>2. Late(w) = Last(w)
    BY <2>1, <1>4, <1>7
  <2> HIDE DEF Late
  <2> QED
    BY <1>8, <1>9, <2>2
<1>10. ASSUME NEW w, ~w.turn, ~w.request PROVE RecoveryPlan(w) = <<>>
  <2>1. Last(w) = <<>> \o <<>>
    BY <1>10
  <2> HIDE DEF Last
  <2> QED
    BY <1>4, <1>6, <1>9, <1>10, <2>1
<1>11. Clean(v) <=> ~v.turn /\ ~v.request
  BY <1>1 DEF Clean, ViewOK
<1> HIDE DEF Last, Late, Calls
<1>12. CASE rest = RecoveryPlan(v) /\ v.turn /\ v.item
  <2> DEFINE w == Project(v, "done")
  <2>1. w.turn = v.turn /\ w.item = FALSE /\ w.call = v.call /\ w.request = v.request /\ w.status = v.status
    BY ProjectRecovery
  <2> HIDE DEF w
  <2>2. rest = <<"done">> \o Calls(v)
    BY <1>7, <1>12
  <2>3. rest # <<>> /\ Head(rest) = "done" /\ Tail(rest) = Calls(v)
    BY <2>2, <1>3, <1>7
  <2>4. Late(w) = Late(v)
    BY <2>1 DEF Late, Last
  <2>5. RecoveryPlan(w) = Late(v)
    BY <2>1, <2>4, <1>8
  <2>6. CASE v.call
    <3>1. Calls(v) = <<"result">> \o Late(v)
      BY <2>6, <1>12 DEF Calls
    <3>2. RestOK(w, Calls(v))
      BY <3>1, <2>1, <2>5, <1>12 DEF RestOK
    <3> QED
      BY <3>2, <2>1, <2>3, <1>12 DEF ViewOK, w
  <2>7. CASE ~v.call
    <3>1. Calls(v) = <<>> \o Late(v)
      BY <2>7 DEF Calls
    <3>2. Calls(v) = Late(v)
      BY <3>1, <1>4, <1>7
    <3>3. RestOK(w, Calls(v))
      BY <3>2, <2>5 DEF RestOK
    <3> QED
      BY <3>3, <2>1, <2>3, <1>12 DEF ViewOK, w
  <2> QED
    BY <2>6, <2>7
<1>13. CASE rest = RecoveryPlan(v) /\ v.turn /\ ~v.item
  <2> DEFINE w == Project(v, "interrupted")
  <2>1. w.turn = FALSE /\ w.item = FALSE /\ w.request = v.request /\ w.status = "interrupted"
    BY <1>1, <1>13, ProjectRecovery
  <2> HIDE DEF w
  <2>2. rest = <<"interrupted">> \o Last(v)
    BY <1>8, <1>13 DEF Late
  <2>3. rest # <<>> /\ Head(rest) = "interrupted" /\ Tail(rest) = Last(v)
    BY <2>2, <1>3, <1>7
  <2>4. ViewOK(w)
    BY <2>1 DEF ViewOK
  <2>5. RestOK(w, Last(v))
    <3>1. CASE v.request
      <4>1. Last(v) = Last(w)
        BY <3>1, <2>1, <1>13 DEF Last
      <4> QED
        BY <4>1, <2>1, <1>9 DEF RestOK
    <3>2. CASE ~v.request
      <4>1. Last(v) = <<>> \o <<"status">>
        BY <3>2, <1>13 DEF Last
      <4>2. Last(v) = <<"status">>
        BY <4>1, <1>2, <1>4
      <4>3. Clean(w)
        BY <3>2, <2>1 DEF Clean
      <4> QED
        BY <4>2, <4>3 DEF RestOK
    <3> QED
      BY <3>1, <3>2
  <2> QED
    BY <2>3, <2>4, <2>5 DEF w
<1>14. CASE rest = RecoveryPlan(v) /\ ~v.turn /\ v.request
  <2> DEFINE w == Project(v, "resolved")
  <2>1. w.turn = FALSE /\ w.item = v.item /\ w.request = FALSE /\ w.status = "idle"
    BY <1>1, <1>14, ProjectRecovery
  <2> HIDE DEF w
  <2>2. rest = <<"resolved">> \o <<"status">>
    BY <1>9, <1>14 DEF Last
  <2>3. rest # <<>> /\ Head(rest) = "resolved" /\ Tail(rest) = <<"status">>
    BY <2>2, <1>2, <1>3
  <2>4. ~v.item
    BY <1>14 DEF ViewOK
  <2>5. Clean(w) /\ ViewOK(w)
    BY <2>1, <2>4 DEF Clean, ViewOK
  <2> QED
    BY <2>3, <2>5 DEF w, RestOK
<1>15. CASE rest = RecoveryPlan(v) /\ ~v.turn /\ ~v.request
  BY <1>10, <1>11, <1>15
<1>16. CASE v.turn /\ ~v.item /\ rest = <<"result">> \o RecoveryPlan(v)
  <2> DEFINE w == Project(v, "result")
  <2>1. w.turn = v.turn /\ w.item = v.item /\ w.request = v.request /\ w.status = v.status
    BY ProjectRecovery
  <2> HIDE DEF w
  <2>2. rest # <<>> /\ Head(rest) = "result" /\ Tail(rest) = RecoveryPlan(v)
    BY <1>3, <1>7, <1>16
  <2>3. Late(w) = Late(v)
    BY <2>1 DEF Late, Last
  <2>4. RecoveryPlan(w) = RecoveryPlan(v)
    BY <2>1, <2>3, <1>8, <1>16
  <2>5. ViewOK(w)
    BY <2>1 DEF ViewOK
  <2> QED
    BY <2>2, <2>4, <2>5 DEF w, RestOK
<1>17. CASE Clean(v) /\ rest = <<"status">>
  <2> DEFINE w == Project(v, "status")
  <2>1. w.turn = v.turn /\ w.item = v.item /\ w.request = v.request /\ w.status = "interrupted"
    BY ProjectRecovery
  <2> HIDE DEF w
  <2>2. rest = <<"status">> \o <<>>
    BY <1>2, <1>4, <1>17
  <2>3. rest # <<>> /\ Head(rest) = "status" /\ Tail(rest) = <<>>
    BY <2>2, <1>3, <1>6
  <2>4. RecoveryPlan(w) = <<>>
    BY <2>1, <1>10, <1>17 DEF Clean
  <2>5. ViewOK(w)
    BY <2>1, <1>17 DEF ViewOK, Clean
  <2> QED
    BY <2>3, <2>4, <2>5 DEF w, RestOK
<1> QED
  BY <1>1, <1>12, <1>13, <1>14, <1>15, <1>16, <1>17 DEF RestOK

\* An appended record makes the log longer by one, and readable exactly if its
\* number is the next.
LEMMA GrownType ==
  ASSUME NEW f \in [len : 0..MaxLen, view : Views, ok : BOOLEAN], f.len < MaxLen,
         NEW seq \in Nat, NEW kind \in Kinds
  PROVE  /\ Grown(f, seq, kind) \in [len : 0..MaxLen, view : Views, ok : BOOLEAN]
         /\ Grown(f, seq, kind).len = f.len + 1
         /\ Grown(f, seq, kind).view = Project(f.view, kind)
         /\ Grown(f, seq, kind).ok = (f.ok /\ seq = f.len + 1 /\ (seq = 1 <=> kind = "created"))
<1>1. Project(f.view, kind) \in Views
  BY Projected
<1> DEFINE fine == f.ok /\ seq = f.len + 1 /\ (seq = 1 <=> kind = "created")
<1>2. fine \in BOOLEAN
  OBVIOUS
<1>3. Grown(f, seq, kind) = [len |-> f.len + 1, view |-> Project(f.view, kind), ok |-> fine]
  BY DEF Grown
<1>4. f.len + 1 \in 0..MaxLen
  BY MaxLenAssumption
<1> HIDE DEF fine
<1>5. /\ Grown(f, seq, kind) \in [len : 0..MaxLen, view : Views, ok : BOOLEAN]
      /\ Grown(f, seq, kind).len = f.len + 1
      /\ Grown(f, seq, kind).view = Project(f.view, kind)
      /\ Grown(f, seq, kind).ok = fine
  BY <1>1, <1>2, <1>3, <1>4
<1> QED
  BY <1>5 DEF fine

\* Every step keeps the types.
LEMMA TypeStep == AlwaysOK /\ [Next]_vars => TypeOK'
<1> SUFFICES ASSUME AlwaysOK, [Next]_vars PROVE TypeOK'
  OBVIOUS
<1> DEFINE Logs   == [len : 0..MaxLen, view : Views, ok : BOOLEAN]
           Rows   == [seq : 0..MaxLen, view : Views]
           Sights == [place : Places \union {"none", "skip"}, seq : 0..MaxLen, view : Views]
           Writes == [seq : 0..MaxLen, kind : Kinds]
           Stages == {"down", "scan", "repair", "list", "read", "compare", "create", "ready"}
           Tasks  == {"none", "archive", "flush", "rename", "moved", "unarchive", "delete"}
           Causes == {"overlap", "handover", "start", "failure", "crash", "creation"}
<1>1. /\ file \in [Places -> Logs] /\ row \in Rows /\ born \in BOOLEAN /\ empty \in BOOLEAN
      /\ holder \in Servers \union {Nobody} /\ stage \in [Servers -> Stages]
      /\ plan \in [Servers -> Seq(Kinds)] /\ seen \in [Servers -> Sights]
      /\ state \in [Servers -> Rows] /\ writer \in [Servers -> 0..(MaxLen + 1)]
      /\ unapplied \in [Servers -> Writes] /\ task \in [Servers -> Tasks]
      /\ causes \subseteq Causes
  BY DEF AlwaysOK, TypeOK
<1>2. /\ Absent \in Logs /\ NoRow \in Rows /\ Unseen \in Sights /\ NoRecord \in Writes
      /\ MaxLen \in Nat /\ "active" \in Places /\ "archived" \in Places
  BY Constants DEF Places
<1>3. Present' \subseteq Causes
  BY DEF Present
<1>4. \A p \in Places : /\ file[p].len \in 0..MaxLen /\ file[p].view \in Views
                        /\ [seq |-> file[p].len, view |-> file[p].view] \in Rows
  BY <1>1
<1>5. \A s \in Servers : NextSeq(s) \in Nat
  BY <1>1, <1>2, <1>4 DEF NextSeq
<1>6. ASSUME NEW f \in Logs, f.len < MaxLen, NEW q \in Nat, NEW k \in Kinds
      PROVE  Grown(f, q, k) \in Logs
  BY <1>6, GrownType
<1>7. \A p \in Places : file[p] \in Logs
  BY <1>1
<1>8. causes' \subseteq Causes
  BY <1>1, <1>3 DEF Next, vars, DeathOf
<1> USE DEF Step
<1> HIDE DEF Logs, Rows, Sights, Writes, Stages, Tasks, Causes
<1>9. ASSUME file' \in [Places -> Logs], row' \in Rows, born' \in BOOLEAN, empty' \in BOOLEAN,
             holder' \in Servers \union {Nobody}, stage' \in [Servers -> Stages],
             plan' \in [Servers -> Seq(Kinds)], seen' \in [Servers -> Sights],
             state' \in [Servers -> Rows], writer' \in [Servers -> 0..(MaxLen + 1)],
             unapplied' \in [Servers -> Writes], task' \in [Servers -> Tasks]
      PROVE  TypeOK'
  BY <1>8, <1>9 DEF TypeOK, Logs, Rows, Sights, Writes, Stages, Tasks, Causes
<1>10. \A t : /\ t \in {"none", "archive", "flush", "rename", "moved", "unarchive", "delete"} => t \in Tasks
              /\ t \in {"down", "scan", "repair", "list", "read", "compare", "create", "ready"} => t \in Stages
  BY DEF Tasks, Stages
<1>11. ASSUME NEW s \in Servers, NEW k \in Kinds, Write(s, k)
       PROVE  /\ file' \in [Places -> Logs] /\ writer' \in [Servers -> 0..(MaxLen + 1)]
              /\ unapplied' \in [Servers -> Writes]
  <2>1. NextSeq(s) \in 0..MaxLen
    BY <1>11, <1>2, <1>5 DEF Write, Room
  <2>2. [seq |-> NextSeq(s), kind |-> k] \in Writes
    BY <2>1 DEF Writes
  <2>3. Grown(file["active"], NextSeq(s), k) \in Logs
    BY <1>11, <1>2, <1>5, <1>6, <1>7 DEF Write, Room
  <2>4. file' \in [Places -> Logs]
    BY <1>11, <2>3, <1>1 DEF Write
  <2>5. NextSeq(s) \in 0..(MaxLen + 1)
    BY <2>1, <1>2
  <2> QED
    BY <1>11, <2>2, <2>4, <2>5, <1>1 DEF Write
<1>12. ASSUME NEW s \in Servers, Stop(s)
       PROVE  /\ stage' \in [Servers -> Stages] /\ plan' \in [Servers -> Seq(Kinds)]
              /\ seen' \in [Servers -> Sights] /\ state' \in [Servers -> Rows]
              /\ writer' \in [Servers -> 0..(MaxLen + 1)]
              /\ unapplied' \in [Servers -> Writes] /\ task' \in [Servers -> Tasks]
  <2>1. <<>> \in Seq(Kinds) /\ 0 \in 0..(MaxLen + 1)
    BY <1>2
  <2>2. stage' \in [Servers -> Stages] /\ plan' \in [Servers -> Seq(Kinds)] /\ task' \in [Servers -> Tasks]
    BY <1>12, <1>1, <1>10, <2>1 DEF Stop
  <2>3. seen' \in [Servers -> Sights] /\ state' \in [Servers -> Rows]
    BY <1>12, <1>1, <1>2 DEF Stop
  <2> QED
    BY <1>12, <1>1, <1>2, <2>1, <2>2, <2>3 DEF Stop
<1>13. ASSUME NEW s \in Servers, NEW x, seen' = [seen EXCEPT ![s].place = x],
              x \in Places \union {"none", "skip"}
       PROVE  seen' \in [Servers -> Sights]
  <2>1. [seen[s] EXCEPT !.place = x] \in Sights
    BY <1>1, <1>13 DEF Sights
  <2> QED
    BY <1>1, <1>13, <2>1
<1>14. ASSUME NEW s \in Servers, Apply(s) PROVE TypeOK'
  <2> DEFINE u == unapplied[s]
  <2>1. u \in Writes /\ row \in Rows /\ state[s] \in Rows
    BY <1>1
  <2>2. u.seq \in 0..MaxLen /\ u.kind \in Kinds /\ row.view \in Views /\ state[s].view \in Views
    BY <2>1 DEF Writes, Rows
  <2>3. Project(row.view, u.kind) \in Views /\ Project(state[s].view, u.kind) \in Views
    BY <2>2, Projected
  <2>4. /\ [seq |-> u.seq, view |-> Project(row.view, u.kind)] \in Rows
        /\ [seq |-> u.seq, view |-> Project(state[s].view, u.kind)] \in Rows
    BY <2>2, <2>3 DEF Rows
  <2>5. row' \in Rows
    BY <1>14, <2>1, <2>4 DEF Apply
  <2>6. state' \in [Servers -> Rows]
    BY <1>14, <1>1, <2>1, <2>4 DEF Apply
  <2>7. writer[s] <= MaxLen
    BY <1>14 DEF Apply, AlwaysOK, LeaseOK
  <2>8. writer[s] \in 0..(MaxLen + 1)
    BY <1>1
  <2>9. (IF writer[s] = 0 THEN 0 ELSE writer[s] + 1) \in 0..(MaxLen + 1)
    BY <2>7, <2>8, <1>2
  <2>10. writer' \in [Servers -> 0..(MaxLen + 1)]
    BY <1>14, <1>1, <2>9 DEF Apply, Advance
  <2>11. unapplied' \in [Servers -> Writes]
    BY <1>14, <1>1, <1>2 DEF Apply
  <2>12. holder' \in Servers \union {Nobody}
    BY <1>14, <1>1 DEF Apply
  <2> QED
    BY <1>14, <1>1, <1>9, <2>5, <2>6, <2>10, <2>11, <2>12 DEF Apply
<1>15. ASSUME NEW s \in Servers, Boot(s) PROVE TypeOK'
  BY <1>15, <1>1, <1>9, <1>10 DEF Boot, GoTo
<1>16. ASSUME NEW s \in Servers, ScanSkip(s) PROVE TypeOK'
  <2>1. seen' \in [Servers -> Sights]
    BY <1>16, <1>1, <1>13 DEF ScanSkip
  <2> QED
    BY <1>16, <1>1, <1>9, <1>10, <2>1 DEF ScanSkip, GoTo
<1>17. ASSUME NEW s \in Servers, ScanTake(s) PROVE TypeOK'
  <2>1. Seq(Kinds \ {"created"}) \subseteq Seq(Kinds)
    OBVIOUS
  <2>2. RecoveryPlan(file["active"].view) \in Seq(Kinds)
    BY <2>1, PlanKinds
  <2> QED
    BY <1>17, <1>1, <1>9, <1>10, <2>2 DEF ScanTake, GoTo
<1>18. ASSUME NEW s \in Servers, ScanFails(s) PROVE TypeOK'
  BY <1>18, <1>1, <1>9, <1>12 DEF ScanFails
<1>19. ASSUME NEW s \in Servers, Repair(s) PROVE TypeOK'
  <2>1. plan[s] \in Seq(Kinds) /\ plan[s] # <<>>
    BY <1>19, <1>1 DEF Repair
  <2>2. Head(plan[s]) \in Kinds /\ Tail(plan[s]) \in Seq(Kinds)
    BY <2>1
  <2>3. NextSeq(s) + 1 \in 0..(MaxLen + 1)
    BY <1>19, <1>2, <1>5 DEF Repair, Room
  <2>4. Grown(file["active"], NextSeq(s), Head(plan[s])) \in Logs
    BY <1>19, <2>2, <1>2, <1>5, <1>6, <1>7 DEF Repair, Room
  <2>5. file' \in [Places -> Logs]
    BY <1>19, <1>1, <2>4 DEF Repair
  <2>6. writer' \in [Servers -> 0..(MaxLen + 1)] /\ plan' \in [Servers -> Seq(Kinds)]
    BY <1>19, <1>1, <2>2, <2>3 DEF Repair
  <2> QED
    BY <1>19, <1>1, <1>9, <2>5, <2>6 DEF Repair
<1>20. ASSUME NEW s \in Servers, RepairEnds(s) PROVE TypeOK'
  BY <1>20, <1>1, <1>9, <1>10 DEF RepairEnds, GoTo
<1>21. ASSUME NEW s \in Servers, List(s) PROVE TypeOK'
  <2>1. seen' \in [Servers -> Sights]
    <3>1. CASE Opened /\ seen[s].place = "skip"
      BY <1>21, <3>1, <1>1, <1>2 DEF List
    <3>2. CASE ~(Opened /\ seen[s].place = "skip")
      BY <1>21, <3>2, <1>1, <1>2, <1>13 DEF List
    <3> QED
      BY <3>1, <3>2
  <2>2. stage' \in [Servers -> Stages]
    BY <1>21, <1>1, <1>10 DEF List, GoTo
  <2> QED
    BY <1>21, <1>1, <1>9, <2>1, <2>2 DEF List
<1>22. ASSUME NEW s \in Servers, ReadLog(s) PROVE TypeOK'
  <2>1. seen' \in [Servers -> Sights]
    <3>1. CASE seen[s].place = "none"
      BY <1>22, <3>1, <1>1 DEF ReadLog
    <3>2. CASE seen[s].place # "none"
      <4> DEFINE p == seen[s].place
      <4>1. Readable(p) /\ seen' = [seen EXCEPT ![s].seq = file[p].len, ![s].view = file[p].view]
        BY <1>22, <3>2 DEF ReadLog
      <4>2. seen[s].place \in Places \union {"none", "skip"}
        BY <1>1 DEF Sights
      <4>3. PICK x \in Sights : seen' = [seen EXCEPT ![s] = x]
        <5>1. CASE p \in Places
          <6>1. [seen[s] EXCEPT !.seq = file[p].len, !.view = file[p].view] \in Sights
            BY <5>1, <1>1, <1>4 DEF Sights
          <6> QED
            BY <6>1, <4>1, <1>1
        <5>2. CASE p = "skip"
          BY <5>2, <1>22, <3>2 DEF ReadLog, AlwaysOK, StageOK
        <5> QED
          BY <4>2, <3>2, <5>1, <5>2
      <4> QED
        BY <4>3, <1>1
    <3> QED
      BY <3>1, <3>2
  <2> QED
    BY <1>22, <1>1, <1>9, <1>10, <2>1 DEF ReadLog, GoTo
<1>23. ASSUME NEW s \in Servers, ReconcileFails(s) PROVE TypeOK'
  BY <1>23, <1>1, <1>9, <1>12 DEF ReconcileFails
<1>24. ASSUME NEW s \in Servers, Reconcile(s) PROVE TypeOK'
  <2>1. seen[s] \in Sights
    BY <1>1
  <2>2. [seq |-> seen[s].seq, view |-> seen[s].view] \in Rows
    BY <2>1 DEF Sights, Rows
  <2>3. row' \in Rows
    BY <1>24, <2>2, <1>1, <1>2 DEF Reconcile
  <2> QED
    BY <1>24, <1>1, <1>2, <1>9, <1>10, <2>3 DEF Reconcile, GoTo
<1>25. ASSUME NEW s \in Servers, Create(s) \/ CreateFails(s) PROVE TypeOK'
  <2>1. file["active"] = Absent
    BY <1>25, <1>2 DEF Create, CreateFails, AlwaysOK, BornOK, Made
  <2>2. file["active"].len < MaxLen /\ 1 \in 0..MaxLen /\ 1 \in 0..(MaxLen + 1) /\ 1 \in Nat
    BY <2>1, Constants
  <2>3. "created" \in Kinds
    BY DEF Kinds
  <2>4. Grown(file["active"], 1, "created") \in Logs
    BY <2>2, <2>3, <1>2, <1>6, <1>7
  <2>5. [seq |-> 1, kind |-> "created"] \in Writes
    BY <2>2, <2>3 DEF Writes
  <2>6. file' \in [Places -> Logs] /\ empty' \in BOOLEAN
    BY <1>25, <1>1, <2>4 DEF Create, CreateFails
  <2>7. stage' \in [Servers -> Stages]
    BY <1>25, <1>1, <1>10 DEF Create, CreateFails, GoTo
  <2>8. writer' \in [Servers -> 0..(MaxLen + 1)] /\ unapplied' \in [Servers -> Writes]
    BY <1>25, <1>1, <2>2, <2>5 DEF Create, CreateFails
  <2> QED
    BY <1>25, <1>1, <1>9, <2>6, <2>7, <2>8 DEF Create, CreateFails
<1>36. ASSUME NEW s \in Servers, Open(s) PROVE TypeOK'
  BY <1>36, <1>1, <1>9, <1>10 DEF Open, GoTo
<1>26. ASSUME NEW s \in Servers, Load(s) PROVE TypeOK'
  BY <1>26, <1>1, <1>2, <1>4, <1>9 DEF Load
<1>27. ASSUME NEW s \in Servers, AppendRecord(s) PROVE TypeOK'
  <2>1. MayAppend(state[s].view) \subseteq Kinds
    BY DEF MayAppend, Kinds
  <2>2. PICK k \in Kinds : Write(s, k)
    BY <1>27, <2>1 DEF AppendRecord
  <2> QED
    BY <1>27, <1>1, <1>9, <1>11, <2>2 DEF AppendRecord
<1>28. ASSUME NEW s \in Servers, AppendFails(s) PROVE TypeOK'
  <2>1. MayAppend(state[s].view) \subseteq Kinds
    BY DEF MayAppend, Kinds
  <2>2. NextSeq(s) \in 0..(MaxLen + 1)
    BY <1>28, <1>2, <1>5 DEF AppendFails, Room
  <2>3. [file["active"] EXCEPT !.ok = FALSE] \in Logs
    BY <1>2, <1>7 DEF Logs
  <2>4. \A k \in Kinds : Grown(file["active"], NextSeq(s), k) \in Logs
    BY <1>28, <1>2, <1>5, <1>6, <1>7 DEF AppendFails, Room
  <2>5. PICK f \in Logs : file' = [file EXCEPT !["active"] = f]
    <3>1. CASE file' = [file EXCEPT !["active"].ok = FALSE]
      <4>1. file' = [file EXCEPT !["active"] = [file["active"] EXCEPT !.ok = FALSE]]
        BY <3>1
      <4> QED
        BY <2>3, <4>1
    <3>2. CASE \E k \in MayAppend(state[s].view) :
                 file' = [file EXCEPT !["active"] = Grown(@, NextSeq(s), k)]
      BY <3>2, <2>1, <2>4
    <3> QED
      BY <1>28, <3>1, <3>2 DEF AppendFails
  <2> QED
    <3>1. file' \in [Places -> Logs] /\ writer' \in [Servers -> 0..(MaxLen + 1)]
      BY <1>28, <1>1, <2>2, <2>5 DEF AppendFails
    <3> QED
      BY <1>28, <1>1, <1>9, <3>1 DEF AppendFails
<1>29. ASSUME NEW s \in Servers, Unload(s) PROVE TypeOK'
  BY <1>29, <1>1, <1>2, <1>9 DEF Unload
<1>30. ASSUME NEW s \in Servers, Archive(s) \/ ArchiveFlush(s) \/ LifecycleFails(s) PROVE TypeOK'
  BY <1>30, <1>1, <1>9, <1>10 DEF Archive, ArchiveFlush, LifecycleFails, Continue
<1>31. ASSUME NEW s \in Servers, ArchiveAppend(s) \/ UnarchiveAppend(s) PROVE TypeOK'
  <2>1. PICK k \in Kinds : Write(s, k)
    BY <1>31 DEF ArchiveAppend, UnarchiveAppend, Kinds
  <2>2. task' \in [Servers -> Tasks]
    BY <1>31, <1>1, <1>10 DEF ArchiveAppend, UnarchiveAppend, Continue
  <2> QED
    BY <1>31, <1>1, <1>9, <1>11, <2>1, <2>2 DEF ArchiveAppend, UnarchiveAppend
<1>32. ASSUME NEW s \in Servers, ArchiveRename(s) \/ Unarchive(s) \/ Delete(s) PROVE TypeOK'
  <2>1. \A f, g \in Logs : [active |-> f, archived |-> g] \in [Places -> Logs]
    BY DEF Places
  <2>2. file' \in [Places -> Logs]
    <3>1. CASE ArchiveRename(s)
      <4>1. \/ file' = [active |-> Absent, archived |-> file["active"]]
            \/ file' = file
        BY <3>1 DEF ArchiveRename
      <4> QED
        BY <4>1, <2>1, <1>1, <1>2, <1>7
    <3>2. CASE Unarchive(s)
      BY <3>2, <2>1, <1>1, <1>2, <1>7 DEF Unarchive
    <3>3. CASE Delete(s)
      BY <3>3, <1>1, <1>2 DEF Delete
    <3> QED
      BY <1>32, <3>1, <3>2, <3>3
  <2>3. task' \in [Servers -> Tasks]
    BY <1>32, <1>1, <1>10 DEF ArchiveRename, Unarchive, Delete, Continue
  <2> QED
    BY <1>32, <1>1, <1>9, <2>2, <2>3 DEF ArchiveRename, Unarchive, Delete
<1>33. ASSUME NEW s \in Servers, ArchiveEnds(s) \/ DeleteRow(s) PROVE TypeOK'
  <2>1. 0 \in 0..(MaxLen + 1)
    BY <1>2
  <2> QED
    BY <1>33, <1>1, <1>2, <1>9, <1>10, <2>1 DEF ArchiveEnds, DeleteRow, Continue
<1>34. ASSUME NEW s \in Servers, Crash(s) PROVE TypeOK'
  <2>1. holder' \in Servers \union {Nobody}
    BY <1>34, <1>1 DEF Crash
  <2> QED
    BY <1>34, <1>1, <1>9, <1>12, <2>1 DEF Crash
<1>35. CASE UNCHANGED vars
  BY <1>35, <1>1, <1>9 DEF vars, serverVars
<1> QED
  BY <1>14, <1>15, <1>16, <1>17, <1>18, <1>19, <1>20, <1>21, <1>22, <1>23, <1>24, <1>25,
     <1>26, <1>27, <1>28, <1>29, <1>30, <1>31, <1>32, <1>33, <1>34, <1>35, <1>36 DEF Next

\* Every step, failed writes and deaths included, leaves in memory what the
\* stage allows, and the lease with whom has a use for it.
LEMMA AlwaysStep == AlwaysOK /\ [Next]_vars => AlwaysOK'
<1> SUFFICES ASSUME AlwaysOK, [Next]_vars PROVE AlwaysOK'
  OBVIOUS
<1>1. TypeOK /\ TypeOK'
  BY TypeStep DEF AlwaysOK
<1>2. /\ DOMAIN file = Places /\ born \in BOOLEAN /\ empty \in BOOLEAN /\ holder \in Servers \union {Nobody}
      /\ DOMAIN stage = Servers /\ DOMAIN plan = Servers /\ DOMAIN seen = Servers
      /\ DOMAIN state = Servers /\ DOMAIN writer = Servers
      /\ DOMAIN unapplied = Servers /\ DOMAIN task = Servers
      /\ \A s \in Servers : /\ DOMAIN seen[s] = {"place", "seq", "view"}
                            /\ writer[s] \in Nat /\ writer'[s] \in Nat
                            /\ unapplied[s].seq \in Nat /\ state[s].seq \in Nat
      /\ MaxLen \in Nat /\ Nobody \notin Servers
      /\ "active" \in Places /\ "archived" \in Places
  <2>1. MaxLen \in Nat /\ Nobody \notin Servers
    BY Constants
  <2>2. /\ DOMAIN file = Places /\ born \in BOOLEAN /\ empty \in BOOLEAN /\ holder \in Servers \union {Nobody}
        /\ DOMAIN stage = Servers /\ DOMAIN plan = Servers /\ DOMAIN seen = Servers
        /\ DOMAIN state = Servers /\ DOMAIN writer = Servers
        /\ DOMAIN unapplied = Servers /\ DOMAIN task = Servers
    BY <1>1 DEF TypeOK
  <2>3. \A s \in Servers : DOMAIN seen[s] = {"place", "seq", "view"}
    BY <1>1 DEF TypeOK
  <2>4. \A s \in Servers : /\ writer[s] \in Nat /\ writer'[s] \in Nat
                           /\ unapplied[s].seq \in Nat /\ state[s].seq \in Nat
    <3>1. \A s \in Servers : writer[s] \in 0..(MaxLen + 1) /\ writer'[s] \in 0..(MaxLen + 1)
      BY <1>1 DEF TypeOK
    <3>2. \A s \in Servers : unapplied[s].seq \in 0..MaxLen /\ state[s].seq \in 0..MaxLen
      BY <1>1 DEF TypeOK
    <3> QED
      BY <2>1, <3>1, <3>2
  <2> QED
    BY <2>1, <2>2, <2>3, <2>4 DEF Places
<1>3. /\ NoRow.seq = 0 /\ NoRecord.seq = 0 /\ Unseen.place = "none" /\ Absent.len = 0
      /\ Absent.ok = TRUE
  BY Constants
<1>4. (\A s \in Servers : StageOK(s) /\ LeaseOK(s)) /\ BornOK
  BY DEF AlwaysOK
<1>5. \A s \in Servers : Pending(s) => Ready(s)
  BY <1>4 DEF StageOK
<1>6. \A s \in Servers : task[s] # "none" => Ready(s) /\ Made
  BY <1>4 DEF StageOK, BornOK, Made
<1>7. /\ \A p \in Places : Exists(p) => Made
      /\ \A s \in Servers : HasWriter(s) => Made
      /\ Made => born
      /\ Opened => born
  <2>1. /\ \A p \in Places : Exists(p) => Made
        /\ \A s \in Servers : HasWriter(s) => Made
    BY <1>2, <1>3, <1>4 DEF BornOK, Made, HasWriter, Readable, Exists
  <2>2. Opened => Made \/ empty
    BY <1>2, <2>1 DEF Opened
  <2>3. empty => born
    BY <1>4 DEF BornOK
  <2> QED
    BY <2>1, <2>2, <2>3 DEF Made
<1>8. \A s \in Servers : /\ plan = [plan EXCEPT ![s] = plan[s]]
                          /\ seen = [seen EXCEPT ![s] = seen[s]]
                          /\ writer = [writer EXCEPT ![s] = writer[s]]
  <2>1. \A s \in Servers : plan = [plan EXCEPT ![s] = plan[s]]
    BY <1>1 DEF TypeOK
  <2>2. \A s \in Servers : seen = [seen EXCEPT ![s] = seen[s]]
    BY <1>1 DEF TypeOK
  <2>3. \A s \in Servers : writer = [writer EXCEPT ![s] = writer[s]]
    BY <1>1 DEF TypeOK
  <2> QED
    BY <2>1, <2>2, <2>3
<1>9. ASSUME NEW s \in Servers, NEW k \in Kinds, Write(s, k), k # "created", Ready(s),
             UNCHANGED <<empty, row, born, holder, stage, plan, seen, state>>,
             UNCHANGED task \/ \E x : task' = [task EXCEPT ![s] = x]
      PROVE  AlwaysOK'
  <2>1. /\ ~Pending(s) /\ HasWriter(s) /\ NextSeq(s) <= MaxLen
        /\ DOMAIN file' = Places
        /\ writer' = [writer EXCEPT ![s] = NextSeq(s)]
        /\ unapplied' = [unapplied EXCEPT ![s] = [seq |-> NextSeq(s), kind |-> k]]
    BY <1>2, <1>9 DEF Write, Room
  <2>2. unapplied'[s].kind = k /\ writer'[s] = NextSeq(s)
    BY <2>1, <1>2
  <2>3. ~Creating(s)' /\ ~Creating(s)
    BY <2>1, <2>2, <1>9 DEF Creating
  <2>4. \A t \in Servers : StageOK(t)'
    <3> SUFFICES ASSUME NEW t \in Servers PROVE StageOK(t)'
      OBVIOUS
    <3>1. CASE t = s
      BY <3>1, <1>2, <1>4, <1>9 DEF StageOK, Ready, Loaded, Pending, Reading
    <3>2. CASE t # s
      BY <3>2, <2>1, <1>2, <1>4, <1>9 DEF StageOK, Ready, Loaded, Pending, Reading
    <3> QED
      BY <3>1, <3>2
  <2>5. \A t \in Servers : LeaseOK(t)'
    <3> SUFFICES ASSUME NEW t \in Servers PROVE LeaseOK(t)'
      OBVIOUS
    <3>1. CASE t = s
      BY <3>1, <2>1, <2>2, <2>3, <1>2, <1>4, <1>9 DEF LeaseOK, Loaded
    <3>2. CASE t # s
      BY <3>2, <2>1, <1>2, <1>4, <1>9 DEF LeaseOK, Loaded, Pending, Creating
    <3> QED
      BY <3>1, <3>2
  <2>6. Made
    BY <1>3, <1>4, <2>1, <1>2 DEF BornOK, Made, HasWriter, Readable, Exists
  <2> QED
    BY <1>1, <1>9, <2>4, <2>5, <2>6 DEF AlwaysOK, BornOK, Made
<1>10. ASSUME NEW s \in Servers, Stop(s), UNCHANGED <<file, empty, row, born>>,
             holder' = IF holder = s THEN Nobody ELSE holder
      PROVE  AlwaysOK'
  <2>1. /\ stage' = [stage EXCEPT ![s] = "down"] /\ plan' = [plan EXCEPT ![s] = <<>>]
        /\ seen' = [seen EXCEPT ![s] = Unseen] /\ state' = [state EXCEPT ![s] = NoRow]
        /\ writer' = [writer EXCEPT ![s] = 0]
        /\ unapplied' = [unapplied EXCEPT ![s] = NoRecord]
        /\ task' = [task EXCEPT ![s] = "none"]
    BY <1>10 DEF Stop
  <2>2. /\ stage'[s] = "down" /\ plan'[s] = <<>> /\ seen'[s] = Unseen
        /\ state'[s] = NoRow /\ writer'[s] = 0 /\ unapplied'[s] = NoRecord
        /\ task'[s] = "none"
    BY <2>1, <1>2
  <2>3. \A t \in Servers \ {s} :
          /\ stage'[t] = stage[t] /\ plan'[t] = plan[t] /\ seen'[t] = seen[t]
          /\ state'[t] = state[t] /\ writer'[t] = writer[t]
          /\ unapplied'[t] = unapplied[t] /\ task'[t] = task[t]
    BY <2>1, <1>2
  <2>4. \A t \in Servers : StageOK(t)' /\ LeaseOK(t)'
    <3> SUFFICES ASSUME NEW t \in Servers PROVE StageOK(t)' /\ LeaseOK(t)'
      OBVIOUS
    <3>1. CASE t = s
      <4>1. StageOK(s)'
        BY <2>2, <1>3 DEF StageOK, Ready, Loaded, Pending, Reading
      <4>2. ~Loaded(s)' /\ ~Creating(s)' /\ ~Pending(s)' /\ holder' # s
        BY <2>2, <1>2, <1>3, <1>10 DEF Loaded, Creating, Pending
      <4>3. LeaseOK(s)'
        BY <4>2, <2>2 DEF LeaseOK
      <4> QED
        BY <3>1, <4>1, <4>3
    <3>2. CASE t # s
      <4>1. StageOK(t)'
        BY <3>2, <2>3, <1>4 DEF StageOK, Ready, Loaded, Pending, Reading
      <4>2. holder' = t <=> holder = t
        BY <3>2, <1>2, <1>10
      <4>3. LeaseOK(t)'
        BY <3>2, <4>2, <2>3, <1>4 DEF LeaseOK, Loaded, Pending, Creating
      <4> QED
        BY <4>1, <4>3
    <3> QED
      BY <3>1, <3>2
  <2>5. BornOK'
    BY <2>2, <2>3, <1>3, <1>4, <1>10 DEF BornOK, Made, Pending, Loaded
  <2> QED
    BY <1>1, <2>4, <2>5 DEF AlwaysOK
<1>11. ASSUME NEW s \in Servers,
             UNCHANGED <<empty, born, holder, stage, plan, seen, state, unapplied>>,
             UNCHANGED row \/ row' = NoRow,
             Made \/ UNCHANGED <<file, writer, task>>,
             UNCHANGED writer \/ writer' = [writer EXCEPT ![s] = 0],
             UNCHANGED task \/ (Ready(s) /\ \E x : task' = [task EXCEPT ![s] = x])
      PROVE  AlwaysOK'
  <2>1. \A t \in Servers : /\ writer'[t] \in {0, writer[t]}
                           /\ task'[t] = task[t] \/ Ready(t)
    BY <1>11, <1>2
  <2>2. \A t \in Servers : StageOK(t)' /\ LeaseOK(t)'
    <3> SUFFICES ASSUME NEW t \in Servers PROVE StageOK(t)' /\ LeaseOK(t)'
      OBVIOUS
    <3>1. StageOK(t)'
      BY <2>1, <1>4, <1>11 DEF StageOK, Ready, Loaded, Pending, Reading
    <3>2. LeaseOK(t)'
      BY <2>1, <1>2, <1>4, <1>11 DEF LeaseOK, Loaded, Pending, Creating
    <3> QED
      BY <3>1, <3>2
  <2>3. BornOK'
    BY <1>4, <1>11 DEF BornOK, Made, Pending, Loaded
  <2> QED
    BY <1>1, <2>2, <2>3 DEF AlwaysOK

<1>12. ASSUME NEW s \in Servers, Apply(s) PROVE AlwaysOK'
  <2> DEFINE u == unapplied[s]
  <2>1. /\ Pending(s) /\ unapplied' = [unapplied EXCEPT ![s] = NoRecord]
        /\ UNCHANGED <<file, empty, born, stage, plan, seen, task>>
    BY <1>12 DEF Apply
  <2>2. unapplied'[s] = NoRecord /\ ~Pending(s)' /\ ~Creating(s)'
    BY <2>1, <1>2, <1>3 DEF Pending, Creating
  <2>3. \A t \in Servers \ {s} :
          /\ unapplied'[t] = unapplied[t] /\ state'[t] = state[t] /\ writer'[t] = writer[t]
          /\ Pending(t)' = Pending(t) /\ Creating(t)' = Creating(t) /\ Loaded(t)' = Loaded(t)
    BY <1>2, <1>12 DEF Apply, Advance, Pending, Creating, Loaded
  <2>4. Ready(s)' /\ Ready(s) /\ Made /\ u.seq > 0
    BY <2>1, <1>4, <1>5, <1>2 DEF Ready, BornOK, Made, Pending
  <2>5. CASE Creating(s)
    <3>1. holder = s /\ ~Loaded(s) /\ u.seq = 1 /\ u.kind = "created" /\ state[s].seq = 0
      BY <2>5, <1>2, <1>4 DEF LeaseOK, Creating, Loaded
    <3>2. (holder' = s /\ Loaded(s)') \/ (holder' = Nobody /\ ~Loaded(s)')
      <4>1. CASE row.seq = u.seq - 1
        <5>1. state' = [state EXCEPT ![s] = [seq |-> u.seq, view |-> Project(@.view, u.kind)]]
          BY <1>12, <3>1, <4>1 DEF Apply
        <5>2. state'[s].seq = u.seq
          BY <5>1, <1>2
        <5>3. holder' = holder
          BY <1>12, <4>1 DEF Apply
        <5> QED
          BY <5>2, <5>3, <2>4, <3>1 DEF Loaded
      <4>2. CASE row.seq # u.seq - 1
        <5>1. state' = [state EXCEPT ![s] = state[s]] /\ holder' = Nobody
          BY <1>12, <3>1, <4>2 DEF Apply
        <5>2. state'[s].seq = 0
          BY <5>1, <3>1, <1>2
        <5> QED
          BY <5>1, <5>2 DEF Loaded
      <4> QED
        BY <4>1, <4>2
    <3>3. \A t \in Servers : LeaseOK(t)'
      <4>1. LeaseOK(s)'
        BY <3>2, <2>2, <2>4, <1>2 DEF LeaseOK, Ready
      <4>2. \A t \in Servers \ {s} : LeaseOK(t)'
        BY <3>1, <3>2, <2>1, <2>3, <1>2, <1>4 DEF LeaseOK
      <4> QED
        BY <4>1, <4>2
    <3>4. \A t \in Servers : StageOK(t)'
      <4>1. StageOK(s)'
        BY <2>1, <2>4, <1>4 DEF StageOK, Ready, Reading
      <4>2. \A t \in Servers \ {s} : StageOK(t)'
        BY <2>1, <2>3, <1>4 DEF StageOK, Ready, Reading
      <4> QED
        BY <4>1, <4>2
    <3> QED
      BY <1>1, <2>1, <2>4, <3>3, <3>4 DEF AlwaysOK, BornOK, Made
  <2>6. CASE ~Creating(s)
    <3>1. u.kind # "created" /\ holder' = holder
      BY <2>1, <2>6, <1>12 DEF Creating, Apply
    <3>2. Loaded(s)' = Loaded(s)
      <4>1. \/ state' = [state EXCEPT ![s] = state[s]]
            \/ state' = [state EXCEPT ![s] = [seq |-> u.seq, view |-> Project(@.view, u.kind)]] /\ Loaded(s)
        BY <1>12, <3>1 DEF Apply
      <4> QED
        BY <4>1, <2>4, <1>2 DEF Loaded
    <3>3. LeaseOK(s)'
      BY <3>1, <3>2, <2>1, <2>2, <2>6, <1>4 DEF LeaseOK
    <3>4. \A t \in Servers \ {s} : LeaseOK(t)'
      BY <3>1, <2>1, <2>3, <1>4 DEF LeaseOK
    <3>5. \A t \in Servers : StageOK(t)'
      <4>1. StageOK(s)'
        BY <2>1, <2>4, <1>4 DEF StageOK, Ready, Reading
      <4>2. \A t \in Servers \ {s} : StageOK(t)'
        BY <2>1, <2>3, <1>4 DEF StageOK, Ready, Reading
      <4> QED
        BY <4>1, <4>2
    <3> QED
      BY <1>1, <2>1, <2>4, <3>3, <3>4, <3>5 DEF AlwaysOK, BornOK, Made
  <2> QED
    BY <2>5, <2>6
<1>13. ASSUME NEW s \in Servers, ~Ready(s), stage[s] # "down",
              UNCHANGED <<file, empty, born, state, unapplied, task>>,
              Made \/ UNCHANGED row,
              \E x : stage' = [stage EXCEPT ![s] = x],
              plan'[s] \in Seq(Kinds \ {"created"}),
              plan' = [plan EXCEPT ![s] = plan'[s]], writer' = [writer EXCEPT ![s] = writer'[s]],
              seen' = [seen EXCEPT ![s] = seen'[s]],
              stage'[s] # "scan" /\ stage'[s] # "down",
              writer' = writer \/ stage'[s] = "repair",
              stage'[s] # "repair" => plan'[s] = <<>>,
              stage'[s] \notin Reading => seen'[s].place = "none",
              stage'[s] = "list" => seen'[s].place \in {"none", "skip"},
              stage'[s] \in {"read", "compare"} => seen'[s].place # "skip",
              Made \/ (stage'[s] # "repair" /\ (stage'[s] = "compare" => seen'[s].place = "none")),
              born \/ seen'[s].place = "none",
              stage[s] # "create" /\ stage'[s] # "create",
              \/ stage'[s] = "repair" /\ stage[s] = "repair" /\ holder' = holder
              \/ stage'[s] = "repair" /\ holder = Nobody /\ holder' = s
              \/ stage'[s] # "repair" /\ stage[s] = "repair" /\ holder' = Nobody
              \/ stage'[s] # "repair" /\ stage[s] # "repair" /\ holder' = holder
       PROVE  AlwaysOK'
  <2>1. /\ ~Loaded(s) /\ ~Pending(s) /\ task[s] = "none" /\ ~Creating(s)
        /\ ~Loaded(s)' /\ ~Pending(s)' /\ task'[s] = "none" /\ ~Creating(s)'
    BY <1>4, <1>13 DEF StageOK, Loaded, Pending, Creating
  <2>2. \A t \in Servers \ {s} :
          /\ stage'[t] = stage[t] /\ plan'[t] = plan[t] /\ seen'[t] = seen[t] /\ writer'[t] = writer[t]
          /\ Loaded(t)' = Loaded(t) /\ Pending(t)' = Pending(t) /\ Creating(t)' = Creating(t)
          /\ Ready(t)' = Ready(t)
          /\ task'[t] = task[t] /\ unapplied'[t] = unapplied[t]
    BY <1>2, <1>13 DEF Loaded, Pending, Creating, Ready
  <2>3. \A t \in Servers : StageOK(t)'
    <3>1. StageOK(s)'
      BY <2>1, <1>13 DEF StageOK
    <3>2. \A t \in Servers \ {s} : StageOK(t)'
      BY <2>2, <1>4 DEF StageOK
    <3> QED
      BY <3>1, <3>2
  <2>4. \A t \in Servers : LeaseOK(t)'
    <3>1. LeaseOK(s)'
      BY <2>1, <1>2, <1>4, <1>13 DEF LeaseOK
    <3>2. ASSUME NEW t \in Servers \ {s} PROVE LeaseOK(t)'
      <4>1. holder' = t <=> holder = t
        BY <2>1, <1>2, <1>4, <1>13 DEF LeaseOK
      <4> QED
        BY <4>1, <2>2, <1>4 DEF LeaseOK
    <3> QED
      BY <3>1, <3>2
  <2>5. BornOK'
    <3>1. Made' = Made /\ born' = born /\ empty' = empty
      BY <1>13 DEF Made
    <3>2. ~Made =>
            /\ row' = NoRow /\ \A p \in Places : file'[p] = Absent
            /\ \A t \in Servers : /\ ~Pending(t)' /\ writer'[t] = 0 /\ task'[t] = "none"
                                  /\ stage'[t] # "repair" /\ ~Loaded(t)'
                                  /\ (stage'[t] = "compare" => seen'[t].place = "none")
      <4> SUFFICES ASSUME ~Made
                   PROVE  /\ row' = NoRow /\ \A p \in Places : file'[p] = Absent
                          /\ \A t \in Servers : /\ ~Pending(t)' /\ writer'[t] = 0 /\ task'[t] = "none"
                                                /\ stage'[t] # "repair" /\ ~Loaded(t)'
                                                /\ (stage'[t] = "compare" => seen'[t].place = "none")
        OBVIOUS
      <4>1. row' = NoRow /\ \A p \in Places : file'[p] = Absent
        BY <1>4, <1>13 DEF BornOK
      <4>2. writer' = writer
        BY <1>13
      <4>3. ASSUME NEW t \in Servers
            PROVE  /\ ~Pending(t)' /\ writer'[t] = 0 /\ task'[t] = "none"
                   /\ stage'[t] # "repair" /\ ~Loaded(t)'
                   /\ (stage'[t] = "compare" => seen'[t].place = "none")
        <5>1. CASE t = s
          BY <5>1, <4>2, <2>1, <1>4, <1>13 DEF BornOK
        <5>2. CASE t # s
          BY <5>2, <4>2, <2>2, <1>4 DEF BornOK
        <5> QED
          BY <5>1, <5>2
      <4> QED
        BY <4>1, <4>3
    <3>3. ~born => ~empty /\ \A t \in Servers : seen'[t].place = "none"
      BY <2>2, <1>4, <1>13 DEF BornOK
    <3>4. \A t \in Servers : stage'[t] = "create" => born /\ empty
      BY <2>2, <1>4, <1>13 DEF BornOK
    <3> QED
      BY <3>1, <3>2, <3>3, <3>4 DEF BornOK
  <2> QED
    BY <1>1, <2>3, <2>4, <2>5 DEF AlwaysOK

<1>14. ASSUME NEW s \in Servers, Boot(s) PROVE AlwaysOK'
  <2>1. /\ stage' = [stage EXCEPT ![s] = "scan"]
        /\ UNCHANGED <<file, empty, row, born, holder, plan, seen, state, writer, unapplied, task>>
        /\ stage[s] = "down"
    BY <1>14 DEF Boot, GoTo
  <2>2. \A t \in Servers : StageOK(t)' /\ LeaseOK(t)'
    <3> SUFFICES ASSUME NEW t \in Servers PROVE StageOK(t)' /\ LeaseOK(t)'
      OBVIOUS
    <3>1. StageOK(t)'
      BY <2>1, <1>2, <1>4 DEF StageOK, Ready, Loaded, Pending, Reading
    <3>2. LeaseOK(t)'
      BY <2>1, <1>2, <1>4 DEF LeaseOK, Loaded, Pending, Creating
    <3> QED
      BY <3>1, <3>2
  <2>3. BornOK'
    BY <2>1, <1>2, <1>4 DEF BornOK, Made, Pending, Loaded
  <2> QED
    BY <1>1, <2>2, <2>3 DEF AlwaysOK
<1>15. ASSUME NEW s \in Servers, ScanSkip(s) PROVE AlwaysOK'
  <2>1. /\ stage[s] = "scan" /\ stage' = [stage EXCEPT ![s] = "list"]
        /\ UNCHANGED <<file, empty, row, born, holder, plan, state, writer, unapplied, task>>
    BY <1>15 DEF ScanSkip, GoTo
  <2>2. seen[s].place = "none" /\ plan[s] = <<>> /\ plan[s] \in Seq(Kinds \ {"created"})
    BY <2>1, <1>4 DEF StageOK, Reading
  <2>3. \/ seen' = seen
        \/ Opened /\ seen' = [seen EXCEPT ![s] = [@ EXCEPT !.place = "skip"]]
    BY <1>15 DEF ScanSkip
  <2>4. /\ seen' = [seen EXCEPT ![s] = seen'[s]] /\ seen'[s].place \in {"none", "skip"}
        /\ born \/ seen'[s].place = "none"
    BY <2>2, <2>3, <1>2, <1>7, <1>8
  <2>5. stage'[s] = "list" /\ ~Ready(s) /\ "list" \in Reading
    BY <2>1, <1>2 DEF Ready, Reading
  <2>6. plan' = [plan EXCEPT ![s] = plan'[s]] /\ writer' = [writer EXCEPT ![s] = writer'[s]]
    BY <2>1, <1>2, <1>8
  <2> QED
    BY <1>13, <2>1, <2>2, <2>4, <2>5, <2>6
<1>16. ASSUME NEW s \in Servers, ScanTake(s) PROVE AlwaysOK'
  <2>1. /\ stage[s] = "scan" /\ stage' = [stage EXCEPT ![s] = "repair"]
        /\ plan' = [plan EXCEPT ![s] = RecoveryPlan(file["active"].view)]
        /\ holder = Nobody /\ holder' = s /\ Exists("active")
        /\ UNCHANGED <<file, empty, row, born, seen, state, writer, unapplied, task>>
    BY <1>16 DEF ScanTake, GoTo, LeaseFree, Readable
  <2>2. seen[s].place = "none" /\ Made /\ born
    <3>1. Made /\ born
      BY <2>1, <1>2, <1>7
    <3> QED
      BY <2>1, <3>1, <1>4 DEF StageOK, Reading
  <2>3. plan'[s] \in Seq(Kinds \ {"created"})
    BY <2>1, <1>2, PlanKinds
  <2>4. stage'[s] = "repair" /\ ~Ready(s) /\ "repair" \notin Reading
    BY <2>1, <1>2 DEF Ready, Reading
  <2>5. /\ plan' = [plan EXCEPT ![s] = plan'[s]] /\ writer' = [writer EXCEPT ![s] = writer'[s]]
        /\ seen' = [seen EXCEPT ![s] = seen'[s]] /\ seen'[s].place = "none"
    BY <2>1, <2>2, <1>2, <1>8
  <2> QED
    BY <1>13, <2>1, <2>2, <2>3, <2>4, <2>5
<1>17. ASSUME NEW s \in Servers, ScanFails(s) PROVE AlwaysOK'
  <2>1. Stop(s) /\ UNCHANGED <<file, empty, row, born>> /\ holder = Nobody /\ holder' = Nobody
    BY <1>17 DEF ScanFails, LeaseFree
  <2>2. holder' = IF holder = s THEN Nobody ELSE holder
    BY <2>1
  <2> QED
    BY <1>10, <2>1, <2>2
<1>18. ASSUME NEW s \in Servers, Repair(s) PROVE AlwaysOK'
  <2>1. /\ stage[s] = "repair" /\ plan[s] # <<>> /\ HasWriter(s)
        /\ writer' = [writer EXCEPT ![s] = NextSeq(s) + 1]
        /\ plan' = [plan EXCEPT ![s] = Tail(@)]
        /\ UNCHANGED <<empty, row, born, holder, stage, seen, state, unapplied, task>>
    BY <1>18 DEF Repair
  <2>2. seen[s].place = "none" /\ Made /\ born /\ plan[s] \in Seq(Kinds \ {"created"})
    <3>1. Made /\ born
      BY <2>1, <1>7
    <3>2. StageOK(s) /\ "repair" \notin Reading
      BY <1>4 DEF Reading
    <3> QED
      BY <2>1, <3>1, <3>2 DEF StageOK
  <2>3. Tail(plan[s]) \in Seq(Kinds \ {"created"})
    BY <2>1, <2>2
  <2>4. \A t \in Servers : StageOK(t)' /\ LeaseOK(t)'
    <3> SUFFICES ASSUME NEW t \in Servers PROVE StageOK(t)' /\ LeaseOK(t)'
      OBVIOUS
    <3>1. CASE t = s
      <4>1. plan'[s] = Tail(plan[s])
        BY <2>1, <1>2
      <4>2. ~Pending(s)
        BY <2>1, <1>5 DEF Ready
      <4>3. StageOK(s)'
        BY <2>1, <2>3, <4>1, <1>4 DEF StageOK, Ready, Loaded, Pending, Reading
      <4>4. LeaseOK(s)'
        BY <2>1, <4>2, <1>4 DEF LeaseOK, Loaded, Pending, Creating
      <4> QED
        BY <3>1, <4>3, <4>4
    <3>2. CASE t # s
      <4>1. writer'[t] = writer[t] /\ plan'[t] = plan[t]
        BY <2>1, <3>2, <1>2
      <4>2. StageOK(t)'
        BY <2>1, <4>1, <1>4 DEF StageOK, Ready, Loaded, Pending, Reading
      <4>3. LeaseOK(t)'
        BY <2>1, <4>1, <1>4 DEF LeaseOK, Loaded, Pending, Creating
      <4> QED
        BY <4>2, <4>3
    <3> QED
      BY <3>1, <3>2
  <2> QED
    BY <1>1, <2>1, <2>2, <2>4 DEF AlwaysOK, BornOK, Made
<1>19. ASSUME NEW s \in Servers, RepairEnds(s) PROVE AlwaysOK'
  <2>1. /\ stage[s] = "repair" /\ plan[s] = <<>> /\ holder' = Nobody
        /\ stage' = [stage EXCEPT ![s] = "list"]
        /\ UNCHANGED <<file, empty, row, born, plan, seen, state, writer, unapplied, task>>
    BY <1>19 DEF RepairEnds, GoTo
  <2>2. seen[s].place = "none" /\ plan[s] \in Seq(Kinds \ {"created"})
    BY <2>1, <1>4 DEF StageOK, Reading
  <2>3. stage'[s] = "list" /\ ~Ready(s) /\ "list" \in Reading
    BY <2>1, <1>2 DEF Ready, Reading
  <2>4. /\ plan' = [plan EXCEPT ![s] = plan'[s]] /\ writer' = [writer EXCEPT ![s] = writer'[s]]
        /\ seen' = [seen EXCEPT ![s] = seen'[s]]
    BY <2>1, <1>2, <1>8
  <2> QED
    BY <1>13, <2>1, <2>2, <2>3, <2>4
<1>20. ASSUME NEW s \in Servers, List(s) PROVE AlwaysOK'
  <2>1. /\ stage[s] = "list"
        /\ UNCHANGED <<file, empty, row, born, holder, plan, state, writer, unapplied, task>>
    BY <1>20 DEF List
  <2>2. plan[s] = <<>> /\ plan[s] \in Seq(Kinds \ {"created"}) /\ ~Ready(s)
    BY <2>1, <1>4 DEF StageOK, Ready
  <2>3. plan' = [plan EXCEPT ![s] = plan'[s]] /\ writer' = [writer EXCEPT ![s] = writer'[s]]
    BY <2>1, <1>2, <1>8
  <2>4. CASE Opened /\ seen[s].place = "skip"
    <3>1. stage' = [stage EXCEPT ![s] = "ready"] /\ seen' = [seen EXCEPT ![s] = Unseen]
      BY <1>20, <2>4 DEF List, GoTo
    <3>2. /\ stage'[s] = "ready" /\ "ready" \notin Reading /\ seen'[s].place = "none"
          /\ seen' = [seen EXCEPT ![s] = seen'[s]]
      BY <3>1, <1>2, <1>3 DEF Reading
    <3> QED
      BY <1>13, <2>1, <2>2, <2>3, <3>1, <3>2
  <2>5. CASE ~(Opened /\ seen[s].place = "skip")
    <3>1. PICK p \in {"active", "archived", "none"} :
            /\ seen' = [seen EXCEPT ![s] = [@ EXCEPT !.place = p]]
            /\ p # "none" => Opened \/ Exists(p)
      BY <1>20, <2>5 DEF List
    <3>2. stage' = [stage EXCEPT ![s] = "read"]
      BY <1>20, <2>5 DEF List, GoTo
    <3>3. /\ stage'[s] = "read" /\ "read" \in Reading /\ seen'[s].place = p
          /\ seen' = [seen EXCEPT ![s] = seen'[s]]
      BY <3>1, <3>2, <1>2 DEF Reading
    <3>4. born \/ p = "none"
      BY <3>1, <1>2, <1>7 DEF Places
    <3> QED
      BY <1>13, <2>1, <2>2, <2>3, <3>1, <3>2, <3>3, <3>4
  <2> QED
    BY <2>4, <2>5
<1>21. ASSUME NEW s \in Servers, ReadLog(s) PROVE AlwaysOK'
  <2>1. /\ stage[s] = "read" /\ stage' = [stage EXCEPT ![s] = "compare"]
        /\ UNCHANGED <<file, empty, row, born, holder, plan, state, writer, unapplied, task>>
    BY <1>21 DEF ReadLog, GoTo
  <2>2. plan[s] = <<>> /\ plan[s] \in Seq(Kinds \ {"created"}) /\ ~Ready(s) /\ seen[s].place # "skip"
    BY <2>1, <1>4 DEF StageOK, Ready
  <2>3. plan' = [plan EXCEPT ![s] = plan'[s]] /\ writer' = [writer EXCEPT ![s] = writer'[s]]
    BY <2>1, <1>2, <1>8
  <2>4. \/ seen' = seen
        \/ \E q, v : seen' = [seen EXCEPT ![s] = [@ EXCEPT !.seq = q, !.view = v]]
    BY <1>21 DEF ReadLog
  <2>5. seen' = [seen EXCEPT ![s] = seen'[s]] /\ seen'[s].place = seen[s].place
    <3>1. CASE seen' = seen
      BY <3>1, <1>8
    <3>2. ASSUME NEW q, NEW v, seen' = [seen EXCEPT ![s] = [@ EXCEPT !.seq = q, !.view = v]]
          PROVE  /\ seen' = [seen EXCEPT ![s] = seen'[s]]
                 /\ seen'[s].place = seen[s].place
      <4>1. seen'[s] = [seen[s] EXCEPT !.seq = q, !.view = v]
        BY <3>2, <1>2
      <4>2. seen'[s].place = seen[s].place
        BY <4>1, <1>2
      <4> QED
        BY <3>2, <4>1, <4>2
    <3> QED
      BY <2>4, <3>1, <3>2
  <2>6. stage'[s] = "compare" /\ "compare" \in Reading /\ (born \/ seen[s].place = "none")
    BY <2>1, <1>2, <1>4 DEF Reading, BornOK
  <2>7. Made \/ seen[s].place = "none"
    <3>1. seen[s].place \in Places \union {"none", "skip"}
      BY <1>1 DEF TypeOK
    <3>2. seen[s].place = "none" \/ Exists(seen[s].place)
      BY <1>21 DEF ReadLog, Readable
    <3> QED
      BY <2>2, <3>1, <3>2, <1>7
  <2> QED
    BY <1>13, <2>1, <2>2, <2>3, <2>5, <2>6, <2>7
<1>22. ASSUME NEW s \in Servers, ReconcileFails(s) PROVE AlwaysOK'
  <2>1. /\ Stop(s) /\ UNCHANGED <<file, empty, row, born, holder>>
        /\ stage[s] \in {"list", "read"}
    BY <1>22 DEF ReconcileFails
  <2>2. holder # s
    BY <2>1, <1>4, <1>5 DEF LeaseOK, StageOK, Ready, Creating
  <2>3. holder' = IF holder = s THEN Nobody ELSE holder
    BY <2>1, <2>2
  <2> QED
    BY <1>10, <2>1, <2>3
<1>23. ASSUME NEW s \in Servers, Reconcile(s) PROVE AlwaysOK'
  <2>1. /\ stage[s] = "compare" /\ stage' = [stage EXCEPT ![s] = "ready"]
        /\ seen' = [seen EXCEPT ![s] = Unseen]
        /\ UNCHANGED <<file, empty, born, holder, plan, state, writer, unapplied, task>>
    BY <1>23 DEF Reconcile, GoTo
  <2>2. plan[s] = <<>> /\ plan[s] \in Seq(Kinds \ {"created"}) /\ ~Ready(s)
    BY <2>1, <1>4 DEF StageOK, Ready
  <2>3. plan' = [plan EXCEPT ![s] = plan'[s]] /\ writer' = [writer EXCEPT ![s] = writer'[s]]
    BY <2>1, <1>2, <1>8
  <2>4. /\ stage'[s] = "ready" /\ "ready" \notin Reading /\ seen'[s].place = "none"
        /\ seen' = [seen EXCEPT ![s] = seen'[s]]
    BY <2>1, <1>2, <1>3 DEF Reading
  <2>5. CASE Made
    BY <1>13, <2>1, <2>2, <2>3, <2>4, <2>5
  <2>6. CASE ~Made
    <3>1. row' = row
      BY <2>6, <1>4, <1>23 DEF BornOK, Made, Reconcile
    <3> QED
      BY <1>13, <2>1, <2>2, <2>3, <2>4, <3>1
  <2> QED
    BY <2>5, <2>6
<1>24. ASSUME NEW s \in Servers, Create(s) PROVE AlwaysOK'
  <2>1. /\ stage[s] = "create" /\ empty' = FALSE /\ holder' = holder /\ born' = born
        /\ stage' = [stage EXCEPT ![s] = "ready"]
        /\ writer' = [writer EXCEPT ![s] = 1]
        /\ unapplied' = [unapplied EXCEPT ![s] = [seq |-> 1, kind |-> "created"]]
        /\ UNCHANGED <<row, plan, seen, state, task>>
    BY <1>24 DEF Create, GoTo
  <2>7. ~Made /\ born /\ holder = s
    BY <2>1, <1>4 DEF BornOK, Made, LeaseOK
  <2>8. stage'[s] = "ready" /\ \A t \in Servers \ {s} : stage'[t] = stage[t] /\ stage[t] # "create"
    BY <2>1, <2>7, <1>2, <1>4 DEF LeaseOK
  <2>2. \A t \in Servers : ~Pending(t) /\ ~Loaded(t) /\ stage[t] # "repair" /\ writer[t] = 0 /\ ~Creating(t)
    BY <2>1, <2>7, <1>4 DEF BornOK, Creating
  <2>3. unapplied'[s] = [seq |-> 1, kind |-> "created"] /\ writer'[s] = 1
    BY <2>1, <1>2
  <2>4. Creating(s)' /\ Pending(s)' /\ ~Loaded(s)' /\ 1 <= MaxLen
    BY <2>1, <2>2, <2>3, Constants DEF Creating, Pending, Loaded
  <2>5. StageOK(s)' /\ LeaseOK(s)'
    <3>1. LeaseOK(s)'
      BY <2>1, <2>3, <2>4, <2>7 DEF LeaseOK
    <3>2. StageOK(s)'
      BY <2>1, <2>8, <1>4 DEF StageOK, Ready, Reading
    <3> QED
      BY <3>1, <3>2
  <2>6. ASSUME NEW t \in Servers \ {s} PROVE StageOK(t)' /\ LeaseOK(t)'
    <3>1. ~Pending(t)' /\ ~Creating(t)' /\ ~Loaded(t)' /\ writer'[t] = 0 /\ holder' # t
      BY <2>1, <2>2, <2>7, <1>2 DEF Pending, Creating, Loaded
    <3>2. LeaseOK(t)'
      BY <2>1, <2>2, <2>8, <3>1 DEF LeaseOK
    <3>3. StageOK(t)'
      BY <2>1, <2>8, <3>1, <1>4 DEF StageOK, Ready, Reading
    <3> QED
      BY <3>2, <3>3
  <2> QED
    BY <1>1, <2>1, <2>5, <2>6, <2>7, <2>8 DEF AlwaysOK, BornOK, Made
<1>34. ASSUME NEW s \in Servers, CreateFails(s) PROVE AlwaysOK'
  <2>1. /\ stage[s] = "create" /\ holder' = Nobody /\ stage' = [stage EXCEPT ![s] = "ready"]
        /\ UNCHANGED <<file, empty>> \/ empty' = FALSE
        /\ UNCHANGED <<row, born, plan, seen, state, writer, unapplied, task>>
    BY <1>34 DEF CreateFails, GoTo
  <2>2. ~Made /\ born /\ holder = s
    BY <2>1, <1>4 DEF BornOK, Made, LeaseOK
  <2>3. /\ stage'[s] = "ready"
        /\ \A t \in Servers \ {s} : stage'[t] = stage[t] /\ stage[t] # "create"
    BY <2>1, <2>2, <1>2, <1>4 DEF LeaseOK
  <2>4. \A t \in Servers : ~Pending(t) /\ ~Loaded(t) /\ stage[t] # "repair" /\ ~Creating(t)
    BY <2>2, <1>4 DEF BornOK, Creating
  <2>5. ASSUME NEW t \in Servers PROVE StageOK(t)' /\ LeaseOK(t)'
    <3>1. ~Pending(t)' /\ ~Loaded(t)' /\ ~Creating(t)' /\ stage'[t] \notin {"repair", "create"}
      BY <2>1, <2>3, <2>4 DEF Pending, Loaded, Creating
    <3>2. LeaseOK(t)'
      BY <2>1, <3>1, <1>2 DEF LeaseOK
    <3>3. StageOK(t)'
      BY <2>1, <2>3, <3>1, <1>4 DEF StageOK, Ready, Reading
    <3> QED
      BY <3>2, <3>3
  <2>6. BornOK'
    BY <2>1, <2>2, <2>3, <1>4 DEF BornOK, Made, Pending, Loaded
  <2> QED
    BY <1>1, <2>5, <2>6 DEF AlwaysOK
<1>35. ASSUME NEW s \in Servers, Open(s) PROVE AlwaysOK'
  <2>1. /\ Ready(s) /\ ~born /\ born' = TRUE /\ holder' = s /\ empty' = TRUE
        /\ stage' = [stage EXCEPT ![s] = "create"]
        /\ UNCHANGED <<file, row, plan, seen, state, writer, unapplied, task>>
    BY <1>35 DEF Open, GoTo
  <2>2. \A t \in Servers : /\ ~Pending(t) /\ ~Loaded(t) /\ ~Creating(t) /\ task[t] = "none"
                            /\ stage[t] \notin {"repair", "create"}
    BY <2>1, <1>4 DEF BornOK, Made, Creating
  <2>3. stage'[s] = "create" /\ \A t \in Servers \ {s} : stage'[t] = stage[t]
    BY <2>1, <1>2
  <2>4. ASSUME NEW t \in Servers PROVE StageOK(t)' /\ LeaseOK(t)'
    <3>1. ~Pending(t)' /\ ~Loaded(t)' /\ ~Creating(t)' /\ task'[t] = "none"
      BY <2>1, <2>2 DEF Pending, Loaded, Creating
    <3>2. LeaseOK(t)'
      BY <2>1, <2>2, <2>3, <3>1 DEF LeaseOK
    <3>3. StageOK(t)'
      BY <2>1, <2>3, <3>1, <1>4 DEF StageOK, Ready, Reading
    <3> QED
      BY <3>2, <3>3
  <2>5. BornOK'
    BY <2>1, <2>2, <2>3, <1>4 DEF BornOK, Made, Pending, Loaded
  <2> QED
    BY <1>1, <2>4, <2>5 DEF AlwaysOK
<1>25. ASSUME NEW s \in Servers, Load(s) PROVE AlwaysOK'
  <2>1. /\ Ready(s) /\ ~Loaded(s) /\ ~Pending(s) /\ holder = Nobody /\ Exists("active") /\ holder' = s
        /\ state' = [state EXCEPT ![s] = [seq  |-> file["active"].len,
                                          view |-> file["active"].view]]
        /\ UNCHANGED <<file, empty, row, born, stage, plan, seen, writer, unapplied, task>>
    BY <1>25 DEF Load, LeaseFree, Readable
  <2>2. Made /\ Loaded(s)' /\ ~Pending(s)' /\ ~Creating(s)'
    <3>1. state'[s].seq = file["active"].len
      BY <2>1, <1>2
    <3> QED
      BY <2>1, <3>1, <1>2, <1>7 DEF Loaded, Exists, Pending, Creating
  <2>3. StageOK(s)' /\ LeaseOK(s)'
    <3>1. StageOK(s)'
      BY <2>1, <1>4 DEF StageOK, Ready, Reading
    <3>2. LeaseOK(s)'
      BY <2>1, <2>2 DEF LeaseOK
    <3> QED
      BY <3>1, <3>2
  <2>4. ASSUME NEW t \in Servers \ {s} PROVE StageOK(t)' /\ LeaseOK(t)'
    <3>1. Loaded(t)' = Loaded(t) /\ Pending(t)' = Pending(t) /\ Creating(t)' = Creating(t)
      BY <2>1, <1>2 DEF Loaded, Pending, Creating
    <3>2. StageOK(t)'
      BY <2>1, <3>1, <1>4 DEF StageOK, Ready, Reading
    <3>3. LeaseOK(t)'
      BY <2>1, <3>1, <1>2, <1>4 DEF LeaseOK
    <3> QED
      BY <3>2, <3>3
  <2> QED
    BY <1>1, <2>1, <2>2, <2>3, <2>4 DEF AlwaysOK, BornOK, Made
<1>26. ASSUME NEW s \in Servers, AppendRecord(s) PROVE AlwaysOK'
  <2>1. PICK k \in MayAppend(state[s].view) : Write(s, k)
    BY <1>26 DEF AppendRecord
  <2>2. k \in Kinds /\ k # "created"
    BY <2>1 DEF MayAppend, Kinds
  <2>3. Ready(s) /\ UNCHANGED <<empty, row, born, holder, stage, plan, seen, state, task>>
    BY <1>26 DEF AppendRecord
  <2> QED
    BY <1>9, <2>1, <2>2, <2>3
<1>27. ASSUME NEW s \in Servers, AppendFails(s) PROVE AlwaysOK'
  <2>1. /\ Ready(s) /\ Loaded(s) /\ ~Pending(s) /\ HasWriter(s) /\ NextSeq(s) <= MaxLen
        /\ writer' = [writer EXCEPT ![s] = NextSeq(s)]
        /\ UNCHANGED <<empty, row, born, holder, stage, plan, seen, state, unapplied, task>>
    BY <1>27 DEF AppendFails, Room
  <2>2. \A t \in Servers : StageOK(t)' /\ LeaseOK(t)'
    <3> SUFFICES ASSUME NEW t \in Servers PROVE StageOK(t)' /\ LeaseOK(t)'
      OBVIOUS
    <3>1. t = s \/ writer'[t] = writer[t]
      BY <2>1, <1>2
    <3>2. StageOK(t)'
      BY <2>1, <3>1, <1>4 DEF StageOK, Ready, Loaded, Pending, Reading
    <3>3. LeaseOK(t)'
      BY <2>1, <3>1, <1>4 DEF LeaseOK, Loaded, Pending, Creating
    <3> QED
      BY <3>2, <3>3
  <2> QED
    BY <1>1, <1>7, <2>1, <2>2 DEF AlwaysOK, BornOK, Made
<1>28. ASSUME NEW s \in Servers, Unload(s) PROVE AlwaysOK'
  <2>1. /\ Loaded(s) /\ ~Pending(s) /\ state' = [state EXCEPT ![s] = NoRow] /\ holder' = Nobody
        /\ UNCHANGED <<file, empty, row, born, stage, plan, seen, writer, unapplied, task>>
    BY <1>28 DEF Unload
  <2>2. Ready(s) /\ holder = s /\ ~Creating(s) /\ Made
    BY <2>1, <1>4 DEF StageOK, LeaseOK, Creating, BornOK, Made
  <2>3. ~Loaded(s)' /\ ~Pending(s)' /\ ~Creating(s)'
    <3>1. state'[s] = NoRow
      BY <2>1, <1>2
    <3> QED
      BY <2>1, <3>1, <1>3 DEF Loaded, Pending, Creating
  <2>4. StageOK(s)' /\ LeaseOK(s)'
    <3>1. StageOK(s)'
      BY <2>1, <2>2, <1>4 DEF StageOK, Ready, Reading
    <3>2. LeaseOK(s)'
      BY <2>1, <2>2, <2>3, <1>2 DEF LeaseOK, Ready
    <3> QED
      BY <3>1, <3>2
  <2>5. ASSUME NEW t \in Servers \ {s} PROVE StageOK(t)' /\ LeaseOK(t)'
    <3>1. Loaded(t)' = Loaded(t) /\ Pending(t)' = Pending(t) /\ Creating(t)' = Creating(t)
      BY <2>1, <1>2 DEF Loaded, Pending, Creating
    <3>2. StageOK(t)'
      BY <2>1, <3>1, <1>4 DEF StageOK, Ready, Reading
    <3>3. LeaseOK(t)'
      BY <2>1, <2>2, <3>1, <1>2, <1>4 DEF LeaseOK
    <3> QED
      BY <3>2, <3>3
  <2> QED
    BY <1>1, <2>1, <2>2, <2>4, <2>5 DEF AlwaysOK, BornOK, Made
<1>29. ASSUME NEW s \in Servers, Archive(s) \/ ArchiveFlush(s) \/ LifecycleFails(s) PROVE AlwaysOK'
  <2>1. Ready(s) /\ Made
    <3>1. CASE Archive(s)
      BY <3>1, <1>7 DEF Archive, MayStart
    <3>2. CASE ArchiveFlush(s) \/ LifecycleFails(s)
      <4>1. task[s] # "none"
        BY <3>2 DEF ArchiveFlush, LifecycleFails
      <4> QED
        BY <4>1, <1>6
    <3> QED
      BY <1>29, <3>1, <3>2
  <2>2. \E x : task' = [task EXCEPT ![s] = x]
    BY <1>29 DEF Archive, ArchiveFlush, LifecycleFails, Continue
  <2> QED
    BY <1>11, <1>29, <2>1, <2>2 DEF Archive, ArchiveFlush, LifecycleFails
<1>30. ASSUME NEW s \in Servers, ArchiveAppend(s) \/ UnarchiveAppend(s) PROVE AlwaysOK'
  <2>1. PICK k \in Kinds \ {"created"} : Write(s, k)
    BY <1>30 DEF ArchiveAppend, UnarchiveAppend, Kinds
  <2>2. Ready(s) /\ \E x : task' = [task EXCEPT ![s] = x]
    BY <1>30, <1>6 DEF ArchiveAppend, UnarchiveAppend, Continue
  <2>3. UNCHANGED <<empty, row, born, holder, stage, plan, seen, state>>
    BY <1>30 DEF ArchiveAppend, UnarchiveAppend
  <2> QED
    BY <1>9, <2>1, <2>2, <2>3
<1>31. ASSUME NEW s \in Servers,
              ArchiveRename(s) \/ ArchiveEnds(s) \/ Unarchive(s) \/ Delete(s) \/ DeleteRow(s)
       PROVE  AlwaysOK'
  <2>1. Ready(s) /\ Made
    BY <1>31, <1>2, <1>6, <1>7 DEF ArchiveRename, ArchiveEnds, Unarchive, Delete, DeleteRow, MayStart
  <2>2. \E x : task' = [task EXCEPT ![s] = x]
    BY <1>31 DEF ArchiveRename, ArchiveEnds, Unarchive, Delete, DeleteRow, Continue
  <2>3. UNCHANGED <<empty, born, holder, stage, plan, seen, state, unapplied>>
    BY <1>31 DEF ArchiveRename, ArchiveEnds, Unarchive, Delete, DeleteRow
  <2>4. /\ UNCHANGED row \/ row' = NoRow
        /\ UNCHANGED writer \/ writer' = [writer EXCEPT ![s] = 0]
    BY <1>31 DEF ArchiveRename, ArchiveEnds, Unarchive, Delete, DeleteRow
  <2> QED
    BY <1>11, <2>1, <2>2, <2>3, <2>4
<1>32. ASSUME NEW s \in Servers, Crash(s) PROVE AlwaysOK'
  BY <1>10, <1>32 DEF Crash
<1>33. CASE UNCHANGED vars
  BY <1>1, <1>4, <1>33 DEF vars, serverVars, AlwaysOK, StageOK, LeaseOK, BornOK, Made, Ready, Loaded,
     Pending, Creating
<1> QED
  BY <1>12, <1>14, <1>15, <1>16, <1>17, <1>18, <1>19, <1>20, <1>21, <1>22, <1>23, <1>24, <1>25,
     <1>26, <1>27, <1>28, <1>29, <1>30, <1>31, <1>32, <1>33, <1>34, <1>35 DEF Next, Step

\* A lifecycle operation meets no loaded thread, no other one and no writer of
\* another Server: what the absence of Overlap means.
Alone ==
  \A s \in Servers : task[s] # "none" =>
    holder = Nobody /\ \A t \in Servers \ {s} : task[t] = "none" /\ writer[t] = 0

\* One Server at a time has a writer: what the absence of HandedOver means.
OneWriter == \A s, t \in Servers : writer[s] > 0 /\ writer[t] > 0 => s = t

\* While a Server reconciles, no other works on the thread: what the absence of
\* StartBeside means.
ReadsAlone ==
  \A s, t \in Servers : s # t /\ stage[s] \in Reading =>
    task[t] = "none" /\ (seen[s].place # "skip" => ~Pending(t) /\ holder # t)

\* What has not been recorded as a cause is not the case.
LEMMA Exclusions ==
  TypeOK /\ Present \subseteq causes =>
    /\ causes \subseteq {"start", "crash"} => Alone /\ OneWriter
    /\ causes = {} => ReadsAlone
<1> SUFFICES ASSUME TypeOK, Present \subseteq causes
             PROVE  /\ causes \subseteq {"start", "crash"} => Alone /\ OneWriter
                    /\ causes = {} => ReadsAlone
  OBVIOUS
<1>1. \A s \in Servers : writer[s] \in Nat
  <2>1. MaxLen \in Nat
    BY MaxLenAssumption
  <2>2. ASSUME NEW s \in Servers PROVE writer[s] \in 0..(MaxLen + 1)
    BY DEF TypeOK
  <2>3. \A x \in 0..(MaxLen + 1) : x \in Nat
    BY <2>1
  <2> QED
    BY <2>2, <2>3
<1>2. ASSUME causes \subseteq {"start", "crash"} PROVE Alone /\ OneWriter
  <2>1. ~Overlap /\ ~HandedOver
    BY <1>2 DEF Present
  <2>2. Alone
    BY <2>1, <1>1 DEF Overlap, Alone
  <2>3. OneWriter
    BY <2>1 DEF HandedOver, OneWriter
  <2> QED
    BY <2>2, <2>3
<1>3. ASSUME causes = {} PROVE ReadsAlone
  <2>1. ~StartBeside
    BY <1>3 DEF Present
  <2> QED
    BY <2>1 DEF StartBeside, ReadsAlone, Reading
<1> QED
  BY <1>2, <1>3

\* Neither is it in the state after a step.
LEMMA NextExclusions ==
  TypeOK' /\ Present' \subseteq causes' =>
    /\ causes' \subseteq {"start", "crash"} => Alone' /\ OneWriter'
    /\ causes' = {} => ReadsAlone'
<1>1. (TypeOK /\ Present \subseteq causes =>
         /\ causes \subseteq {"start", "crash"} => Alone /\ OneWriter
         /\ causes = {} => ReadsAlone)'
  BY Exclusions, PTL
<1> QED
  BY <1>1

\* Causes are never forgotten, and without them a step is no failed write, and
\* the Server that dies was the only one up.
LEMMA CausesStep ==
  ASSUME AlwaysOK, Present \subseteq causes, [Next]_vars
  PROVE  /\ causes \subseteq causes' /\ Present' \subseteq causes'
         /\ causes' = {} => \/ \E s \in Servers : Step(s)
                            \/ \E s \in Servers : Crash(s) /\ \A t \in Servers \ {s} : ~Up(t)
                            \/ UNCHANGED vars
         /\ causes' \subseteq {"start", "crash"} =>
              \/ \E s \in Servers : Step(s) \/ (Crash(s) /\ stage[s] # "create")
              \/ UNCHANGED vars
<1>1. CASE UNCHANGED vars
  <2>1. Present' = Present
    BY <1>1 DEF vars, serverVars, Present, Overlap, HandedOver, StartBeside, Pending
  <2> QED
    BY <1>1, <2>1 DEF vars
<1>2. CASE Next
  <2>1. causes \subseteq causes' /\ Present' \subseteq causes'
    BY <1>2 DEF Next
  <2>2. ASSUME causes' \subseteq {"start", "crash"}
        PROVE  \E s \in Servers : Step(s) \/ (Crash(s) /\ stage[s] # "create")
    BY <1>2, <2>2 DEF Next, DeathOf
  <2>3. ASSUME causes' = {}
        PROVE  \/ \E s \in Servers : Step(s)
               \/ \E s \in Servers : Crash(s) /\ \A t \in Servers \ {s} : ~Up(t)
    BY <1>2, <2>3 DEF Next, DeathOf
  <2> QED
    BY <1>2, <2>1, <2>2, <2>3 DEF Next
<1> QED
  BY <1>1, <1>2

\* The parts of the state one by one, for the steps that change one of them.
LEMMA Shapes ==
  ASSUME TypeOK
  PROVE  /\ DOMAIN file = Places
         /\ \A p \in Places : /\ file[p].len \in Nat /\ file[p].view \in Views
                              /\ DOMAIN file[p] = {"len", "view", "ok"}
         /\ DOMAIN stage = Servers /\ DOMAIN plan = Servers /\ DOMAIN seen = Servers
         /\ DOMAIN state = Servers /\ DOMAIN writer = Servers
         /\ DOMAIN unapplied = Servers /\ DOMAIN task = Servers
         /\ \A s \in Servers : /\ DOMAIN seen[s] = {"place", "seq", "view"}
                               /\ writer[s] \in Nat /\ unapplied[s].seq \in Nat
                               /\ unapplied[s].kind \in Kinds
                               /\ state[s].seq \in Nat /\ state[s].view \in Views
                               /\ plan[s] \in Seq(Kinds)
         /\ row.seq \in Nat /\ row.view \in Views
         /\ "active" \in Places /\ "archived" \in Places
         /\ \A p \in Places : p = "active" \/ p = "archived"
<1>1. MaxLen \in Nat
  BY MaxLenAssumption
<1>2. \A x \in 0..MaxLen : x \in Nat
  BY <1>1
<1>3. \A x \in 0..(MaxLen + 1) : x \in Nat
  BY <1>1
<1>4. DOMAIN file = Places /\ \A p \in Places : /\ file[p].len \in Nat /\ file[p].view \in Views
                                               /\ DOMAIN file[p] = {"len", "view", "ok"}
  BY <1>2 DEF TypeOK
<1>5. /\ DOMAIN stage = Servers /\ DOMAIN plan = Servers /\ DOMAIN seen = Servers
      /\ DOMAIN state = Servers /\ DOMAIN writer = Servers
      /\ DOMAIN unapplied = Servers /\ DOMAIN task = Servers
  BY DEF TypeOK
<1>6. ASSUME NEW s \in Servers
      PROVE  /\ DOMAIN seen[s] = {"place", "seq", "view"}
             /\ writer[s] \in Nat /\ unapplied[s].seq \in Nat /\ unapplied[s].kind \in Kinds
             /\ state[s].seq \in Nat /\ state[s].view \in Views /\ plan[s] \in Seq(Kinds)
  <2>1. DOMAIN seen[s] = {"place", "seq", "view"} /\ plan[s] \in Seq(Kinds)
    BY DEF TypeOK
  <2>2. writer[s] \in 0..(MaxLen + 1) /\ unapplied[s].seq \in 0..MaxLen /\ unapplied[s].kind \in Kinds
    BY DEF TypeOK
  <2>3. state[s].seq \in 0..MaxLen /\ state[s].view \in Views
    BY DEF TypeOK
  <2> QED
    BY <1>2, <1>3, <2>1, <2>2, <2>3
<1>7. row.seq \in Nat /\ row.view \in Views
  BY <1>2 DEF TypeOK
<1> QED
  BY <1>4, <1>5, <1>6, <1>7 DEF Places

\* Sequence numbers are numbers.
LEMMA Numbers ==
  TypeOK => \A s \in Servers : writer[s] \in Nat /\ unapplied[s].seq \in Nat
BY Shapes

\* Sequence numbers are numbers in the next state.
LEMMA NextNumbers ==
  TypeOK' => \A s \in Servers : writer'[s] \in Nat /\ unapplied'[s].seq \in Nat
<1>1. (TypeOK => \A s \in Servers : writer[s] \in Nat /\ unapplied[s].seq \in Nat)'
  BY Numbers, PTL
<1> QED
  BY <1>1

\* A step of one Server changes nothing in the memory of another.
LEMMA OthersKeep ==
  ASSUME TypeOK, NEW s \in Servers, Step(s) \/ Crash(s)
  PROVE  \A t \in Servers \ {s} :
           /\ stage'[t] = stage[t] /\ plan'[t] = plan[t] /\ seen'[t] = seen[t]
           /\ state'[t] = state[t] /\ writer'[t] = writer[t]
           /\ unapplied'[t] = unapplied[t] /\ task'[t] = task[t]
           /\ Pending(t)' = Pending(t) /\ Loaded(t)' = Loaded(t) /\ Ready(t)' = Ready(t)
           /\ Creating(t)' = Creating(t)
<1> SUFFICES ASSUME NEW t \in Servers \ {s}
             PROVE  /\ stage'[t] = stage[t] /\ plan'[t] = plan[t] /\ seen'[t] = seen[t]
                    /\ state'[t] = state[t] /\ writer'[t] = writer[t]
                    /\ unapplied'[t] = unapplied[t] /\ task'[t] = task[t]
  BY DEF Pending, Loaded, Ready, Creating
<1>1. /\ DOMAIN stage = Servers /\ DOMAIN plan = Servers /\ DOMAIN seen = Servers
      /\ DOMAIN state = Servers /\ DOMAIN writer = Servers
      /\ DOMAIN unapplied = Servers /\ DOMAIN task = Servers
  BY Shapes
<1>2. CASE Apply(s)
  BY <1>1, <1>2 DEF Apply, Advance
<1>3. CASE Boot(s) \/ ScanTake(s) \/ Repair(s) \/ RepairEnds(s)
  BY <1>1, <1>3 DEF Boot, ScanTake, Repair, RepairEnds, GoTo
<1>4. CASE ScanSkip(s) \/ List(s)
  BY <1>1, <1>4 DEF ScanSkip, List, GoTo
<1>5. CASE ReadLog(s) \/ Reconcile(s)
  BY <1>1, <1>5 DEF ReadLog, Reconcile, GoTo
<1>6. CASE ScanFails(s) \/ ReconcileFails(s) \/ Crash(s)
  BY <1>1, <1>6 DEF ScanFails, ReconcileFails, Crash, Stop
<1>7. CASE Open(s) \/ Create(s) \/ Load(s) \/ Unload(s)
  BY <1>1, <1>7 DEF Open, Create, Load, Unload, GoTo
<1>8. CASE AppendRecord(s)
  BY <1>1, <1>8 DEF AppendRecord, Write
<1>9. CASE ArchiveAppend(s) \/ UnarchiveAppend(s)
  BY <1>1, <1>9 DEF ArchiveAppend, UnarchiveAppend, Write, Continue
<1>10. CASE Archive(s) \/ ArchiveFlush(s) \/ ArchiveRename(s) \/ ArchiveEnds(s)
  BY <1>1, <1>10 DEF Archive, ArchiveFlush, ArchiveRename, ArchiveEnds, Continue
<1>11. CASE Unarchive(s) \/ LifecycleFails(s) \/ Delete(s) \/ DeleteRow(s)
  BY <1>1, <1>11 DEF Unarchive, LifecycleFails, Delete, DeleteRow, Continue
<1> QED
  BY <1>2, <1>3, <1>4, <1>5, <1>6, <1>7, <1>8, <1>9, <1>10, <1>11 DEF Step

\* A record written with nothing unapplied extends the one log by the number
\* its file expects.
LEMMA Written ==
  ASSUME TypeOK, OneLog, NEW s \in Servers, WriterOK(s), ~Pending(s), HasWriter(s), Room(s),
         task[s] \notin {"moved", "delete"}, NEW k \in Kinds, k # "created",
         file' = [file EXCEPT !["active"] = Grown(@, NextSeq(s), k)]
  PROVE  /\ NextSeq(s) = file["active"].len + 1 /\ Exists("active")
         /\ file'["active"].len = file["active"].len + 1
         /\ file'["active"].view = Project(file["active"].view, k)
         /\ file'["active"].ok = TRUE
         /\ file'["archived"] = file["archived"] /\ file["archived"] = Absent
<1>1. /\ DOMAIN file = Places /\ file["active"].len \in Nat /\ writer[s] \in Nat
      /\ "active" \in Places /\ "archived" \in Places
  BY Shapes
<1>2. NextSeq(s) = file["active"].len + 1 /\ Exists("active")
  BY <1>1 DEF WriterOK, NextSeq, HasWriter, Readable
<1>3. file["archived"] = Absent /\ file["active"].ok
  BY <1>1, <1>2 DEF OneLog
<1>4. file["active"] \in [len : 0..MaxLen, view : Views, ok : BOOLEAN]
  BY <1>1 DEF TypeOK
<1>5. file["active"].len < MaxLen /\ file["active"].len > 0
  BY <1>2 DEF Room, Exists
<1>6. NextSeq(s) \in Nat /\ NextSeq(s) # 1
  BY <1>1, <1>2, <1>5
<1>7. file'["active"] = Grown(file["active"], NextSeq(s), k) /\ file'["archived"] = file["archived"]
  BY <1>1
<1>8. DEFINE f == file["active"]
             q == NextSeq(s)
<1>9. /\ Grown(f, q, k).len = f.len + 1
      /\ Grown(f, q, k).view = Project(f.view, k)
      /\ Grown(f, q, k).ok = (f.ok /\ q = f.len + 1 /\ (q = 1 <=> k = "created"))
  <2> HIDE DEF f, q
  <2>1. f \in [len : 0..MaxLen, view : Views, ok : BOOLEAN] /\ f.len < MaxLen /\ q \in Nat
    BY <1>4, <1>5, <1>6 DEF f, q
  <2> QED
    BY <2>1, GrownType
<1>10. file'["active"].ok = TRUE
  BY <1>2, <1>3, <1>6, <1>7, <1>9
<1> QED
  BY <1>2, <1>3, <1>7, <1>9, <1>10

\* A creator that does not die puts the first record into the log it opened.
LEMMA BegunStep ==
  ASSUME AlwaysOK, Begun,
         \/ \E s \in Servers : Step(s) \/ (Crash(s) /\ stage[s] # "create")
         \/ UNCHANGED vars
  PROVE  Begun'
<1> SUFFICES ASSUME empty' PROVE \E s \in Servers : stage'[s] = "create"
  BY DEF Begun
<1>1. TypeOK /\ DOMAIN stage = Servers /\ \A s \in Servers : StageOK(s)
  BY Shapes DEF AlwaysOK
<1>2. CASE UNCHANGED vars
  BY <1>2 DEF vars, serverVars, Begun
<1>3. ASSUME NEW s \in Servers, Step(s) \/ (Crash(s) /\ stage[s] # "create")
      PROVE  \E t \in Servers : stage'[t] = "create"
  <2>1. CASE Open(s)
    BY <2>1, <1>1 DEF Open, GoTo
  <2>2. CASE ~Open(s)
    <3>1. ~Create(s)
      BY DEF Create
    <3>2. empty' = empty
      BY <1>3, <2>2, <3>1
      DEF Step, Apply, Boot, ScanSkip, ScanTake, ScanFails, Repair, RepairEnds, List, ReadLog,
          ReconcileFails, Reconcile, Load, AppendRecord, Unload, Archive, ArchiveAppend, ArchiveFlush,
          ArchiveRename, ArchiveEnds, Unarchive, UnarchiveAppend, LifecycleFails, Delete, DeleteRow, Crash
    <3>3. PICK t \in Servers : stage[t] = "create"
      BY <3>2 DEF Begun
    <3>4. CASE t # s
      BY <1>1, <1>3, <3>3, <3>4, OthersKeep
    <3>5. CASE t = s
      <4>1. UNCHANGED stage
        BY <1>3, <2>2, <3>1, <3>3, <3>5
        DEF Step, Apply, Boot, ScanSkip, ScanTake, ScanFails, Repair, RepairEnds, List, ReadLog,
            ReconcileFails, Reconcile, Load, AppendRecord, Unload, Archive, ArchiveAppend, ArchiveFlush,
            ArchiveRename, ArchiveEnds, Unarchive, UnarchiveAppend, LifecycleFails, Delete, DeleteRow
      <4> QED
        BY <3>3, <4>1
    <3> QED
      BY <3>4, <3>5
  <2> QED
    BY <2>1, <2>2
<1> QED
  BY <1>2, <1>3

\* As long as no two Servers had a writer, no lifecycle operation met a loaded
\* thread, no write failed and no creator died, every step keeps the one
\* readable log and the writers' numbers.
LEMMA LogStep ==
  ASSUME AlwaysOK, Present \subseteq causes, LogOK, [Next]_vars
  PROVE  LogOK'
<1> SUFFICES ASSUME causes' \subseteq {"start", "crash"}
             PROVE  OneLog' /\ Begun' /\ \A s \in Servers : WriterOK(s)'
  BY DEF LogOK
<1>1. /\ AlwaysOK' /\ TypeOK /\ TypeOK'
      /\ causes \subseteq causes' /\ Present' \subseteq causes'
      /\ \/ \E s \in Servers : Step(s) \/ (Crash(s) /\ stage[s] # "create")
         \/ UNCHANGED vars
  BY AlwaysStep, CausesStep DEF AlwaysOK
<1>2. causes \subseteq {"start", "crash"}
  BY <1>1
<1>3. OneLog /\ (\A s \in Servers : WriterOK(s)) /\ Alone /\ OneWriter /\ Alone' /\ OneWriter'
  BY <1>1, <1>2, Exclusions, NextExclusions DEF LogOK
<1>4. (\A s \in Servers : StageOK(s) /\ LeaseOK(s)) /\ BornOK
      /\ (\A s \in Servers : StageOK(s)' /\ LeaseOK(s)') /\ BornOK'
  BY <1>1 DEF AlwaysOK
<1>5. /\ DOMAIN file = Places /\ "active" \in Places /\ "archived" \in Places
      /\ \A p \in Places : p = "active" \/ p = "archived"
      /\ \A p \in Places : file[p].len \in Nat
      /\ DOMAIN stage = Servers /\ DOMAIN writer = Servers /\ DOMAIN state = Servers
      /\ DOMAIN unapplied = Servers /\ DOMAIN task = Servers
      /\ \A s \in Servers : writer[s] \in Nat /\ unapplied[s].seq \in Nat
      /\ Nobody \notin Servers
      /\ Absent.len = 0 /\ Absent.ok = TRUE /\ NoRecord.seq = 0 /\ NoRow.seq = 0
  BY <1>1, Shapes, Constants
<1>6. \A s \in Servers : writer'[s] \in Nat /\ unapplied'[s].seq \in Nat
  BY <1>1, NextNumbers

<1>7. ASSUME NEW s \in Servers, Step(s) \/ Crash(s), UNCHANGED file, WriterOK(s)'
      PROVE  OneLog' /\ \A t \in Servers : WriterOK(t)'
  <2>1. OneLog'
    BY <1>3, <1>7 DEF OneLog, Exists
  <2>2. ASSUME NEW t \in Servers \ {s} PROVE WriterOK(t)'
    <3>1. /\ stage'[t] = stage[t] /\ writer'[t] = writer[t] /\ unapplied'[t] = unapplied[t]
          /\ task'[t] = task[t] /\ Pending(t)' = Pending(t) /\ Loaded(t)' = Loaded(t)
      BY <1>1, <1>7, OthersKeep
    <3>2. WriterOK(t)
      BY <1>3
    <3> QED
      BY <3>1, <3>2, <1>7 DEF WriterOK, Exists
  <2> QED
    BY <1>7, <2>1, <2>2
<1>8. ASSUME NEW s \in Servers, Step(s), file'["active"].len > 0,
             file'["active"].ok, file'["archived"] = Absent, writer'[s] > 0,
             WriterOK(s)', \A t \in Servers : task[t] # "delete"
      PROVE  OneLog' /\ \A t \in Servers : WriterOK(t)'
  <2>1. OneLog'
    BY <1>5, <1>8 DEF OneLog, Exists
  <2>2. ASSUME NEW t \in Servers \ {s} PROVE WriterOK(t)'
    <3>1. /\ stage'[t] = stage[t] /\ writer'[t] = writer[t] /\ unapplied'[t] = unapplied[t]
          /\ task'[t] = task[t] /\ Pending(t)' = Pending(t) /\ Loaded(t)' = Loaded(t)
      BY <1>1, <1>8, OthersKeep
    <3>2. ~(writer'[t] > 0) /\ ~(writer[t] > 0)
      BY <3>1, <1>3, <1>8 DEF OneWriter
    <3>3. ~Pending(t)
      <4>1. WriterOK(t)
        BY <1>3
      <4> QED
        BY <3>2, <4>1 DEF WriterOK
    <3>4. task'[t] # "delete" /\ Exists("active")'
      BY <3>1, <1>8 DEF Exists
    <3> QED
      BY <3>1, <3>2, <3>3, <3>4 DEF WriterOK
  <2> QED
    BY <1>8, <2>1, <2>2
<1>9. ASSUME NEW s \in Servers, Step(s), task[s] # "none" \/ task'[s] # "none", OneLog', WriterOK(s)'
      PROVE  OneLog' /\ \A t \in Servers : WriterOK(t)'
  <2>1. ASSUME NEW t \in Servers \ {s} PROVE WriterOK(t)'
    <3>1. /\ stage'[t] = stage[t] /\ writer'[t] = writer[t] /\ unapplied'[t] = unapplied[t]
          /\ task'[t] = task[t] /\ Pending(t)' = Pending(t) /\ Loaded(t)' = Loaded(t)
      BY <1>1, <1>9, OthersKeep
    <3>2. task'[t] = "none" /\ writer'[t] = 0 /\ (holder = Nobody \/ holder' = Nobody)
      BY <3>1, <1>3, <1>9 DEF Alone
    <3>3. ~Pending(t)
      <4>1. WriterOK(t) /\ writer[t] = 0
        BY <1>3, <3>1, <3>2
      <4>2. ~(writer[t] > 0)
        BY <4>1
      <4> QED
        BY <4>1, <4>2 DEF WriterOK
    <3>4. stage[t] # "repair" /\ ~Loaded(t)
      BY <3>1, <3>2, <1>4, <1>5 DEF LeaseOK
    <3> QED
      BY <3>1, <3>2, <3>3, <3>4 DEF WriterOK
  <2> QED
    BY <1>9, <2>1
<1>10. ASSUME NEW s \in Servers, Step(s), NEW k \in Kinds, k # "created", Write(s, k),
              task[s] \notin {"moved", "delete"}, UNCHANGED <<stage, state>>,
              task'[s] \in {"none", "archive", "flush", "unarchive"},
              \A t \in Servers : task[t] # "delete"
       PROVE  OneLog' /\ \A t \in Servers : WriterOK(t)'
  <2>1. /\ ~Pending(s) /\ HasWriter(s) /\ Room(s)
        /\ file' = [file EXCEPT !["active"] = Grown(@, NextSeq(s), k)]
        /\ writer' = [writer EXCEPT ![s] = NextSeq(s)]
        /\ unapplied' = [unapplied EXCEPT ![s] = [seq |-> NextSeq(s), kind |-> k]]
    BY <1>10 DEF Write
  <2>2. /\ NextSeq(s) = file["active"].len + 1 /\ Exists("active")
        /\ file'["active"].len = file["active"].len + 1
        /\ file'["active"].ok = TRUE
        /\ file'["archived"] = file["archived"] /\ file["archived"] = Absent
    BY <1>1, <1>3, <1>10, <2>1, Written
  <2>3. writer'[s] = file'["active"].len /\ unapplied'[s].seq = writer'[s]
    BY <2>1, <2>2, <1>5
  <2>4. writer'[s] > 0 /\ file'["active"].len > 0
    BY <2>2, <2>3, <1>5
  <2>5. Pending(s)' /\ Exists("active")'
    BY <2>3, <2>4 DEF Pending, Exists
  <2>6. WriterOK(s)'
    BY <2>3, <2>4, <2>5, <1>5, <1>6, <1>10 DEF WriterOK
  <2> QED
    BY <1>8, <1>10, <2>2, <2>4, <2>6
<1>11. ASSUME NEW s \in Servers, Apply(s) PROVE OneLog' /\ \A t \in Servers : WriterOK(t)'
  <2>1. /\ Pending(s) /\ unapplied' = [unapplied EXCEPT ![s] = NoRecord]
        /\ UNCHANGED <<file, stage, task>>
        /\ writer' = [writer EXCEPT ![s] = IF @ = 0 THEN 0 ELSE @ + 1]
    BY <1>11 DEF Apply, Advance
  <2>2. WriterOK(s) /\ writer[s] > 0 /\ task[s] \notin {"rename", "moved", "delete"}
    BY <2>1, <1>3 DEF WriterOK
  <2>3. writer'[s] = writer[s] + 1 /\ ~Pending(s)'
    BY <2>1, <2>2, <1>5 DEF Pending
  <2>4. writer[s] = file["active"].len /\ Exists("active")
    BY <2>1, <2>2, <1>5 DEF WriterOK
  <2>5. Exists("active")' /\ stage[s] # "repair"
    BY <2>1, <2>4, <1>4 DEF Exists, StageOK, Ready
  <2>6. WriterOK(s)'
    BY <2>1, <2>2, <2>3, <2>4, <2>5 DEF WriterOK
  <2> QED
    BY <1>7, <1>11, <2>1, <2>6 DEF Step
<1>12. ASSUME NEW s \in Servers,
              Boot(s) \/ ScanSkip(s) \/ List(s) \/ ReadLog(s) \/ Reconcile(s) \/ Open(s)
       PROVE  OneLog' /\ \A t \in Servers : WriterOK(t)'
  <2>1. /\ UNCHANGED <<file, state, writer, unapplied, task>>
        /\ stage'[s] # "repair"
    BY <1>5, <1>12 DEF Boot, ScanSkip, List, ReadLog, Reconcile, Open, GoTo
  <2>2. WriterOK(s)'
    BY <2>1, <1>3 DEF WriterOK, Pending, Loaded, Exists
  <2> QED
    BY <1>7, <1>12, <2>1, <2>2 DEF Step
<1>13. ASSUME NEW s \in Servers, ScanTake(s) \/ RepairEnds(s)
       PROVE  OneLog' /\ \A t \in Servers : WriterOK(t)'
  <2>1. /\ UNCHANGED <<file, state, writer, unapplied, task>>
        /\ stage'[s] = "repair" => Exists("active")
    BY <1>5, <1>13 DEF ScanTake, RepairEnds, GoTo, Readable
  <2>2. WriterOK(s)'
    BY <2>1, <1>3 DEF WriterOK, Pending, Loaded, Exists
  <2> QED
    BY <1>7, <1>13, <2>1, <2>2 DEF Step
<1>14. ASSUME NEW s \in Servers, ScanFails(s) \/ ReconcileFails(s) \/ Crash(s)
       PROVE  OneLog' /\ \A t \in Servers : WriterOK(t)'
  <2>1. Stop(s) /\ UNCHANGED file
    BY <1>14 DEF ScanFails, ReconcileFails, Crash
  <2>2. /\ stage'[s] = "down" /\ state'[s] = NoRow /\ writer'[s] = 0
        /\ unapplied'[s] = NoRecord /\ task'[s] = "none"
    BY <2>1, <1>5 DEF Stop
  <2>3. ~Pending(s)' /\ ~Loaded(s)'
    BY <2>2, <1>5 DEF Pending, Loaded
  <2>4. WriterOK(s)'
    BY <2>2, <2>3 DEF WriterOK
  <2> QED
    BY <1>7, <1>14, <2>1, <2>4 DEF Step
<1>15. ASSUME NEW s \in Servers, Repair(s) PROVE OneLog' /\ \A t \in Servers : WriterOK(t)'
  <2>1. /\ stage[s] = "repair" /\ plan[s] # <<>> /\ HasWriter(s) /\ Room(s)
        /\ file' = [file EXCEPT !["active"] = Grown(@, NextSeq(s), Head(plan[s]))]
        /\ writer' = [writer EXCEPT ![s] = NextSeq(s) + 1]
        /\ UNCHANGED <<stage, state, unapplied, task, holder>>
    BY <1>15 DEF Repair
  <2>2. ~Pending(s) /\ task[s] = "none" /\ holder = s /\ ~Loaded(s)
    BY <2>1, <1>4 DEF StageOK, LeaseOK, Ready
  <2>3. plan[s] \in Seq(Kinds \ {"created"})
    BY <1>4 DEF StageOK
  <2>4. Head(plan[s]) \in Kinds /\ Head(plan[s]) # "created"
    BY <2>1, <2>3
  <2>5. WriterOK(s) /\ task[s] \notin {"moved", "delete"}
    BY <1>3, <2>2
  <2>6. /\ NextSeq(s) = file["active"].len + 1 /\ Exists("active")
        /\ file'["active"].len = file["active"].len + 1
        /\ file'["active"].ok = TRUE
        /\ file'["archived"] = file["archived"] /\ file["archived"] = Absent
    BY <1>1, <1>3, <2>1, <2>2, <2>4, <2>5, Written
  <2>7. \A t \in Servers : task[t] # "delete"
    BY <2>2, <1>3, <1>5 DEF Alone
  <2>8. /\ writer'[s] = file'["active"].len + 1 /\ writer'[s] > 0 /\ file'["active"].len > 0
    BY <2>1, <2>6, <1>5
  <2>9. ~Pending(s)' /\ ~Loaded(s)' /\ task'[s] = "none" /\ Exists("active")'
    BY <2>1, <2>2, <2>8 DEF Pending, Loaded, Exists
  <2>10. WriterOK(s)'
    BY <2>8, <2>9 DEF WriterOK
  <2> QED
    BY <1>8, <1>15, <2>6, <2>7, <2>8, <2>10 DEF Step
<1>16. ASSUME NEW s \in Servers, Create(s) PROVE OneLog' /\ \A t \in Servers : WriterOK(t)'
  <2>1. /\ stage[s] = "create" /\ GoTo(s, "ready")
        /\ file' = [file EXCEPT !["active"] = Grown(@, 1, "created")]
        /\ writer' = [writer EXCEPT ![s] = 1]
        /\ unapplied' = [unapplied EXCEPT ![s] = [seq |-> 1, kind |-> "created"]]
        /\ UNCHANGED <<row, plan, seen, state, task>>
    BY <1>16 DEF Create
  <2>2. /\ \A p \in Places : file[p] = Absent
        /\ \A t \in Servers : task[t] = "none" /\ stage[t] # "repair" /\ ~Loaded(t)
    BY <2>1, <1>4 DEF BornOK, Made
  <2>3. file'["active"] = Grown(Absent, 1, "created") /\ file'["archived"] = Absent
    BY <2>1, <2>2, <1>5
  <2>4. file'["active"].len = 1 /\ file'["active"].ok = TRUE
    BY <2>3, <1>5 DEF Grown
  <2>5. writer'[s] = 1 /\ unapplied'[s].seq = 1
    BY <2>1, <1>5
  <2>6. Pending(s)' /\ Exists("active")' /\ task'[s] = "none" /\ stage'[s] # "repair" /\ ~Loaded(s)'
    BY <2>1, <2>2, <2>4, <2>5, <1>5 DEF Pending, Exists, GoTo, Loaded
  <2>7. WriterOK(s)'
    BY <2>4, <2>5, <2>6 DEF WriterOK
  <2> QED
    BY <1>8, <1>16, <2>2, <2>3, <2>4, <2>5, <2>7 DEF Step
<1>17. ASSUME NEW s \in Servers, Load(s) \/ Unload(s) PROVE OneLog' /\ \A t \in Servers : WriterOK(t)'
  <2>1. /\ UNCHANGED <<file, stage, writer, unapplied, task>>
        /\ Exists("active")
    BY <1>3, <1>17 DEF Load, Unload, Readable, WriterOK
  <2>2. WriterOK(s)'
    BY <2>1, <1>3 DEF WriterOK, Pending, Exists
  <2> QED
    BY <1>7, <1>17, <2>1, <2>2 DEF Step
<1>18. ASSUME NEW s \in Servers, AppendRecord(s) PROVE OneLog' /\ \A t \in Servers : WriterOK(t)'
  <2>1. PICK k \in MayAppend(state[s].view) : Write(s, k)
    BY <1>18 DEF AppendRecord
  <2>2. k \in Kinds /\ k # "created"
    BY <2>1 DEF MayAppend, Kinds
  <2>3. Loaded(s) /\ UNCHANGED <<stage, state, task>>
    BY <1>18 DEF AppendRecord
  <2>4. holder = s
    BY <2>3, <1>4 DEF LeaseOK
  <2>5. \A t \in Servers : task[t] = "none"
    BY <2>4, <1>3, <1>5 DEF Alone
  <2>6. Step(s)
    BY <1>18 DEF Step
  <2> QED
    BY <1>10, <2>1, <2>2, <2>3, <2>5, <2>6
<1>19. ASSUME NEW s \in Servers, ArchiveAppend(s) \/ UnarchiveAppend(s)
       PROVE  OneLog' /\ \A t \in Servers : WriterOK(t)'
  <2>1. PICK k \in {"archived", "unarchived"} : Write(s, k)
    BY <1>19 DEF ArchiveAppend, UnarchiveAppend
  <2>2. k \in Kinds /\ k # "created"
    BY <2>1 DEF Kinds
  <2>3. task[s] \in {"archive", "unarchive"} /\ task'[s] \in {"flush", "none"} /\ UNCHANGED <<stage, state>>
    BY <1>5, <1>19 DEF ArchiveAppend, UnarchiveAppend, Continue
  <2>4. \A t \in Servers : task[t] # "delete"
    BY <2>3, <1>3 DEF Alone
  <2>5. Step(s)
    BY <1>19 DEF Step
  <2> QED
    BY <1>10, <2>1, <2>2, <2>3, <2>4, <2>5
<1>20. ASSUME NEW s \in Servers, Archive(s) PROVE OneLog' /\ \A t \in Servers : WriterOK(t)'
  <2>1. /\ HasWriter(s) /\ ~Pending(s) /\ task[s] = "none" /\ task'[s] = "archive" /\ Ready(s)
        /\ UNCHANGED <<file, stage, state, writer, unapplied>>
    BY <1>5, <1>20 DEF Archive, MayStart, Continue
  <2>2. Exists("active")
    BY <2>1, <1>3, <1>5 DEF HasWriter, Readable, WriterOK
  <2>3. WriterOK(s)'
    BY <2>1, <2>2, <1>3 DEF WriterOK, Pending, Loaded, Exists
  <2> QED
    BY <1>7, <1>20, <2>1, <2>3 DEF Step
<1>21. ASSUME NEW s \in Servers, ArchiveFlush(s) \/ LifecycleFails(s)
       PROVE  OneLog' /\ \A t \in Servers : WriterOK(t)'
  <2>1. UNCHANGED <<file, stage, state, writer, unapplied>>
    BY <1>21 DEF ArchiveFlush, LifecycleFails
  <2>2. \/ task[s] = "flush" /\ task'[s] = "rename" /\ ~Pending(s)
        \/ task[s] \in {"archive", "unarchive"} /\ task'[s] = "none" /\ writer[s] = 0
    BY <1>5, <1>21 DEF ArchiveFlush, LifecycleFails, Continue, HasWriter
  <2>3. WriterOK(s)'
    BY <2>1, <2>2, <1>3 DEF WriterOK, Pending, Loaded, Exists
  <2> QED
    BY <1>7, <1>21, <2>1, <2>3 DEF Step
<1>22. ASSUME NEW s \in Servers, ArchiveRename(s) PROVE OneLog' /\ \A t \in Servers : WriterOK(t)'
  <2>1. task[s] = "rename" /\ UNCHANGED <<stage, state, writer, unapplied>>
    BY <1>22 DEF ArchiveRename
  <2>2. Exists("active") /\ ~Pending(s)
    BY <2>1, <1>3 DEF WriterOK
  <2>3. file' = [active |-> Absent, archived |-> file["active"]] /\ task'[s] = "moved"
    BY <1>5, <1>22, <2>2 DEF ArchiveRename, Continue
  <2>4. file'["active"] = Absent /\ file'["archived"] = file["active"]
    BY <2>3
  <2>5. OneLog'
    BY <2>2, <2>4, <1>3, <1>5 DEF OneLog, Exists
  <2>6. Ready(s) /\ ~Loaded(s) /\ stage[s] # "repair"
    BY <2>1, <1>3, <1>4, <1>5 DEF StageOK, Ready, Alone, LeaseOK
  <2>7. WriterOK(s)'
    BY <2>1, <2>2, <2>3, <2>6 DEF WriterOK, Pending, Loaded
  <2> QED
    BY <1>9, <1>22, <2>1, <2>5, <2>7 DEF Step
<1>23. ASSUME NEW s \in Servers, ArchiveEnds(s) \/ DeleteRow(s)
       PROVE  OneLog' /\ \A t \in Servers : WriterOK(t)'
  <2>1. /\ task[s] \in {"moved", "delete"} /\ task'[s] = "none" /\ writer'[s] = 0
        /\ UNCHANGED <<file, stage, state, unapplied>>
    BY <1>5, <1>23 DEF ArchiveEnds, DeleteRow, Continue
  <2>2. ~Pending(s) /\ stage[s] # "repair" /\ ~Loaded(s)
    BY <2>1, <1>3, <1>4, <1>5 DEF WriterOK, StageOK, Ready, Alone, LeaseOK
  <2>3. WriterOK(s)'
    BY <2>1, <2>2 DEF WriterOK, Pending, Loaded
  <2> QED
    BY <1>7, <1>23, <2>1, <2>3 DEF Step
<1>24. ASSUME NEW s \in Servers, Unarchive(s) PROVE OneLog' /\ \A t \in Servers : WriterOK(t)'
  <2>1. /\ Ready(s) /\ ~Loaded(s) /\ task[s] = "none" /\ Exists("archived") /\ ~Pending(s)
        /\ file' = [active |-> file["archived"], archived |-> Absent] /\ task'[s] = "unarchive"
        /\ UNCHANGED <<stage, state, writer, unapplied>>
    BY <1>5, <1>24 DEF Unarchive, MayStart, Continue
  <2>2. ~Exists("active") /\ writer[s] = 0
    BY <2>1, <1>3, <1>5 DEF OneLog, WriterOK
  <2>3. file'["active"] = file["archived"] /\ file'["archived"] = Absent
    BY <2>1
  <2>4. OneLog' /\ Exists("active")'
    BY <2>1, <2>3, <1>3, <1>5 DEF OneLog, Exists
  <2>5. WriterOK(s)'
    BY <2>1, <2>2, <2>4 DEF WriterOK, Pending, Loaded, Ready
  <2> QED
    BY <1>9, <1>24, <2>1, <2>4, <2>5 DEF Step
<1>25. ASSUME NEW s \in Servers, Delete(s) PROVE OneLog' /\ \A t \in Servers : WriterOK(t)'
  <2>1. /\ Ready(s) /\ ~Loaded(s) /\ task[s] = "none" /\ ~Pending(s) /\ task'[s] = "delete"
        /\ UNCHANGED <<stage, state, writer, unapplied>>
    BY <1>5, <1>25 DEF Delete, MayStart, Continue
  <2>2. PICK p \in Places : Exists(p) /\ file' = [file EXCEPT ![p] = Absent]
    BY <1>25 DEF Delete
  <2>3. \A q \in Places : file'[q] = Absent
    BY <2>2, <1>3, <1>5 DEF OneLog
  <2>4. OneLog' /\ \A q \in Places : ~Exists(q)'
    BY <2>3, <1>5 DEF OneLog, Exists
  <2>5. WriterOK(s)'
    BY <2>1, <2>4 DEF WriterOK, Pending, Loaded, Ready
  <2> QED
    BY <1>9, <1>25, <2>1, <2>4, <2>5 DEF Step
<1>27. Begun'
  BY <1>1, <1>2, BegunStep DEF LogOK
<1>26. CASE UNCHANGED vars
  BY <1>3, <1>26, <1>27 DEF vars, serverVars, OneLog, WriterOK, Exists, Pending, Loaded
<1> QED
  BY <1>1, <1>11, <1>12, <1>13, <1>14, <1>15, <1>16, <1>17, <1>18, <1>19, <1>20, <1>21, <1>22,
     <1>23, <1>24, <1>25, <1>26, <1>27 DEF Step

\* What a loaded thread may append keeps the log sensible.
LEMMA AppendedView ==
  ASSUME NEW v \in Views, ViewOK(v), NEW k \in MayAppend(v)
  PROVE  ViewOK(Project(v, k))
<1> USE DEF ViewOK, Project, Views, MayAppend
<1>1. k \in {"turn", "item", "call", "request", "resolved", "done", "result", "ended"}
  OBVIOUS
<1>2. CASE k \in {"turn", "item", "call"}
  BY <1>2
<1>3. CASE k \in {"request", "resolved", "done"}
  BY <1>3
<1>4. CASE k \in {"result", "ended"}
  BY <1>4
<1> QED
  BY <1>1, <1>2, <1>3, <1>4

\* Archiving and unarchiving leave a clean log clean.
LEMMA ArchivedView ==
  ASSUME NEW v \in Views, Clean(v), NEW k \in {"archived", "unarchived"}
  PROVE  Clean(Project(v, k)) /\ ViewOK(Project(v, k))
BY DEF ViewOK, Clean, Project, Views

\* A new thread is clean, and so is one with neither a turn nor a request.
LEMMA CleanViews ==
  /\ Clean(Fresh) /\ ViewOK(Fresh)
  /\ \A v \in Views : ViewOK(v) /\ ~v.turn /\ ~v.request => Clean(v)
  /\ \A v : Project(v, "created") = Fresh
<1>1. Clean(Fresh) /\ ViewOK(Fresh)
  BY DEF Clean, ViewOK, Fresh
<1>2. \A v \in Views : ViewOK(v) /\ ~v.turn /\ ~v.request => Clean(v)
  BY DEF Clean, ViewOK, Views
<1>3. \A v : Project(v, "created") = Fresh
  BY DEF Project
<1> QED
  BY <1>1, <1>2, <1>3

\* What the absence of every cause gives.
Guarded ==
  OneLog /\ Begun /\ (\A s \in Servers : WriterOK(s)) /\ Alone /\ OneWriter /\ ReadsAlone

\* The state before a step that nothing has got in the way of.
Calm == AlwaysOK /\ Guarded /\ (\A s \in Servers : StateOK(s)) /\ CatalogOK /\ CleanOK

\* What is known of the state after it already.
After == AlwaysOK /\ Guarded

\* What both states of an undisturbed step are known to be.
LEMMA StepFacts ==
  ASSUME Calm, After', NEW s \in Servers, Step(s) \/ Crash(s)
  PROVE  /\ DOMAIN file = Places /\ "active" \in Places /\ "archived" \in Places
         /\ \A p \in Places : p = "active" \/ p = "archived"
         /\ \A p \in Places : file[p].len \in Nat /\ file[p].view \in Views
         /\ DOMAIN stage = Servers /\ DOMAIN plan = Servers /\ DOMAIN seen = Servers
         /\ DOMAIN writer = Servers /\ DOMAIN state = Servers
         /\ DOMAIN unapplied = Servers /\ DOMAIN task = Servers
         /\ \A t \in Servers : /\ writer[t] \in Nat /\ unapplied[t].seq \in Nat
                               /\ unapplied[t].kind \in Kinds
                               /\ DOMAIN seen[t] = {"place", "seq", "view"}
                               /\ state[t].seq \in Nat /\ state[t].view \in Views
         /\ row.seq \in Nat /\ row.view \in Views
         /\ Nobody \notin Servers
         /\ Absent.len = 0 /\ Absent.ok = TRUE /\ Absent.view = Fresh
         /\ NoRecord.seq = 0 /\ NoRow.seq = 0 /\ Unseen.place = "none"
         /\ \A t \in Servers : /\ StageOK(t) /\ LeaseOK(t) /\ StageOK(t)' /\ LeaseOK(t)'
                               /\ WriterOK(t) /\ WriterOK(t)' /\ StateOK(t)
         /\ OneLog /\ OneLog' /\ Alone /\ Alone' /\ OneWriter /\ OneWriter'
         /\ ReadsAlone /\ ReadsAlone' /\ CatalogOK /\ CleanOK /\ BornOK /\ Begun
         /\ \A t \in Servers \ {s} :
           /\ stage'[t] = stage[t] /\ plan'[t] = plan[t] /\ seen'[t] = seen[t]
           /\ state'[t] = state[t] /\ writer'[t] = writer[t]
           /\ unapplied'[t] = unapplied[t] /\ task'[t] = task[t]
           /\ Pending(t)' = Pending(t) /\ Loaded(t)' = Loaded(t) /\ Ready(t)' = Ready(t)
           /\ Creating(t)' = Creating(t)
<1>1. TypeOK /\ TypeOK'
  BY DEF Calm, After, AlwaysOK
<1>2. \A t \in Servers \ {s} :
           /\ stage'[t] = stage[t] /\ plan'[t] = plan[t] /\ seen'[t] = seen[t]
           /\ state'[t] = state[t] /\ writer'[t] = writer[t]
           /\ unapplied'[t] = unapplied[t] /\ task'[t] = task[t]
           /\ Pending(t)' = Pending(t) /\ Loaded(t)' = Loaded(t) /\ Ready(t)' = Ready(t)
           /\ Creating(t)' = Creating(t)
  BY <1>1, OthersKeep
<1>3. /\ \A t \in Servers : /\ StageOK(t) /\ LeaseOK(t) /\ StageOK(t)' /\ LeaseOK(t)'
                            /\ WriterOK(t) /\ WriterOK(t)' /\ StateOK(t)
      /\ OneLog /\ OneLog' /\ Alone /\ Alone' /\ OneWriter /\ OneWriter'
      /\ ReadsAlone /\ ReadsAlone' /\ CatalogOK /\ CleanOK /\ BornOK /\ Begun
  BY DEF Calm, After, AlwaysOK, Guarded
<1>4. /\ DOMAIN file = Places /\ "active" \in Places /\ "archived" \in Places
      /\ \A p \in Places : p = "active" \/ p = "archived"
      /\ \A p \in Places : file[p].len \in Nat /\ file[p].view \in Views
      /\ DOMAIN stage = Servers /\ DOMAIN plan = Servers /\ DOMAIN seen = Servers
      /\ DOMAIN writer = Servers /\ DOMAIN state = Servers
      /\ DOMAIN unapplied = Servers /\ DOMAIN task = Servers
      /\ \A t \in Servers : /\ writer[t] \in Nat /\ unapplied[t].seq \in Nat
                            /\ unapplied[t].kind \in Kinds
                            /\ DOMAIN seen[t] = {"place", "seq", "view"}
                            /\ state[t].seq \in Nat /\ state[t].view \in Views
      /\ row.seq \in Nat /\ row.view \in Views
  BY <1>1, Shapes
<1>5. /\ Nobody \notin Servers
      /\ Absent.len = 0 /\ Absent.ok = TRUE /\ Absent.view = Fresh
      /\ NoRecord.seq = 0 /\ NoRow.seq = 0 /\ Unseen.place = "none"
  BY Constants
<1> QED
  BY <1>2, <1>3, <1>4, <1>5

\* Whoever finds the lease free, or lists the logs to read them, finds no log
\* without a record: its creator has the lease and is no other than they are.
LEMMA NothingEmpty ==
  ASSUME Calm, After', NEW s \in Servers, Step(s), stage[s] # "create",
         \/ holder = Nobody
         \/ stage'[s] \in Reading /\ seen'[s].place # "skip" /\ UNCHANGED holder
  PROVE  ~empty
<1> SUFFICES ASSUME NEW t \in Servers, stage[t] = "create" PROVE FALSE
  BY StepFacts DEF Begun
<1>1. holder = t /\ Nobody \notin Servers /\ ReadsAlone' /\ t # s
  BY StepFacts DEF LeaseOK
<1> QED
  BY <1>1 DEF ReadsAlone

\* What the other Servers know of the log stays true, for a step that leaves
\* the log alone or is by the Server that alone works on the thread.
LEMMA OthersState ==
  ASSUME Calm, After', NEW s \in Servers, Step(s),
         \/ UNCHANGED file
         \/ /\ holder' \in {s, Nobody}
            /\ Pending(s)' \/ holder' = s \/ task'[s] # "none"
  PROVE  \A t \in Servers \ {s} : StateOK(t)'
<1> SUFFICES ASSUME NEW t \in Servers \ {s} PROVE StateOK(t)'
  OBVIOUS
<1>1. /\ stage'[t] = stage[t] /\ plan'[t] = plan[t] /\ seen'[t] = seen[t]
      /\ state'[t] = state[t] /\ unapplied'[t] = unapplied[t]
      /\ Pending(t)' = Pending(t) /\ Loaded(t)' = Loaded(t)
      /\ Creating(t)' = Creating(t) /\ StateOK(t) /\ LeaseOK(t)' /\ StageOK(t)' /\ ReadsAlone'
      /\ Nobody \notin Servers
  BY StepFacts
<1>2. CASE UNCHANGED file
  BY <1>1, <1>2 DEF StateOK, Exists
<1>3. CASE /\ holder' \in {s, Nobody}
           /\ Pending(s)' \/ holder' = s \/ task'[s] # "none"
  <2>1. stage'[t] # "repair" /\ ~Loaded(t)' /\ ~Creating(t)'
    BY <1>1, <1>3 DEF LeaseOK
  <2>2. stage'[t] \notin {"read", "compare"}
    <3> SUFFICES ASSUME stage'[t] \in {"read", "compare"} PROVE FALSE
      OBVIOUS
    <3>1. seen'[t].place # "skip"
      BY <1>1 DEF StageOK
    <3>2. task'[s] = "none" /\ ~Pending(s)' /\ holder' # s
      BY <1>1, <3>1 DEF ReadsAlone, Reading
    <3> QED
      BY <1>3, <3>2
  <2> QED
    BY <2>1, <2>2 DEF StateOK
<1> QED
  BY <1>2, <1>3

\* While a Server that is ready has the thread to itself nobody reconciles, and
\* the catalog is in step.
LEMMA NobodyReconciles ==
  ASSUME Calm, After', NEW s \in Servers, Step(s), Ready(s),
         holder' \in {s, Nobody},
         Pending(s)' \/ holder' = s \/ task'[s] # "none"
  PROVE  InStep
<1>1. \A t \in Servers : LeaseOK(t)' /\ StageOK(t) /\ ReadsAlone' /\ CatalogOK /\ Nobody \notin Servers
  BY StepFacts
<1>2. ASSUME NEW t \in Servers, Reconciles(t) PROVE FALSE
  <2>1. t # s
    BY <1>2 DEF Reconciles, Ready, Reading
  <2>2. stage'[t] = stage[t] /\ seen'[t] = seen[t]
    BY <2>1, StepFacts
  <2>3. stage[t] # "repair"
    BY <1>1, <2>1, <2>2 DEF LeaseOK
  <2>4. stage'[t] \in Reading /\ seen'[t].place # "skip"
    BY <1>2, <2>2, <2>3 DEF Reconciles
  <2>5. task'[s] = "none" /\ ~Pending(s)' /\ holder' # s
    BY <1>1, <2>1, <2>4 DEF ReadsAlone
  <2> QED
    BY <2>5
<1> QED
  BY <1>1, <1>2 DEF CatalogOK, Started, Ready

\* Every undisturbed step leaves each Server with what the log has.
LEMMA StateStep ==
  ASSUME Calm, After', NEW s \in Servers, Step(s)
  PROVE  \A t \in Servers : StateOK(t)'
<1> SUFFICES StateOK(s)' /\ \A t \in Servers \ {s} : StateOK(t)'
  OBVIOUS
<1>1. /\ DOMAIN file = Places /\ "active" \in Places /\ "archived" \in Places
      /\ \A p \in Places : p = "active" \/ p = "archived"
      /\ \A p \in Places : file[p].len \in Nat /\ file[p].view \in Views
      /\ DOMAIN stage = Servers /\ DOMAIN plan = Servers /\ DOMAIN seen = Servers
      /\ DOMAIN writer = Servers /\ DOMAIN state = Servers
      /\ DOMAIN unapplied = Servers /\ DOMAIN task = Servers
      /\ \A t \in Servers : /\ writer[t] \in Nat /\ unapplied[t].seq \in Nat
                            /\ unapplied[t].kind \in Kinds
                            /\ DOMAIN seen[t] = {"place", "seq", "view"}
                            /\ state[t].seq \in Nat /\ state[t].view \in Views
      /\ Nobody \notin Servers
      /\ Absent.len = 0 /\ NoRecord.seq = 0 /\ NoRow.seq = 0
  BY StepFacts
<1>2. /\ StageOK(s) /\ LeaseOK(s) /\ StageOK(s)' /\ LeaseOK(s)' /\ WriterOK(s) /\ WriterOK(s)' /\ StateOK(s)
      /\ OneLog /\ OneLog' /\ Alone /\ Alone' /\ ReadsAlone /\ CatalogOK /\ CleanOK /\ BornOK
  BY StepFacts
<1>3. TypeOK
  BY DEF Calm, AlwaysOK
<1>4. ASSUME UNCHANGED file PROVE \A t \in Servers \ {s} : StateOK(t)'
  BY <1>4, OthersState
<1>5. ASSUME holder' \in {s, Nobody}, Pending(s)' \/ holder' = s \/ task'[s] # "none"
      PROVE \A t \in Servers \ {s} : StateOK(t)'
  BY <1>5, OthersState
<1>6. ASSUME NEW k \in Kinds, k # "created", Write(s, k), Ready(s),
             task[s] \notin {"moved", "delete"}, holder' \in {s, Nobody},
             UNCHANGED <<stage, state>>,
             Loaded(s) \/ holder = Nobody
      PROVE  StateOK(s)' /\ \A t \in Servers \ {s} : StateOK(t)'
  <2>1. /\ ~Pending(s) /\ HasWriter(s) /\ Room(s)
        /\ file' = [file EXCEPT !["active"] = Grown(@, NextSeq(s), k)]
        /\ unapplied' = [unapplied EXCEPT ![s] = [seq |-> NextSeq(s), kind |-> k]]
    BY <1>6 DEF Write
  <2>2. /\ NextSeq(s) = file["active"].len + 1
        /\ file'["active"].len = file["active"].len + 1
        /\ file'["active"].view = Project(file["active"].view, k)
    BY <1>2, <1>3, <1>6, <2>1, Written
  <2>3. unapplied'[s] = [seq |-> NextSeq(s), kind |-> k]
    BY <2>1, <1>1
  <2>4. unapplied'[s].seq = file["active"].len + 1 /\ unapplied'[s].kind = k
    BY <2>2, <2>3
  <2>5. Pending(s)' /\ ~Creating(s)'
    BY <2>4, <1>1, <1>6 DEF Pending, Creating
  <2>6. Loaded(s)' => /\ state'[s].seq = file'["active"].len - 1
                      /\ Project(state'[s].view, unapplied'[s].kind) = file'["active"].view
    <3> SUFFICES ASSUME Loaded(s)
                 PROVE  /\ state'[s].seq = file'["active"].len - 1
                        /\ Project(state'[s].view, unapplied'[s].kind) = file'["active"].view
      BY <1>6 DEF Loaded
    <3>1. state[s] = [seq |-> file["active"].len, view |-> file["active"].view]
      BY <1>2, <2>1 DEF StateOK
    <3>2. state'[s].seq = file["active"].len /\ state'[s].view = file["active"].view
      BY <3>1, <1>6
    <3> QED
      BY <3>2, <2>2, <2>4, <1>1
  <2>7. StateOK(s)'
    BY <2>5, <2>6, <1>6 DEF StateOK, Ready
  <2> QED
    BY <1>5, <1>6, <2>5, <2>7
<1>7. CASE Apply(s)
  <2> DEFINE u == unapplied[s]
  <2>1. /\ Pending(s) /\ unapplied' = [unapplied EXCEPT ![s] = NoRecord]
        /\ UNCHANGED <<file, stage, seen, plan, task>>
    BY <1>7 DEF Apply
  <2>2. Ready(s) /\ ~Pending(s)' /\ ~Creating(s)'
    <3>1. unapplied'[s] = NoRecord
      BY <2>1, <1>1
    <3> QED
      BY <2>1, <3>1, <1>1, <1>2 DEF StageOK, Pending, Creating
  <2>3. writer[s] > 0 /\ u.seq = writer[s] /\ task[s] \notin {"rename", "moved", "delete"}
    BY <2>1, <1>2 DEF WriterOK
  <2>4. u.seq = file["active"].len /\ Exists("active")
    BY <2>1, <2>3, <1>1, <1>2 DEF WriterOK
  <2>5. ASSUME Loaded(s)' PROVE state'[s] = [seq |-> file'["active"].len, view |-> file'["active"].view]
    <3>1. Loaded(s) \/ Creating(s)
      <4>1. \/ state' = [state EXCEPT ![s] = state[s]]
            \/ Loaded(s) \/ u.kind = "created"
        BY <1>7 DEF Apply
      <4> QED
        BY <4>1, <2>1, <2>5, <1>1 DEF Loaded, Creating
    <3>2. holder = s
      BY <3>1, <1>2 DEF LeaseOK
    <3>3. InStep
      <4>1. ASSUME NEW t \in Servers, Reconciles(t) PROVE FALSE
        <5>1. t # s
          BY <4>1, <2>2 DEF Reconciles, Ready, Reading
        <5>2. LeaseOK(t)
          BY StepFacts
        <5>3. stage[t] # "repair"
          BY <5>1, <5>2, <3>2 DEF LeaseOK
        <5> QED
          BY <4>1, <5>1, <5>3, <3>2, <1>2 DEF Reconciles, ReadsAlone
      <4> QED
        BY <4>1, <2>2, <1>2 DEF CatalogOK, Started, Ready
    <3>4. row.seq = u.seq - 1
      BY <3>3, <2>1, <2>4, <1>1 DEF InStep
    <3>5. Project(row.view, u.kind) = file["active"].view
      BY <3>4, <2>1, <2>4, <1>1, <1>2 DEF CatalogOK, PrefixOK
    <3>6. CASE Loaded(s)
      <4>1. state[s].seq = u.seq - 1 /\ Project(state[s].view, u.kind) = file["active"].view
        BY <3>6, <2>1, <2>4, <1>2 DEF StateOK
      <4>2. state' = [state EXCEPT ![s] = [seq |-> u.seq, view |-> Project(@.view, u.kind)]]
        BY <1>7, <3>4, <3>6, <4>1 DEF Apply
      <4>3. state'[s] = [seq |-> u.seq, view |-> Project(state[s].view, u.kind)]
        BY <4>2, <1>1
      <4> QED
        BY <4>1, <4>3, <2>1, <2>4
    <3>7. CASE Creating(s) /\ ~Loaded(s)
      <4>1. u.kind = "created" /\ u.seq = 1 /\ file["active"].view = Fresh
        BY <3>7, <1>2 DEF Creating, LeaseOK, StateOK
      <4>2. state[s].seq = u.seq - 1
        BY <3>7, <4>1, <1>1 DEF Loaded
      <4>3. state' = [state EXCEPT ![s] = [seq |-> u.seq, view |-> Project(@.view, u.kind)]]
        BY <1>7, <3>4, <4>1, <4>2 DEF Apply
      <4>4. state'[s] = [seq |-> u.seq, view |-> Project(state[s].view, "created")]
        BY <4>1, <4>3, <1>1
      <4> QED
        BY <4>1, <4>4, <2>1, <2>4, CleanViews
    <3> QED
      BY <3>1, <3>6, <3>7
  <2>6. stage'[s] \notin {"repair", "read", "compare"}
    BY <2>1, <2>2 DEF Ready
  <2>7. StateOK(s)'
    BY <2>2, <2>5, <2>6 DEF StateOK
  <2> QED
    BY <2>1, <2>7, <1>4
<1>8. CASE Boot(s) \/ ScanFails(s) \/ ReconcileFails(s)
  <2>1. stage'[s] \in {"down", "scan"} /\ UNCHANGED file
    BY <1>1, <1>8 DEF Boot, ScanFails, ReconcileFails, GoTo, Stop
  <2>2. StateOK(s)'
    BY <2>1, <1>2 DEF StateOK, StageOK, Ready, Creating
  <2> QED
    BY <2>1, <2>2, <1>4
<1>9. CASE ScanSkip(s) \/ RepairEnds(s) \/ Reconcile(s)
  <2>1. stage'[s] \in {"list", "ready"} /\ ~Ready(s) /\ UNCHANGED <<file, state, unapplied>>
    BY <1>1, <1>9 DEF ScanSkip, RepairEnds, Reconcile, GoTo, Ready
  <2>2. ~Loaded(s)' /\ ~Pending(s)'
    BY <2>1, <1>2 DEF StageOK, Loaded, Pending
  <2>3. StateOK(s)'
    BY <2>1, <2>2 DEF StateOK, Creating
  <2> QED
    BY <2>1, <2>3, <1>4
<1>10. CASE ScanTake(s)
  <2>1. stage'[s] = "repair" /\ plan'[s] = RecoveryPlan(file["active"].view)
        /\ UNCHANGED <<file, state, unapplied>>
    BY <1>1, <1>10 DEF ScanTake, GoTo
  <2>2. ~Loaded(s)' /\ ~Creating(s)'
    BY <2>1, <1>2 DEF StageOK, Ready, Creating
  <2>3. StateOK(s)'
    BY <2>1, <2>2 DEF StateOK, RestOK
  <2> QED
    BY <2>1, <2>3, <1>4
<1>11. CASE Repair(s)
  <2>1. /\ stage[s] = "repair" /\ plan[s] # <<>> /\ HasWriter(s) /\ Room(s)
        /\ file' = [file EXCEPT !["active"] = Grown(@, NextSeq(s), Head(plan[s]))]
        /\ plan' = [plan EXCEPT ![s] = Tail(@)]
        /\ UNCHANGED <<stage, state, unapplied, task, holder>>
    BY <1>11 DEF Repair
  <2>2. ~Pending(s) /\ task[s] = "none" /\ holder = s /\ ~Loaded(s)
    BY <2>1, <1>2 DEF StageOK, LeaseOK, Ready
  <2>3. plan[s] \in Seq(Kinds \ {"created"})
    BY <1>2 DEF StageOK
  <2>4. Head(plan[s]) \in Kinds /\ Head(plan[s]) # "created"
    BY <2>1, <2>3
  <2>5. task[s] \notin {"moved", "delete"}
    BY <2>2
  <2>6. file'["active"].view = Project(file["active"].view, Head(plan[s]))
    BY <1>2, <1>3, <2>1, <2>2, <2>4, <2>5, Written
  <2>7. RestOK(file["active"].view, plan[s]) /\ ViewOK(file["active"].view)
    BY <2>1, <1>1, <1>2 DEF StateOK, CleanOK
  <2>8. RestOK(Project(file["active"].view, Head(plan[s])), Tail(plan[s]))
    BY <2>1, <2>7, <1>1, PlanStep
  <2>9. plan'[s] = Tail(plan[s])
    BY <2>1, <1>1
  <2>10. RestOK(file'["active"].view, plan'[s])
    BY <2>6, <2>8, <2>9
  <2>11. StateOK(s)'
    BY <2>1, <2>2, <2>10 DEF StateOK, RestOK, Loaded, Creating, Pending
  <2> QED
    BY <2>1, <2>2, <2>11, <1>5
<1>12. CASE List(s)
  <2>1. stage[s] = "list" /\ UNCHANGED <<file, state, unapplied>>
    BY <1>12 DEF List
  <2>2. ~Loaded(s)' /\ ~Creating(s)'
    BY <2>1, <1>2 DEF StageOK, Ready, Loaded, Pending, Creating
  <2>3. CASE Opened /\ seen[s].place = "skip"
    <3>1. stage'[s] = "ready"
      BY <1>1, <1>12, <2>3 DEF List, GoTo
    <3>2. StateOK(s)'
      BY <2>2, <3>1 DEF StateOK
    <3> QED
      BY <2>1, <3>2, <1>4
  <2>4. CASE ~(Opened /\ seen[s].place = "skip")
    <3>4. /\ stage'[s] = "read" /\ UNCHANGED holder
          /\ seen'[s].place = IF Opened THEN "active"
                              ELSE IF Exists("archived") THEN "archived" ELSE "none"
      BY <1>1, <1>12, <2>4 DEF List, GoTo
    <3>5. ~empty
      BY <2>1, <3>4, NothingEmpty DEF Reading
    <3>1. /\ stage'[s] = "read"
          /\ seen'[s].place = IF Exists("active") THEN "active"
                              ELSE IF Exists("archived") THEN "archived" ELSE "none"
      BY <3>4, <3>5 DEF Opened
    <3>2. \A p \in Places : Exists(p)' <=> seen'[s].place = p
      BY <2>1, <3>1, <1>1, <1>2 DEF OneLog, Exists
    <3>3. StateOK(s)'
      BY <2>2, <3>1, <3>2 DEF StateOK
    <3> QED
      BY <2>1, <3>3, <1>4
  <2> QED
    BY <2>3, <2>4
<1>13. CASE ReadLog(s)
  <2>1. stage[s] = "read" /\ stage'[s] = "compare" /\ UNCHANGED <<file, state, unapplied>>
    BY <1>1, <1>13 DEF ReadLog, GoTo
  <2>2. ~Loaded(s)' /\ ~Creating(s)'
    BY <2>1, <1>2 DEF StageOK, Ready, Loaded, Pending, Creating
  <2>3. \A p \in Places : Exists(p) <=> seen[s].place = p
    BY <2>1, <1>2 DEF StateOK
  <2>4. seen'[s].place = seen[s].place
        /\ (seen[s].place # "none" => /\ seen'[s].seq = file[seen[s].place].len
                                      /\ seen'[s].view = file[seen[s].place].view)
    <3>1. CASE seen[s].place = "none"
      BY <3>1, <1>13 DEF ReadLog
    <3>2. CASE seen[s].place # "none"
      <4>1. seen' = [seen EXCEPT ![s].seq = file[seen[s].place].len, ![s].view = file[seen[s].place].view]
        BY <3>2, <1>13 DEF ReadLog
      <4> QED
        BY <4>1, <1>1
    <3> QED
      BY <3>1, <3>2
  <2>5. StateOK(s)'
    BY <2>1, <2>2, <2>3, <2>4 DEF StateOK, Exists
  <2> QED
    BY <2>1, <2>5, <1>4
<1>14. CASE Create(s)
  <2>1. /\ stage[s] = "create" /\ stage'[s] = "ready" /\ holder' = holder
        /\ file' = [file EXCEPT !["active"] = Grown(@, 1, "created")]
        /\ UNCHANGED state
    BY <1>1, <1>14 DEF Create, GoTo
  <2>2. file["active"] = Absent /\ ~Loaded(s) /\ holder' = s
    BY <2>1, <1>1, <1>2 DEF BornOK, Made, LeaseOK
  <2>3. file'["active"] = Grown(Absent, 1, "created")
    BY <2>1, <2>2, <1>1
  <2>4. file'["active"].view = Fresh
    BY <2>3, CleanViews DEF Grown
  <2>5. StateOK(s)'
    BY <2>1, <2>2, <2>4 DEF StateOK, Ready, Loaded
  <2> QED
    BY <2>1, <2>2, <2>5, <1>5
<1>21. CASE Open(s)
  <2>1. Ready(s) /\ ~born /\ stage'[s] = "create" /\ UNCHANGED <<file, state, unapplied>>
    BY <1>1, <1>21 DEF Open, GoTo
  <2>2. ~Loaded(s)' /\ ~Creating(s)'
    BY <2>1, <1>2 DEF BornOK, Made, Loaded, Pending, Creating
  <2>3. StateOK(s)'
    BY <2>1, <2>2 DEF StateOK
  <2> QED
    BY <2>1, <2>3, <1>4
<1>15. CASE Load(s)
  <2>1. /\ Ready(s) /\ ~Pending(s)
        /\ state' = [state EXCEPT ![s] = [seq  |-> file["active"].len,
                                          view |-> file["active"].view]]
        /\ UNCHANGED <<file, stage, unapplied>>
    BY <1>15 DEF Load
  <2>2. state'[s] = [seq |-> file["active"].len, view |-> file["active"].view]
    BY <2>1, <1>1
  <2>3. StateOK(s)'
    BY <2>1, <2>2 DEF StateOK, Ready, Creating, Pending
  <2> QED
    BY <2>1, <2>3, <1>4
<1>16. CASE Unload(s)
  <2>1. /\ Loaded(s) /\ ~Pending(s) /\ state' = [state EXCEPT ![s] = NoRow]
        /\ UNCHANGED <<file, stage, unapplied>>
    BY <1>16 DEF Unload
  <2>2. ~Loaded(s)' /\ Ready(s)
    <3>1. state'[s] = NoRow
      BY <2>1, <1>1
    <3> QED
      BY <2>1, <3>1, <1>1, <1>2 DEF Loaded, StageOK
  <2>3. StateOK(s)'
    BY <2>1, <2>2 DEF StateOK, Ready, Creating, Pending
  <2> QED
    BY <2>1, <2>3, <1>4
<1>17. CASE AppendRecord(s)
  <2>1. PICK k \in MayAppend(state[s].view) : Write(s, k)
    BY <1>17 DEF AppendRecord
  <2>2. k \in Kinds /\ k # "created"
    BY <2>1 DEF MayAppend, Kinds
  <2>3. Ready(s) /\ Loaded(s) /\ UNCHANGED <<stage, state, holder>>
    BY <1>17 DEF AppendRecord
  <2>4. holder = s /\ task[s] = "none"
    BY <2>3, <1>1, <1>2 DEF LeaseOK, Alone
  <2>5. task[s] \notin {"moved", "delete"} /\ holder' \in {s, Nobody}
    BY <2>3, <2>4
  <2> QED
    BY <1>6, <2>1, <2>2, <2>3, <2>5
<1>18. CASE ArchiveAppend(s) \/ UnarchiveAppend(s)
  <2>1. PICK k \in {"archived", "unarchived"} : Write(s, k)
    BY <1>18 DEF ArchiveAppend, UnarchiveAppend
  <2>2. k \in Kinds /\ k # "created"
    BY <2>1 DEF Kinds
  <2>3. task[s] \in {"archive", "unarchive"} /\ UNCHANGED <<stage, state, holder>>
    BY <1>18 DEF ArchiveAppend, UnarchiveAppend
  <2>4. holder = Nobody /\ Ready(s)
    BY <2>3, <1>2 DEF Alone, StageOK
  <2> QED
    BY <1>6, <2>1, <2>2, <2>3, <2>4
<1>19. CASE Archive(s) \/ ArchiveFlush(s) \/ ArchiveEnds(s) \/ LifecycleFails(s) \/ DeleteRow(s)
  <2>1. UNCHANGED <<file, stage, state, unapplied, plan, seen>>
    BY <1>19 DEF Archive, ArchiveFlush, ArchiveEnds, LifecycleFails, DeleteRow
  <2>2. StateOK(s)'
    BY <2>1, <1>2 DEF StateOK, Creating, Pending, Loaded, Exists
  <2> QED
    BY <2>1, <2>2, <1>4
<1>20. CASE ArchiveRename(s) \/ Unarchive(s) \/ Delete(s)
  <2>1. /\ UNCHANGED <<stage, state, unapplied, holder>>
        /\ task[s] # "none" \/ task'[s] # "none"
    BY <1>1, <1>20 DEF ArchiveRename, Unarchive, Delete, Continue
  <2>2. holder = Nobody
    BY <2>1, <1>2 DEF Alone
  <2>3. ~Loaded(s)' /\ stage'[s] # "repair" /\ ~Creating(s)'
    BY <2>1, <2>2, <1>1, <1>2 DEF LeaseOK
  <2>4. Ready(s)
    BY <1>20, <1>2 DEF ArchiveRename, Unarchive, Delete, MayStart, StageOK
  <2>5. StateOK(s)'
    BY <2>1, <2>3, <2>4 DEF StateOK, Ready
  <2>6. task'[s] # "none" \/ UNCHANGED file
    BY <1>1, <1>20 DEF ArchiveRename, Unarchive, Delete, Continue
  <2> QED
    BY <2>1, <2>2, <2>5, <2>6, <1>4, <1>5
<1> QED
  BY <1>7, <1>8, <1>9, <1>10, <1>11, <1>12, <1>13, <1>14, <1>15, <1>16, <1>17, <1>18, <1>19,
     <1>20, <1>21 DEF Step

\* After every undisturbed step the row projects the first records of the log,
\* and a Server that is up relies on a row that is in step or on who still
\* reconciles.
LEMMA CatalogStep ==
  ASSUME Calm, After', NEW s \in Servers, Step(s)
  PROVE  CatalogOK'
<1>1. /\ DOMAIN file = Places /\ "active" \in Places /\ "archived" \in Places
      /\ \A p \in Places : p = "active" \/ p = "archived"
      /\ \A p \in Places : file[p].len \in Nat /\ file[p].view \in Views
      /\ DOMAIN stage = Servers /\ DOMAIN plan = Servers /\ DOMAIN seen = Servers
      /\ DOMAIN writer = Servers /\ DOMAIN state = Servers
      /\ DOMAIN unapplied = Servers /\ DOMAIN task = Servers
      /\ \A t \in Servers : /\ writer[t] \in Nat /\ unapplied[t].seq \in Nat
                            /\ DOMAIN seen[t] = {"place", "seq", "view"}
      /\ row.seq \in Nat /\ row.view \in Views
      /\ Nobody \notin Servers
      /\ Absent.len = 0 /\ NoRecord.seq = 0 /\ NoRow.seq = 0 /\ Unseen.place = "none"
  BY StepFacts
<1>2. /\ \A t \in Servers : /\ StageOK(t) /\ LeaseOK(t) /\ StageOK(t)' /\ LeaseOK(t)'
                            /\ WriterOK(t) /\ WriterOK(t)' /\ StateOK(t)
      /\ OneLog /\ OneLog' /\ Alone /\ Alone' /\ OneWriter /\ OneWriter' /\ ReadsAlone /\ ReadsAlone'
      /\ CatalogOK /\ CleanOK /\ BornOK
  BY StepFacts
<1>3. \A t \in Servers \ {s} :
        /\ stage'[t] = stage[t] /\ seen'[t] = seen[t] /\ task'[t] = task[t]
        /\ unapplied'[t] = unapplied[t] /\ writer'[t] = writer[t]
        /\ Pending(t)' = Pending(t) /\ Ready(t)' = Ready(t) /\ Started(t)' = Started(t)
        /\ Reconciles(t)' = Reconciles(t)
  <2>1. \A t \in Servers \ {s} :
          /\ stage'[t] = stage[t] /\ seen'[t] = seen[t] /\ task'[t] = task[t]
          /\ unapplied'[t] = unapplied[t] /\ writer'[t] = writer[t]
          /\ Pending(t)' = Pending(t) /\ Ready(t)' = Ready(t)
    BY StepFacts
  <2> QED
    BY <2>1 DEF Reconciles, Started
<1>4. TypeOK
  BY DEF Calm, AlwaysOK
\* Steps that change neither the log nor the row.
<1>5. ASSUME UNCHANGED <<file, row, unapplied>>,
             task[s] # "delete" \/ UNCHANGED task,
             \/ Reconciles(s)'
             \/ /\ ~Reconciles(s)
                /\ Started(s)' \/ seen'[s].place = "skip" =>
                     \/ Started(s) \/ seen[s].place = "skip"
                     \/ \E t \in Servers \ {s} : Reconciles(t) \/ Started(t)
      PROVE  CatalogOK'
  <2>1. PrefixOK'
    BY <1>2, <1>5 DEF CatalogOK, PrefixOK, Exists, Pending
  <2>2. InStep => InStep'
    <3>1. \A t \in Servers : Pending(t)' = Pending(t)
      BY <1>5 DEF Pending
    <3>2. \A p \in Places : Exists(p)' = Exists(p)
      BY <1>5 DEF Exists
    <3>3. (\E t \in Servers : task[t] = "delete") => \E t \in Servers : task'[t] = "delete"
      BY <1>3, <1>5
    <3>4. row' = row /\ file' = file
      BY <1>5
    <3> QED
      BY <3>1, <3>2, <3>3, <3>4 DEF InStep
  <2>3. ASSUME NEW t \in Servers, Started(t)' \/ seen'[t].place = "skip",
               ~\E x \in Servers : Reconciles(x)'
        PROVE  InStep
    <3>1. ~Reconciles(s)
      BY <1>5, <2>3
    <3>2. ~\E x \in Servers : Reconciles(x)
      BY <1>3, <2>3, <3>1
    <3>3. \E x \in Servers : Started(x) \/ seen[x].place = "skip"
      <4>1. CASE t = s
        BY <4>1, <1>5, <2>3, <3>2
      <4>2. CASE t # s
        BY <4>2, <1>3, <2>3
      <4> QED
        BY <4>1, <4>2
    <3> QED
      BY <3>2, <3>3, <1>2 DEF CatalogOK
  <2> QED
    BY <2>1, <2>2, <2>3 DEF CatalogOK
\* Nobody else has a record under way once s has a writer.
<1>6. ASSUME writer'[s] > 0 \/ writer[s] > 0
      PROVE  \A t \in Servers \ {s} : ~Pending(t) /\ ~Pending(t)'
  <2> SUFFICES ASSUME NEW t \in Servers \ {s}, Pending(t) PROVE FALSE
    BY <1>3
  <2>1. writer[t] > 0 /\ writer'[t] > 0
    <3>1. WriterOK(t) /\ writer'[t] = writer[t]
      BY <1>2, <1>3
    <3> QED
      BY <3>1 DEF WriterOK
  <2> QED
    BY <2>1, <1>2, <1>6 DEF OneWriter
<1>7. ASSUME NEW k \in Kinds, k # "created", Write(s, k), Ready(s),
             task[s] \notin {"moved", "delete"}, holder' \in {s, Nobody},
             UNCHANGED row
      PROVE  CatalogOK'
  <2>1. /\ ~Pending(s) /\ HasWriter(s) /\ Room(s)
        /\ file' = [file EXCEPT !["active"] = Grown(@, NextSeq(s), k)]
        /\ writer' = [writer EXCEPT ![s] = NextSeq(s)]
        /\ unapplied' = [unapplied EXCEPT ![s] = [seq |-> NextSeq(s), kind |-> k]]
    BY <1>7 DEF Write
  <2>2. /\ NextSeq(s) = file["active"].len + 1 /\ Exists("active")
        /\ file'["active"].len = file["active"].len + 1
        /\ file'["active"].view = Project(file["active"].view, k)
        /\ file'["archived"] = Absent /\ file["archived"] = Absent
    BY <1>2, <1>4, <1>7, <2>1, Written
  <2>3. unapplied'[s].seq = file["active"].len + 1 /\ unapplied'[s].kind = k
        /\ writer'[s] = file["active"].len + 1
    BY <2>1, <2>2, <1>1
  <2>4. Pending(s)' /\ writer'[s] > 0
    BY <2>3, <1>1 DEF Pending
  <2>5. \A t \in Servers \ {s} : ~Pending(t) /\ ~Pending(t)'
    BY <2>4, <1>6
  <2>6. Exists("active")' /\ ~Exists("archived")' /\ ~Exists("archived")
    BY <2>2, <1>1 DEF Exists
  <2>7. InStep
    BY <2>4, <1>7, NobodyReconciles
  <2>8. row.seq = file["active"].len
    <3>1. ~\E t \in Servers : Pending(t)
      BY <2>1, <2>5
    <3> QED
      BY <2>2, <2>7, <3>1, <1>1 DEF InStep
  <2>9. row.view = file["active"].view
    BY <2>2, <2>8, <1>1, <1>2 DEF CatalogOK, PrefixOK
  <2>10. InStep'
    <3>1. row'.seq = file'["active"].len - 1
      BY <2>2, <2>8, <1>1, <1>7
    <3> QED
      BY <2>4, <2>6, <3>1, <1>1 DEF InStep
  <2>11. PrefixOK'
    <3>1. row'.seq = file["active"].len /\ row'.view = file["active"].view
      BY <2>8, <2>9, <1>7
    <3>2. \A t \in Servers : Pending(t)' => t = s
      BY <2>5
    <3>3. row'.seq <= file'["active"].len /\ row'.seq # file'["active"].len
      BY <2>2, <3>1, <1>1
    <3>4. Project(row'.view, unapplied'[s].kind) = file'["active"].view
      BY <2>2, <2>3, <3>1
    <3> QED
      BY <2>6, <3>2, <3>3, <3>4, <1>1 DEF PrefixOK
  <2> QED
    BY <2>10, <2>11 DEF CatalogOK
<1>8. CASE Apply(s)
  <2> DEFINE u == unapplied[s]
  <2>1. /\ Pending(s) /\ unapplied' = [unapplied EXCEPT ![s] = NoRecord]
        /\ UNCHANGED <<file, stage, seen, plan, task>>
        /\ row' = IF row.seq = u.seq - 1 THEN [seq |-> u.seq, view |-> Project(row.view, u.kind)] ELSE row
    BY <1>8 DEF Apply
  <2>2. Ready(s) /\ ~Pending(s)'
    <3>1. unapplied'[s] = NoRecord
      BY <2>1, <1>1
    <3> QED
      BY <2>1, <3>1, <1>1, <1>2 DEF StageOK, Pending
  <2>3. writer[s] > 0 /\ u.seq = writer[s] /\ task[s] \notin {"rename", "moved", "delete"}
    BY <2>1, <1>2 DEF WriterOK
  <2>4. u.seq = file["active"].len /\ Exists("active") /\ ~Exists("archived")
    BY <2>1, <2>3, <1>1, <1>2 DEF WriterOK, OneLog
  <2>5. \A t \in Servers : ~Pending(t)'
    BY <2>2, <2>3, <1>6
  <2>6. \A p \in Places : Exists(p)' => p = "active"
    BY <2>1, <2>4, <1>1 DEF Exists
  <2>7. CASE row.seq = u.seq - 1
    <3>1. row' = [seq |-> u.seq, view |-> Project(row.view, u.kind)]
      BY <2>1, <2>7
    <3>2. Project(row.view, u.kind) = file["active"].view
      BY <2>1, <2>4, <2>7, <1>1, <1>2 DEF CatalogOK, PrefixOK
    <3>3. row'.seq = file'["active"].len /\ row'.view = file'["active"].view
      BY <2>1, <2>4, <3>1, <3>2
    <3>4. PrefixOK'
      BY <2>1, <2>5, <2>6, <3>3, <1>1 DEF PrefixOK
    <3>5. InStep'
      <4>1. \E p \in Places : Exists(p)'
        BY <2>1, <2>4, <1>1 DEF Exists
      <4>2. file'["active"].len - 0 = file'["active"].len
        BY <2>1, <1>1
      <4> QED
        BY <2>5, <2>6, <3>3, <4>1, <4>2 DEF InStep
    <3> QED
      BY <3>4, <3>5 DEF CatalogOK
  <2>8. CASE row.seq # u.seq - 1
    <3>1. row' = row
      BY <2>1, <2>8
    <3>2. PrefixOK'
      BY <2>1, <2>5, <3>1, <1>2 DEF CatalogOK, PrefixOK, Exists
    <3>3. ~InStep
      BY <2>1, <2>4, <2>8, <1>1 DEF InStep
    <3>4. PICK t \in Servers : Reconciles(t)
      BY <2>2, <3>3, <1>2 DEF CatalogOK, Started, Ready
    <3>5. t # s
      BY <2>2, <3>4 DEF Reconciles, Ready, Reading
    <3>6. Reconciles(t)'
      BY <3>4, <3>5, <1>3
    <3> QED
      BY <3>2, <3>6 DEF CatalogOK
  <2> QED
    BY <2>7, <2>8
<1>9. CASE Boot(s)
  <2>1. /\ stage[s] = "down" /\ stage'[s] = "scan"
        /\ UNCHANGED <<file, row, seen, unapplied, task>>
    BY <1>1, <1>9 DEF Boot, GoTo
  <2> QED
    BY <2>1, <1>5 DEF Started, Reconciles, Reading
<1>10. CASE ScanSkip(s)
  <2>1. /\ stage[s] = "scan" /\ stage'[s] = "list" /\ seen[s].place = "none"
        /\ UNCHANGED <<file, row, unapplied, task, holder>>
    BY <1>1, <1>2, <1>10 DEF ScanSkip, GoTo, StageOK, Reading
  <2>2. ~Reconciles(s) /\ ~Started(s)'
    BY <2>1 DEF Reconciles, Reading, Started
  <2>3. CASE UNCHANGED seen
    <3>1. Reconciles(s)'
      BY <2>1, <2>3 DEF Reconciles, Reading
    <3> QED
      BY <2>1, <3>1, <1>5
  <2>4. CASE holder # Nobody
    <3>1. holder \in Servers
      BY <2>4, <1>4 DEF TypeOK
    <3>2. Loaded(holder) \/ stage[holder] \in {"repair", "create"} \/ Creating(holder)
      BY <3>1, <1>2 DEF LeaseOK
    <3>3. Started(holder) \/ Reconciles(holder)
      BY <3>1, <3>2, <1>2 DEF StageOK, Reconciles, Creating, Ready, Started
    <3>4. holder # s
      BY <2>1, <2>2, <3>3 DEF Started
    <3> QED
      BY <2>1, <2>2, <3>1, <3>3, <3>4, <1>5
  <2> QED
    BY <2>3, <2>4, <1>10 DEF ScanSkip, LeaseFree
<1>11. CASE ScanTake(s)
  <2>1. stage'[s] = "repair" /\ UNCHANGED <<file, row, unapplied, task>>
    BY <1>1, <1>11 DEF ScanTake, GoTo
  <2> QED
    BY <2>1, <1>5 DEF Reconciles
<1>12. CASE ScanFails(s)
  <2>1. Opened /\ ~Readable("active") /\ stage[s] = "scan" /\ holder = Nobody
    BY <1>12 DEF ScanFails, LeaseFree
  <2>2. ~empty
    BY <2>1, NothingEmpty
  <2>3. Exists("active")
    BY <2>1, <2>2 DEF Opened
  <2> QED
    BY <2>1, <2>3, <1>1, <1>2 DEF OneLog, Readable
<1>13. CASE Repair(s)
  <2>1. /\ stage[s] = "repair" /\ plan[s] # <<>> /\ HasWriter(s) /\ Room(s)
        /\ file' = [file EXCEPT !["active"] = Grown(@, NextSeq(s), Head(plan[s]))]
        /\ writer' = [writer EXCEPT ![s] = NextSeq(s) + 1]
        /\ UNCHANGED <<stage, row, unapplied, task, holder>>
    BY <1>13 DEF Repair
  <2>2. ~Pending(s) /\ task[s] = "none"
    BY <2>1, <1>2 DEF StageOK, Ready
  <2>3. plan[s] \in Seq(Kinds \ {"created"})
    BY <1>2 DEF StageOK
  <2>4. Head(plan[s]) \in Kinds /\ Head(plan[s]) # "created"
    BY <2>1, <2>3
  <2>5. task[s] \notin {"moved", "delete"} /\ WriterOK(s)
    BY <2>2, <1>2
  <2>6. /\ NextSeq(s) = file["active"].len + 1 /\ Exists("active")
        /\ file'["active"].len = file["active"].len + 1
        /\ file'["archived"] = Absent /\ file["archived"] = Absent
    BY <1>2, <1>4, <2>1, <2>2, <2>4, <2>5, Written
  <2>7. writer'[s] > 0
    BY <2>1, <2>6, <1>1
  <2>8. \A t \in Servers : ~Pending(t)'
    <3>1. ~Pending(s)'
      BY <2>1, <2>2 DEF Pending
    <3> QED
      BY <2>7, <3>1, <1>6
  <2>9. row.seq <= file["active"].len
    BY <2>6, <1>1, <1>2 DEF CatalogOK, PrefixOK
  <2>10. row'.seq <= file'["active"].len /\ row'.seq # file'["active"].len
    BY <2>1, <2>6, <2>9, <1>1
  <2>11. ~Exists("archived")'
    BY <2>6, <1>1 DEF Exists
  <2>12. PrefixOK'
    BY <2>8, <2>10, <2>11, <1>1 DEF PrefixOK
  <2>13. Reconciles(s)'
    BY <2>1 DEF Reconciles
  <2> QED
    BY <2>12, <2>13 DEF CatalogOK
<1>14. CASE RepairEnds(s)
  <2>1. stage'[s] = "list" /\ seen'[s].place = "none" /\ UNCHANGED <<file, row, unapplied, task>>
    BY <1>1, <1>2, <1>14 DEF RepairEnds, GoTo, StageOK, Reading
  <2>2. Reconciles(s)'
    BY <2>1 DEF Reconciles, Reading
  <2> QED
    BY <2>1, <2>2, <1>5
<1>15. CASE List(s)
  <2>1. stage[s] = "list" /\ UNCHANGED <<file, row, unapplied, task>>
    BY <1>15 DEF List
  <2>2. CASE Opened /\ seen[s].place = "skip"
    <3>1. ~Reconciles(s)
      BY <2>1, <2>2 DEF Reconciles
    <3> QED
      BY <2>1, <2>2, <3>1, <1>5
  <2>3. CASE ~(Opened /\ seen[s].place = "skip")
    <3>1. stage'[s] = "read" /\ seen'[s].place \in {"active", "archived", "none"}
      BY <1>1, <1>15, <2>3 DEF List, GoTo
    <3>2. Reconciles(s)'
      BY <3>1 DEF Reconciles, Reading
    <3> QED
      BY <2>1, <3>2, <1>5
  <2> QED
    BY <2>2, <2>3
<1>16. CASE ReadLog(s)
  <2>1. stage[s] = "read" /\ stage'[s] = "compare" /\ UNCHANGED <<file, row, unapplied, task>>
    BY <1>1, <1>16 DEF ReadLog, GoTo
  <2>2. seen'[s].place # "skip"
    BY <2>1, <1>2 DEF StageOK
  <2>3. Reconciles(s)'
    BY <2>1, <2>2 DEF Reconciles, Reading
  <2> QED
    BY <2>1, <2>3, <1>5
<1>17. CASE ReconcileFails(s)
  <2>1. \/ Exists("active") /\ Exists("archived")
        \/ stage[s] = "read" /\ seen[s].place # "none" /\ ~Readable(seen[s].place)
    BY <1>17 DEF ReconcileFails
  <2>2. stage[s] = "read" /\ seen[s].place # "none" /\ ~Readable(seen[s].place)
    BY <2>1, <1>2 DEF OneLog
  <2>3. seen[s].place \in Places
    BY <2>2, <1>2, <1>4 DEF StageOK, TypeOK
  <2>4. Exists(seen[s].place)
    BY <2>2, <2>3, <1>2 DEF StateOK
  <2> QED
    BY <2>2, <2>3, <2>4, <1>2 DEF OneLog, Readable
<1>18. CASE Reconcile(s)
  <2>1. /\ stage[s] = "compare" /\ UNCHANGED <<file, unapplied, task>>
        /\ row' = IF seen[s].place = "none" THEN NoRow
                  ELSE IF Stale(s) THEN [seq |-> seen[s].seq, view |-> seen[s].view] ELSE row
    BY <1>18 DEF Reconcile
  <2>2. \A p \in Places : Exists(p) <=> seen[s].place = p
    BY <2>1, <1>2 DEF StateOK
  <2>3. seen[s].place # "skip"
    BY <2>1, <1>2 DEF StageOK
  <2>4. \A t \in Servers : ~Pending(t)
    <3>1. ~Pending(s)
      BY <2>1, <1>2 DEF StageOK, Ready
    <3>2. \A t \in Servers \ {s} : ~Pending(t)
      BY <2>1, <2>3, <1>2 DEF ReadsAlone, Reading
    <3> QED
      BY <3>1, <3>2
  <2>5. \A t \in Servers : ~Pending(t)'
    BY <2>1, <2>4 DEF Pending
  <2>6. CASE seen[s].place = "none"
    <3>1. \A p \in Places : ~Exists(p)'
      BY <2>1, <2>2, <2>6, <1>1 DEF Exists
    <3>2. row' = NoRow
      BY <2>1, <2>6
    <3> QED
      BY <3>1, <3>2 DEF CatalogOK, PrefixOK, InStep
  <2>7. CASE seen[s].place # "none"
    <3>1. PICK p \in Places : p = seen[s].place
      BY <2>3, <2>7, <1>4 DEF TypeOK
    <3>2. Exists(p) /\ \A q \in Places : Exists(q) => q = p
      BY <2>2, <3>1
    <3>3. seen[s].seq = file[p].len /\ seen[s].view = file[p].view
      BY <2>1, <2>7, <3>1, <1>2 DEF StateOK
    <3>4. row'.seq = file[p].len /\ row'.view = file[p].view
      <4>1. CASE Stale(s)
        BY <4>1, <2>1, <2>7, <3>3
      <4>2. CASE ~Stale(s)
        <5>1. row' = row /\ row.seq = seen[s].seq
          BY <4>2, <2>1, <2>7 DEF Stale
        <5>2. row.view = file[p].view
          BY <5>1, <3>1, <3>2, <3>3, <1>2 DEF CatalogOK, PrefixOK
        <5> QED
          BY <5>1, <5>2, <3>3
      <4> QED
        BY <4>1, <4>2
    <3>5. Exists(p)' /\ \A q \in Places : Exists(q)' => q = p
      BY <2>1, <3>2 DEF Exists
    <3>6. file' = file /\ file[p].len \in Nat
      BY <2>1, <3>1, <1>1
    <3>7. PrefixOK'
      BY <2>5, <3>4, <3>5, <3>6 DEF PrefixOK
    <3>8. InStep'
      <4>1. file'[p].len - 0 = file'[p].len
        BY <3>6
      <4> QED
        BY <2>5, <3>1, <3>4, <3>5, <3>6, <4>1 DEF InStep
    <3> QED
      BY <3>7, <3>8 DEF CatalogOK
  <2> QED
    BY <2>6, <2>7
<1>19. CASE Create(s)
  <2>1. /\ stage[s] = "create"
        /\ file' = [file EXCEPT !["active"] = Grown(@, 1, "created")]
        /\ writer' = [writer EXCEPT ![s] = 1]
        /\ unapplied' = [unapplied EXCEPT ![s] = [seq |-> 1, kind |-> "created"]]
        /\ UNCHANGED row
    BY <1>19 DEF Create
  <2>2. row = NoRow /\ \A p \in Places : file[p] = Absent
    BY <2>1, <1>2 DEF BornOK, Made
  <2>3. file'["active"] = Grown(Absent, 1, "created") /\ file'["archived"] = Absent
    BY <2>1, <2>2, <1>1
  <2>4. file'["active"].view = Fresh /\ file'["active"].len = 1
    BY <2>3, <1>1, CleanViews DEF Grown
  <2>5. writer'[s] > 0 /\ unapplied'[s].seq = 1 /\ unapplied'[s].kind = "created" /\ Pending(s)'
    <3>1. unapplied'[s] = [seq |-> 1, kind |-> "created"] /\ writer'[s] = 1
      BY <2>1, <1>1
    <3> QED
      BY <3>1 DEF Pending
  <2>6. \A t \in Servers : Pending(t)' => t = s
    BY <2>5, <1>6
  <2>7. Exists("active")' /\ ~Exists("archived")'
    BY <2>3, <2>4, <1>1 DEF Exists
  <2>8. row'.seq = 0
    BY <2>1, <2>2, <1>1
  <2>9. PrefixOK'
    BY <2>4, <2>5, <2>6, <2>7, <2>8, <1>1, CleanViews DEF PrefixOK
  <2>10. InStep'
    BY <2>4, <2>5, <2>7, <2>8, <1>1 DEF InStep
  <2> QED
    BY <2>9, <2>10 DEF CatalogOK
<1>27. CASE Open(s)
  <2>1. /\ Ready(s) /\ stage'[s] = "create"
        /\ UNCHANGED <<file, row, unapplied, task, seen>>
    BY <1>1, <1>27 DEF Open, GoTo
  <2>2. ~Reconciles(s) /\ Started(s)
    BY <2>1 DEF Reconciles, Ready, Reading, Started
  <2> QED
    BY <2>1, <2>2, <1>5
<1>20. CASE Load(s) \/ Unload(s) \/ Archive(s) \/ ArchiveFlush(s) \/ ArchiveEnds(s) \/ LifecycleFails(s)
  <2>1. UNCHANGED <<file, row, unapplied, stage, seen>> /\ Ready(s)
    BY <1>2, <1>20 DEF Load, Unload, Archive, ArchiveFlush, ArchiveEnds, LifecycleFails, MayStart, StageOK
  <2>2. task[s] # "delete" \/ UNCHANGED task
    BY <1>20 DEF Load, Unload, Archive, ArchiveFlush, ArchiveEnds, LifecycleFails, MayStart
  <2>3. ~Reconciles(s)
    BY <2>1 DEF Reconciles, Ready, Reading
  <2> QED
    BY <2>1, <2>2, <2>3, <1>5 DEF Started, Ready
<1>21. CASE AppendRecord(s)
  <2>1. PICK k \in MayAppend(state[s].view) : Write(s, k)
    BY <1>21 DEF AppendRecord
  <2>2. k \in Kinds /\ k # "created"
    BY <2>1 DEF MayAppend, Kinds
  <2>3. Ready(s) /\ Loaded(s) /\ UNCHANGED <<row, holder>>
    BY <1>21 DEF AppendRecord
  <2>4. holder = s /\ task[s] = "none"
    BY <2>3, <1>1, <1>2 DEF LeaseOK, Alone
  <2>5. task[s] \notin {"moved", "delete"} /\ holder' \in {s, Nobody}
    BY <2>3, <2>4
  <2> QED
    BY <1>7, <2>1, <2>2, <2>3, <2>5
<1>22. CASE ArchiveAppend(s) \/ UnarchiveAppend(s)
  <2>1. PICK k \in {"archived", "unarchived"} : Write(s, k)
    BY <1>22 DEF ArchiveAppend, UnarchiveAppend
  <2>2. k \in Kinds /\ k # "created"
    BY <2>1 DEF Kinds
  <2>3. task[s] \in {"archive", "unarchive"} /\ UNCHANGED <<row, holder>>
    BY <1>22 DEF ArchiveAppend, UnarchiveAppend
  <2>4. holder' = Nobody /\ Ready(s)
    BY <2>3, <1>2 DEF Alone, StageOK
  <2> QED
    BY <1>7, <2>1, <2>2, <2>3, <2>4
<1>23. CASE ArchiveRename(s)
  <2>1. task[s] = "rename" /\ UNCHANGED <<row, holder, unapplied>>
    BY <1>23 DEF ArchiveRename
  <2>2. Exists("active") /\ ~Pending(s) /\ holder = Nobody /\ Ready(s)
    BY <2>1, <1>2 DEF WriterOK, Alone, StageOK
  <2>3. file' = [active |-> Absent, archived |-> file["active"]] /\ task'[s] = "moved"
    BY <1>1, <1>23, <2>2 DEF ArchiveRename, Continue
  <2>4. file'["active"] = Absent /\ file'["archived"] = file["active"]
    BY <2>3
  <2>5. InStep
    BY <2>1, <2>2, <2>3, NobodyReconciles
  <2>6. \A t \in Servers : ~Pending(t) /\ ~Pending(t)'
    <3>1. ASSUME NEW t \in Servers \ {s} PROVE ~Pending(t)
      <4>1. writer[t] = 0 /\ WriterOK(t)
        BY <2>1, <1>2 DEF Alone
      <4>2. ~(writer[t] > 0)
        BY <4>1
      <4> QED
        BY <4>1, <4>2 DEF WriterOK
    <3>2. \A t \in Servers : ~Pending(t)
      BY <2>2, <3>1
    <3> QED
      BY <2>1, <3>2 DEF Pending
  <2>7. row.seq = file["active"].len
    BY <2>2, <2>5, <2>6, <1>1 DEF InStep
  <2>8. row.view = file["active"].view
    BY <2>2, <2>7, <1>1, <1>2 DEF CatalogOK, PrefixOK
  <2>9. row'.seq = file'["archived"].len /\ row'.view = file'["archived"].view
    BY <2>1, <2>4, <2>7, <2>8
  <2>10. Exists("archived")' /\ ~Exists("active")' /\ file'["archived"].len \in Nat
    BY <2>2, <2>4, <1>1 DEF Exists
  <2>11. PrefixOK'
    BY <2>6, <2>9, <2>10, <1>1 DEF PrefixOK
  <2>12. InStep'
    BY <2>6, <2>9, <2>10, <1>1 DEF InStep
  <2> QED
    BY <2>11, <2>12 DEF CatalogOK
<1>24. CASE Unarchive(s)
  <2>1. /\ Ready(s) /\ Exists("archived") /\ ~Pending(s) /\ UNCHANGED <<row, holder, unapplied>>
        /\ file' = [active |-> file["archived"], archived |-> Absent] /\ task'[s] = "unarchive"
    BY <1>1, <1>24 DEF Unarchive, MayStart, Continue
  <2>2. ~Exists("active") /\ holder = Nobody
    BY <2>1, <1>2 DEF OneLog, Alone
  <2>3. file'["active"] = file["archived"] /\ file'["archived"] = Absent
    BY <2>1
  <2>4. InStep
    BY <2>1, <2>2, NobodyReconciles
  <2>5. \A t \in Servers : ~Pending(t) /\ ~Pending(t)'
    <3>1. ASSUME NEW t \in Servers \ {s} PROVE ~Pending(t)
      <4>1. writer'[t] = 0 /\ WriterOK(t)' /\ Pending(t)' = Pending(t)
        BY <2>1, <1>2, <1>3 DEF Alone
      <4>2. ~(writer'[t] > 0)
        BY <4>1
      <4> QED
        BY <4>1, <4>2 DEF WriterOK
    <3>2. \A t \in Servers : ~Pending(t)
      BY <2>1, <3>1
    <3> QED
      BY <2>1, <3>2 DEF Pending
  <2>6. row.seq = file["archived"].len
    BY <2>1, <2>4, <2>5, <1>1 DEF InStep
  <2>7. row.view = file["archived"].view
    BY <2>1, <2>6, <1>1, <1>2 DEF CatalogOK, PrefixOK
  <2>8. row'.seq = file'["active"].len /\ row'.view = file'["active"].view
    BY <2>1, <2>3, <2>6, <2>7
  <2>9. Exists("active")' /\ ~Exists("archived")' /\ file'["active"].len \in Nat
    BY <2>1, <2>3, <1>1 DEF Exists
  <2>10. PrefixOK'
    BY <2>5, <2>8, <2>9, <1>1 DEF PrefixOK
  <2>11. InStep'
    BY <2>5, <2>8, <2>9, <1>1 DEF InStep
  <2> QED
    BY <2>10, <2>11 DEF CatalogOK
<1>25. CASE Delete(s)
  <2>1. task'[s] = "delete"
    BY <1>1, <1>25 DEF Delete, Continue
  <2>2. \A p \in Places : ~Exists(p)'
    BY <2>1, <1>2 DEF WriterOK
  <2> QED
    BY <2>1, <2>2 DEF CatalogOK, PrefixOK, InStep
<1>26. CASE DeleteRow(s)
  <2>1. task[s] = "delete" /\ row' = NoRow /\ UNCHANGED file
    BY <1>26 DEF DeleteRow
  <2>2. \A p \in Places : ~Exists(p)'
    BY <2>1, <1>2 DEF WriterOK, Exists
  <2> QED
    BY <2>1, <2>2 DEF CatalogOK, PrefixOK, InStep
<1> QED
  BY <1>8, <1>9, <1>10, <1>11, <1>12, <1>13, <1>14, <1>15, <1>16, <1>17, <1>18, <1>19, <1>20,
     <1>21, <1>22, <1>23, <1>24, <1>25, <1>26, <1>27 DEF Step

\* After every undisturbed step a thread that nobody has is clean, once a
\* recovery has been over it.
LEMMA CleanStep ==
  ASSUME Calm, After', NEW s \in Servers, Step(s)
  PROVE  CleanOK'
<1>1. /\ DOMAIN file = Places /\ "active" \in Places /\ "archived" \in Places
      /\ \A p \in Places : p = "active" \/ p = "archived"
      /\ \A p \in Places : file[p].len \in Nat /\ file[p].view \in Views
      /\ DOMAIN stage = Servers /\ DOMAIN plan = Servers /\ DOMAIN state = Servers
      /\ DOMAIN unapplied = Servers /\ DOMAIN task = Servers
      /\ Nobody \notin Servers /\ Absent.view = Fresh
  BY StepFacts
<1>2. /\ \A t \in Servers : /\ StageOK(t) /\ LeaseOK(t) /\ StageOK(t)' /\ LeaseOK(t)'
                            /\ WriterOK(t) /\ WriterOK(t)' /\ StateOK(t)
      /\ OneLog /\ OneLog' /\ Alone /\ Alone' /\ CatalogOK /\ CleanOK /\ BornOK
  BY StepFacts
<1>3. \A t \in Servers \ {s} : stage'[t] = stage[t]
  BY StepFacts
<1>4. TypeOK
  BY DEF Calm, AlwaysOK
<1>5. /\ \A p \in Places : ViewOK(file[p].view)
      /\ Clean(file["archived"].view)
      /\ (\E t \in Servers : stage[t] \notin {"down", "scan", "repair"}) /\ holder = Nobody =>
           Clean(file["active"].view)
  BY <1>2 DEF CleanOK
\* Steps that leave the logs alone.
<1>6. ASSUME UNCHANGED file,
             \/ Clean(file["active"].view)
             \/ holder' # Nobody
             \/ holder = Nobody /\ (stage'[s] \in {"down", "scan"} \/ stage[s] \notin {"down", "scan", "repair"})
      PROVE  CleanOK'
  <2>1. ASSUME NEW t \in Servers, stage'[t] \notin {"down", "scan", "repair"}, holder' = Nobody
        PROVE  Clean(file["active"].view)
    <3>1. CASE Clean(file["active"].view)
      BY <3>1
    <3>2. CASE holder = Nobody /\ stage[s] \notin {"down", "scan", "repair"}
      BY <3>2, <1>5
    <3>3. CASE holder = Nobody /\ stage'[s] \in {"down", "scan"}
      <4>1. t # s
        BY <2>1, <3>3
      <4> QED
        BY <2>1, <3>3, <4>1, <1>3, <1>5
    <3> QED
      BY <2>1, <3>1, <3>2, <3>3, <1>6
  <2> QED
    BY <2>1, <1>5, <1>6 DEF CleanOK
\* Steps that write one record to the active log.
<1>7. ASSUME NEW k \in Kinds, k # "created", ~Pending(s), HasWriter(s), Room(s),
             task[s] \notin {"moved", "delete"},
             file' = [file EXCEPT !["active"] = Grown(@, NextSeq(s), k)],
             ViewOK(Project(file["active"].view, k)),
             holder' # Nobody \/ Clean(Project(file["active"].view, k))
      PROVE  CleanOK'
  <2>1. /\ file'["active"].view = Project(file["active"].view, k)
        /\ file'["archived"] = file["archived"]
    BY <1>2, <1>4, <1>7, Written
  <2>2. \A p \in Places : ViewOK(file'[p].view)
    BY <2>1, <1>1, <1>5, <1>7
  <2> QED
    BY <2>1, <2>2, <1>5, <1>7 DEF CleanOK
\* Steps that move or delete a log.
<1>8. ASSUME \A p \in Places : \/ file'[p].view = Fresh
                               \/ \E q \in Places : file'[p].view = file[q].view /\ Clean(file[q].view)
      PROVE  CleanOK'
  <2>1. \A p \in Places : Clean(file'[p].view) /\ ViewOK(file'[p].view)
    BY <1>5, <1>8, CleanViews
  <2> QED
    BY <2>1, <1>1 DEF CleanOK
<1>9. CASE Apply(s)
  <2> DEFINE u == unapplied[s]
  <2>1. Pending(s) /\ UNCHANGED <<file, stage>> /\ Ready(s)
    BY <1>2, <1>9 DEF Apply, StageOK
  <2>2. CASE holder' = holder
    <3>1. holder = Nobody \/ holder' # Nobody
      BY <2>2
    <3> QED
      BY <2>1, <3>1, <1>6 DEF Ready
  <2>3. CASE holder' # holder
    <3>1. u.kind = "created"
      BY <2>3, <1>9 DEF Apply
    <3>2. file["active"].view = Fresh
      BY <2>1, <3>1, <1>2 DEF Creating, StateOK
    <3> QED
      BY <2>1, <3>2, <1>6, CleanViews
  <2> QED
    BY <2>2, <2>3
<1>10. CASE Boot(s) \/ ReconcileFails(s)
  <2>1. stage'[s] \in {"down", "scan"} /\ UNCHANGED <<file, holder>>
    BY <1>1, <1>10 DEF Boot, ReconcileFails, GoTo, Stop
  <2> QED
    BY <2>1, <1>6
<1>11. CASE ScanSkip(s)
  <2>1. UNCHANGED <<file, holder>>
    BY <1>11 DEF ScanSkip
  <2>2. CASE ~Opened
    <3>1. file["active"] = Absent
      BY <2>2, <1>1, <1>2 DEF OneLog, Opened
    <3> QED
      BY <2>1, <3>1, <1>1, <1>6, CleanViews
  <2>3. CASE holder # Nobody
    BY <2>1, <2>3, <1>6
  <2> QED
    BY <2>2, <2>3, <1>11 DEF ScanSkip, LeaseFree
<1>12. CASE ScanTake(s) \/ Load(s)
  <2>1. UNCHANGED file /\ holder' # Nobody
    BY <1>1, <1>12 DEF ScanTake, Load
  <2> QED
    BY <2>1, <1>6
<1>13. CASE ScanFails(s)
  <2>1. stage'[s] = "down" /\ UNCHANGED file /\ holder = Nobody
    BY <1>1, <1>13 DEF ScanFails, Stop, LeaseFree
  <2> QED
    BY <2>1, <1>6
<1>14. CASE Repair(s)
  <2>1. /\ stage[s] = "repair" /\ plan[s] # <<>> /\ HasWriter(s) /\ Room(s)
        /\ file' = [file EXCEPT !["active"] = Grown(@, NextSeq(s), Head(plan[s]))]
        /\ UNCHANGED holder
    BY <1>14 DEF Repair
  <2>2. ~Pending(s) /\ task[s] = "none" /\ holder = s
    BY <2>1, <1>2 DEF StageOK, LeaseOK, Ready
  <2>3. plan[s] \in Seq(Kinds \ {"created"})
    BY <1>2 DEF StageOK
  <2>4. Head(plan[s]) \in Kinds /\ Head(plan[s]) # "created"
    BY <2>1, <2>3
  <2>5. RestOK(file["active"].view, plan[s]) /\ ViewOK(file["active"].view)
    BY <2>1, <1>1, <1>2, <1>5 DEF StateOK
  <2>6. ViewOK(Project(file["active"].view, Head(plan[s])))
    BY <2>1, <2>5, <1>1, PlanStep
  <2>7. holder' # Nobody /\ task[s] \notin {"moved", "delete"}
    BY <2>1, <2>2, <1>1
  <2> QED
    BY <2>1, <2>2, <2>4, <2>6, <2>7, <1>7
<1>15. CASE RepairEnds(s)
  <2>1. stage[s] = "repair" /\ plan[s] = <<>> /\ UNCHANGED file
    BY <1>15 DEF RepairEnds
  <2>2. RestOK(file["active"].view, plan[s]) /\ ViewOK(file["active"].view)
    BY <2>1, <1>1, <1>2, <1>5 DEF StateOK
  <2>3. Clean(file["active"].view)
    BY <2>1, <2>2, <1>1, PlanStep
  <2> QED
    BY <2>1, <2>3, <1>6
<1>16. CASE List(s) \/ ReadLog(s) \/ Reconcile(s)
  <2>1. stage[s] \in {"list", "read", "compare"} /\ UNCHANGED <<file, holder>>
    BY <1>16 DEF List, ReadLog, Reconcile
  <2>2. holder = Nobody \/ holder' # Nobody
    BY <2>1
  <2> QED
    BY <2>1, <2>2, <1>6
<1>17. CASE Create(s)
  <2>1. stage[s] = "create" /\ file' = [file EXCEPT !["active"] = Grown(@, 1, "created")]
    BY <1>17 DEF Create
  <2>2. \A p \in Places : file[p] = Absent
    BY <2>1, <1>2 DEF BornOK, Made
  <2>3. file'["active"] = Grown(Absent, 1, "created") /\ file'["archived"] = Absent
    BY <2>1, <2>2, <1>1
  <2>4. file'["active"].view = Fresh
    BY <2>3, CleanViews DEF Grown
  <2> QED
    BY <2>3, <2>4, <1>1, <1>8
<1>25. CASE Open(s)
  <2>1. UNCHANGED file /\ holder' # Nobody
    BY <1>1, <1>25 DEF Open
  <2> QED
    BY <2>1, <1>6
<1>18. CASE Unload(s)
  <2>1. /\ Loaded(s) /\ ~Pending(s) /\ ~state[s].view.turn /\ ~state[s].view.request
        /\ UNCHANGED file
    BY <1>18 DEF Unload
  <2>2. state[s] = [seq |-> file["active"].len, view |-> file["active"].view]
    BY <2>1, <1>2 DEF StateOK
  <2>3. ~file["active"].view.turn /\ ~file["active"].view.request
    BY <2>1, <2>2
  <2>4. Clean(file["active"].view)
    BY <2>3, <1>1, <1>5, CleanViews
  <2> QED
    BY <2>1, <2>4, <1>6
<1>19. CASE AppendRecord(s)
  <2>1. PICK k \in MayAppend(state[s].view) : Write(s, k)
    BY <1>19 DEF AppendRecord
  <2>2. k \in Kinds /\ k # "created"
    BY <2>1 DEF MayAppend, Kinds
  <2>3. Loaded(s) /\ UNCHANGED holder
    BY <1>19 DEF AppendRecord
  <2>4. holder = s /\ task[s] = "none"
    BY <2>3, <1>1, <1>2 DEF LeaseOK, Alone
  <2>5. /\ ~Pending(s) /\ HasWriter(s) /\ Room(s)
        /\ file' = [file EXCEPT !["active"] = Grown(@, NextSeq(s), k)]
    BY <2>1 DEF Write
  <2>6. state[s] = [seq |-> file["active"].len, view |-> file["active"].view]
    BY <2>3, <2>5, <1>2 DEF StateOK
  <2>7. state[s].view = file["active"].view
    BY <2>6
  <2>8. ViewOK(Project(file["active"].view, k))
    BY <2>1, <2>7, <1>1, <1>5, AppendedView
  <2>9. holder' # Nobody /\ task[s] \notin {"moved", "delete"}
    BY <2>3, <2>4, <1>1
  <2> QED
    BY <2>2, <2>5, <2>8, <2>9, <1>7
<1>20. CASE ArchiveAppend(s) \/ UnarchiveAppend(s)
  <2>1. PICK k \in {"archived", "unarchived"} : Write(s, k)
    BY <1>20 DEF ArchiveAppend, UnarchiveAppend
  <2>2. k \in Kinds /\ k # "created"
    BY <2>1 DEF Kinds
  <2>3. task[s] \in {"archive", "unarchive"}
    BY <1>20 DEF ArchiveAppend, UnarchiveAppend
  <2>4. holder = Nobody /\ Ready(s)
    BY <2>3, <1>2 DEF Alone, StageOK
  <2>5. /\ ~Pending(s) /\ HasWriter(s) /\ Room(s)
        /\ file' = [file EXCEPT !["active"] = Grown(@, NextSeq(s), k)]
    BY <2>1 DEF Write
  <2>6. Clean(file["active"].view)
    BY <2>4, <1>5 DEF Ready
  <2>7. Clean(Project(file["active"].view, k)) /\ ViewOK(Project(file["active"].view, k))
    BY <2>6, <1>1, ArchivedView
  <2> QED
    BY <2>2, <2>3, <2>5, <2>7, <1>7
<1>21. CASE Archive(s) \/ ArchiveFlush(s) \/ ArchiveEnds(s) \/ LifecycleFails(s) \/ DeleteRow(s)
  <2>1. UNCHANGED <<file, holder>> /\ Ready(s)
    BY <1>2, <1>21 DEF Archive, ArchiveFlush, ArchiveEnds, LifecycleFails, DeleteRow, MayStart, StageOK
  <2>2. holder = Nobody \/ holder' # Nobody
    BY <2>1
  <2> QED
    BY <2>1, <2>2, <1>6 DEF Ready
<1>22. CASE ArchiveRename(s)
  <2>1. task[s] = "rename"
    BY <1>22 DEF ArchiveRename
  <2>2. Exists("active") /\ holder = Nobody /\ Ready(s)
    BY <2>1, <1>2 DEF WriterOK, Alone, StageOK
  <2>3. file' = [active |-> Absent, archived |-> file["active"]]
    BY <1>1, <1>22, <2>2 DEF ArchiveRename, Continue
  <2>4. file'["active"] = Absent /\ file'["archived"] = file["active"]
    BY <2>3
  <2>5. Clean(file["active"].view)
    BY <2>2, <1>5 DEF Ready
  <2> QED
    BY <2>4, <2>5, <1>1, <1>8
<1>23. CASE Unarchive(s)
  <2>1. file' = [active |-> file["archived"], archived |-> Absent]
    BY <1>23 DEF Unarchive
  <2>2. file'["active"] = file["archived"] /\ file'["archived"] = Absent
    BY <2>1
  <2> QED
    BY <2>2, <1>1, <1>5, <1>8
<1>24. CASE Delete(s)
  <2>1. task'[s] = "delete"
    BY <1>1, <1>24 DEF Delete, Continue
  <2>2. \A p \in Places : ~Exists(p)'
    BY <2>1, <1>2 DEF WriterOK
  <2>3. \A p \in Places : file'[p] = Absent
    BY <2>2, <1>2 DEF OneLog
  <2> QED
    BY <2>3, <1>1, <1>8
<1> QED
  BY <1>9, <1>10, <1>11, <1>12, <1>13, <1>14, <1>15, <1>16, <1>17, <1>18, <1>19, <1>20, <1>21,
     <1>22, <1>23, <1>24, <1>25 DEF Step

\* A death of the only Server that is up disturbs none of this: nobody is left
\* to rely on the catalog.
LEMMA CrashStep ==
  ASSUME Calm, After', NEW s \in Servers, Crash(s), \A t \in Servers \ {s} : ~Up(t)
  PROVE  (\A t \in Servers : StateOK(t)') /\ CatalogOK' /\ CleanOK'
<1>1. /\ CatalogOK /\ CleanOK /\ \A t \in Servers : StageOK(t)'
      /\ \A t \in Servers \ {s} : stage'[t] = stage[t]
      /\ DOMAIN stage = Servers
  BY StepFacts
<1>2. \A t \in Servers : stage'[t] = "down"
  BY <1>1 DEF Crash, Stop, Up
<1>3. \A t \in Servers : ~Loaded(t)' /\ ~Pending(t)' /\ seen'[t].place = "none" /\ ~Ready(t)'
  BY <1>1, <1>2 DEF StageOK, Ready, Reading
<1>4. \A t \in Servers : StateOK(t)'
  BY <1>2, <1>3 DEF StateOK, Creating
<1>5. UNCHANGED <<file, row>>
  BY DEF Crash
<1>6. CatalogOK'
  BY <1>1, <1>2, <1>3, <1>5 DEF CatalogOK, PrefixOK, Exists, Started
<1>7. CleanOK'
  BY <1>1, <1>2, <1>5 DEF CleanOK
<1> QED
  BY <1>4, <1>6, <1>7

\* An undisturbed step keeps all of it.
LEMMA StepsStep ==
  ASSUME AlwaysOK, Present \subseteq causes, LogOK, StepsOK, [Next]_vars
  PROVE  StepsOK'
<1> SUFFICES ASSUME causes' = {}
             PROVE  (\A s \in Servers : StateOK(s)') /\ CatalogOK' /\ CleanOK'
  BY DEF StepsOK
<1>1. /\ AlwaysOK' /\ TypeOK /\ TypeOK' /\ LogOK'
      /\ causes \subseteq causes' /\ Present' \subseteq causes'
      /\ \/ \E s \in Servers : Step(s)
         \/ \E s \in Servers : Crash(s) /\ \A t \in Servers \ {s} : ~Up(t)
         \/ UNCHANGED vars
  BY AlwaysStep, CausesStep, LogStep DEF AlwaysOK
<1>2. causes = {} /\ causes' \subseteq {"start", "crash"} /\ causes \subseteq {"start", "crash"}
  BY <1>1
<1>3. Calm
  BY <1>1, <1>2, Exclusions DEF Calm, Guarded, StepsOK, LogOK
<1>4. After'
  BY <1>1, <1>2, NextExclusions DEF After, Guarded, LogOK
<1>5. CASE \E s \in Servers : Step(s)
  BY <1>3, <1>4, <1>5, StateStep, CatalogStep, CleanStep
<1>6. CASE \E s \in Servers : Crash(s) /\ \A t \in Servers \ {s} : ~Up(t)
  BY <1>3, <1>4, <1>6, CrashStep
<1>7. CASE UNCHANGED vars
  <2>1. (\A s \in Servers : StateOK(s)) /\ CatalogOK /\ CleanOK
    BY <1>3 DEF Calm
  <2> QED
    BY <2>1, <1>7 DEF vars, serverVars, StateOK, CatalogOK, CleanOK, PrefixOK, InStep, Reconciles, Exists,
       Pending, Loaded, Ready, Started, Creating
<1> QED
  BY <1>1, <1>5, <1>6, <1>7

\* No Server is up and the thread has not been created.
LEMMA InitOK == Init => IInv
<1> SUFFICES ASSUME Init PROVE IInv
  OBVIOUS
<1>1. TypeOK
  <2>1. <<>> \in Seq(Kinds) /\ 0 \in 0..(MaxLen + 1)
    BY Constants
  <2> QED
    BY <2>1, Constants DEF TypeOK, Init
<1>2. \A s \in Servers : /\ ~Ready(s) /\ ~Loaded(s) /\ ~Pending(s) /\ ~Creating(s)
                         /\ writer[s] = 0 /\ task[s] = "none" /\ seen[s].place = "none"
                         /\ plan[s] = <<>> /\ stage[s] = "down"
  <2>1. NoRow.seq = 0 /\ NoRecord.seq = 0 /\ Unseen.place = "none"
    BY DEF NoRow, NoRecord, Unseen
  <2> SUFFICES ASSUME NEW s \in Servers
               PROVE  /\ ~Ready(s) /\ ~Loaded(s) /\ ~Pending(s) /\ ~Creating(s)
                      /\ writer[s] = 0 /\ task[s] = "none" /\ seen[s].place = "none"
                      /\ plan[s] = <<>> /\ stage[s] = "down"
    OBVIOUS
  <2>2. /\ stage[s] = "down" /\ plan[s] = <<>> /\ seen[s] = Unseen /\ state[s] = NoRow
        /\ writer[s] = 0 /\ unapplied[s] = NoRecord /\ task[s] = "none"
    BY DEF Init
  <2>3. ~Loaded(s) /\ ~Pending(s)
    BY <2>1, <2>2 DEF Loaded, Pending
  <2> QED
    BY <2>1, <2>2, <2>3 DEF Ready, Creating
<1>3. \A s \in Servers : StageOK(s)
  <2>1. <<>> \in Seq(Kinds \ {"created"})
    OBVIOUS
  <2> QED
    BY <1>2, <2>1 DEF StageOK
<1>4. \A s \in Servers : LeaseOK(s)
  BY <1>2, Constants DEF LeaseOK, Init
<1>5. BornOK
  BY <1>2 DEF BornOK, Made, Init
<1>6. Present = {}
  <2>1. ~Overlap /\ ~HandedOver
    BY <1>2 DEF Overlap, HandedOver
  <2>2. ~StartBeside
    BY <1>2 DEF StartBeside
  <2> QED
    BY <2>1, <2>2 DEF Present
<1>7. \A p \in Places : ~Exists(p) /\ file[p] = Absent
  BY DEF Init, Exists, Absent
<1>8. OneLog
  BY <1>7, Constants DEF OneLog, Places, Absent
<1>9. \A s \in Servers : WriterOK(s)
  <2> SUFFICES ASSUME NEW s \in Servers PROVE WriterOK(s)
    OBVIOUS
  <2>1. ~(writer[s] > 0)
    BY <1>2
  <2>2. ~Pending(s) /\ ~Loaded(s) /\ task[s] = "none" /\ stage[s] = "down"
    BY <1>2
  <2> QED
    BY <2>1, <2>2 DEF WriterOK
<1>10. \A s \in Servers : StateOK(s)
  BY <1>2 DEF StateOK, Init
<1>11. CatalogOK
  BY <1>2, <1>7 DEF CatalogOK, PrefixOK, Started, Init
<1>12. CleanOK
  <2>1. Clean(Fresh) /\ ViewOK(Fresh)
    BY CleanViews
  <2>2. \A p \in Places : file[p].view = Fresh
    BY <1>7 DEF Absent
  <2>3. "active" \in Places /\ "archived" \in Places
    BY DEF Places
  <2> QED
    BY <2>1, <2>2, <2>3 DEF CleanOK
<1>13. Begun
  BY DEF Begun, Init
<1> QED
  BY <1>1, <1>3, <1>4, <1>5, <1>6, <1>8, <1>9, <1>10, <1>11, <1>12, <1>13
  DEF IInv, AlwaysOK, LogOK, StepsOK

\* Every step keeps the invariant, what a cause no longer lets one say being
\* dropped in the step that records it.
LEMMA InvStep == IInv /\ [Next]_vars => IInv'
<1> SUFFICES ASSUME IInv, [Next]_vars PROVE IInv'
  OBVIOUS
<1>1. AlwaysOK /\ Present \subseteq causes /\ LogOK /\ StepsOK
  BY DEF IInv
<1>2. AlwaysOK' /\ Present' \subseteq causes'
  BY <1>1, AlwaysStep, CausesStep
<1>3. LogOK'
  BY <1>1, LogStep
<1>4. StepsOK'
  BY <1>1, StepsStep
<1> QED
  BY <1>2, <1>3, <1>4 DEF IInv

\* The invariant holds in every reachable state, for any number of Servers and
\* deaths.
THEOREM Invariance == Spec => []IInv
BY InitOK, InvStep, PTL DEF Spec

\* The store's state has its types, after any failures.
THEOREM TypeCorrect == Spec => []TypeOK
<1>1. IInv => TypeOK
  BY DEF IInv, AlwaysOK
<1> QED
  BY <1>1, Invariance, PTL

\* Over any number of restarts and deaths, those in the middle of a recovery
\* included, the thread has one log, and readPath accepts it from its first
\* record on, which whoever opened it is about to write: as long as no
\* lifecycle operation met a loaded thread, no two Servers kept a writer, no
\* write failed and no creator died between opening the log and writing to it.
THEOREM LogStaysReadable == Spec => []OneReadableLog
<1>1. IInv => OneReadableLog
  BY DEF IInv, LogOK, OneLog, Begun, OneReadableLog
<1> QED
  BY <1>1, Invariance, PTL

\* With nothing under way nobody is left to reconcile, so the row is that of
\* the whole log.
LEMMA QuietMeansInStep == IInv => CatalogInStep
<1> SUFFICES ASSUME IInv, causes = {}, Quiet
             PROVE  IF \E p \in Places : Exists(p)
                    THEN \E p \in Places :
                           Exists(p) /\ row = [seq |-> file[p].len, view |-> file[p].view]
                    ELSE row = NoRow
  BY DEF CatalogInStep
<1>1. CatalogOK /\ TypeOK
  BY DEF IInv, StepsOK, AlwaysOK
<1>2. PICK s \in Servers : Ready(s)
  BY DEF Quiet
<1>3. \A t \in Servers : ~Pending(t) /\ task[t] # "delete" /\ ~Reconciles(t)
  BY DEF Quiet, Reconciles, Reading
<1>4. InStep
  BY <1>1, <1>2, <1>3 DEF CatalogOK, Started, Ready
<1>5. ASSUME NEW p \in Places, Exists(p)
      PROVE  row = [seq |-> file[p].len, view |-> file[p].view]
  <2>1. row.seq = file[p].len - 0 /\ file[p].len \in Nat
    BY <1>1, <1>3, <1>4, <1>5, Shapes DEF InStep
  <2>2. row.seq = file[p].len
    BY <2>1
  <2>3. row.view = file[p].view
    BY <1>1, <1>5, <2>2 DEF CatalogOK, PrefixOK
  <2> QED
    BY <1>1, <2>2, <2>3 DEF TypeOK
<1>6. CASE \E p \in Places : Exists(p)
  BY <1>5, <1>6
<1>7. CASE ~\E p \in Places : Exists(p)
  BY <1>3, <1>4, <1>7 DEF InStep
<1> QED
  BY <1>6, <1>7

\* Between writes the row of the catalog is exactly what the log projects to,
\* and there is none without a log, although no transaction spans the two and a
\* Server may die between any two steps.
THEOREM CatalogFollowsLog == Spec => []CatalogInStep
BY QuietMeansInStep, Invariance, PTL

\* A thread that nobody has is clean in whichever place it is.
LEMMA RestingMeansClean == IInv => RecoveredClean
<1> SUFFICES ASSUME IInv, causes = {}, NEW s \in Servers, Ready(s), holder = Nobody,
                    NEW p \in Places
             PROVE  Clean(file[p].view)
  BY DEF RecoveredClean, Clean
<1>1. CleanOK
  BY DEF IInv, StepsOK
<1> QED
  BY <1>1 DEF CleanOK, Ready, Places

\* Once a Server has started, a thread that nobody has loaded shows no turn,
\* item or request in progress, however often a recovery of it was cut off.
THEOREM RecoveryCleans == Spec => []RecoveredClean
BY RestingMeansClean, Invariance, PTL
================================================================================
