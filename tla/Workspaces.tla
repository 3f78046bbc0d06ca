------------------------------ MODULE Workspaces ------------------------------
(***************************************************************************)
(* The workspaces of features/workspace: a row in the database, a          *)
(* directory with a checkout for each repository, and the worktrees that   *)
(* the mirrors of the repositories have registered.  Every operation is a  *)
(* sequence of calls to git, the file system and the database that nothing *)
(* undoes: each call is a step, may fail, and another operation, of this   *)
(* or of another Server, may run between two of them.                      *)
(*                                                                         *)
(* An operation works on the row it read when it began.  A workspace has a *)
(* kind with branches and its repositories one role.  Left out are         *)
(* sessions of tmux, the contents of docs and tmp, and what follows a      *)
(* change of the mount or of a repository's key: the branches of a repair  *)
(* that move the root or a checkout and update the row.                    *)
(* The places and the git operations are named first.                      *)
(***************************************************************************)
EXTENDS WorkspaceState, Sequences, FiniteSets

NoCheckout == [at |-> Nowhere, on |-> Nowhere, dirty |-> FALSE]
NoRoot == [exists |-> FALSE, checkout |-> [r \in Repos |-> NoCheckout]]
NoRow == [status |-> "none", name |-> Nowhere, root |-> Nowhere, branch |-> Nowhere,
          mode |-> [r \in Repos |-> "no"]]
Gone == [NoRow EXCEPT !.status = "deleted"]  \* what else a deleted row has is not used
NoOp == [kind |-> "none", id |-> Nowhere, w |-> NoRow, plan |-> <<>>, todo |-> {},
         force |-> FALSE, alone |-> TRUE, over |-> FALSE]
         \* alone, over: history, a repair that nothing has met, one that has
         \* passed over a checkout that the row lacks

Init ==
  /\ rowOf = [i \in WorkspaceIds |-> NoRow]
  /\ disk = [p \in Roots |-> NoRoot]
  /\ missing = [r \in Repos |-> {}]
  /\ op = [o \in Ops |-> NoOp]
  /\ disturbed = {}
  /\ everMet = {}
  /\ overlooked = {}
  /\ troubles = 0

Trouble == troubles < MaxTroubles /\ troubles' = troubles + 1

\* A checkout knows its worktree wherever it is; the mirror knows it by the
\* path that was registered, at, and has forgotten it when that is Nowhere.
There(p, r) == disk[p].checkout[r].on # Nowhere
Worktrees(r) == missing[r] \cup {[at |-> disk[p].checkout[r].at, on |-> disk[p].checkout[r].on] :
                                 p \in {q \in Roots : There(q, r) /\ disk[q].checkout[r].at # Nowhere}}

ActiveWith(n) == {i \in WorkspaceIds : rowOf[i].status = "active" /\ rowOf[i].name = n}

-----------------------------------------------------------------------------
(***************************************************************************)
(* The course of an operation                                              *)
(***************************************************************************)

Running(o, stage) == op[o].plan # <<>> /\ Head(op[o].plan) = stage

\* Operations that another one meets: they work on its row, or in a directory
\* that it has or will have.
Places(w) == {w.root} \cup IF w.status = "active" THEN {ActiveRoot(w.name)} ELSE {}
Others(o, i, w) == {p \in Ops \ {o} : op[p] # NoOp /\ (op[p].id = i \/ Places(op[p].w) \cap Places(w) # {})}

\* Repairs that are no longer alone.
Met(running, os) ==
  [o \in Ops |-> IF o \in os /\ running[o].kind = "repair" THEN [running[o] EXCEPT !.alone = FALSE]
                 ELSE running[o]]

\* Begin an operation on a row; two that meet disturb each other.
Begin(o, kind, i, w, plan, todo, force) ==
  /\ op' = Met([op EXCEPT ![o] = [kind |-> kind, id |-> i, w |-> w, plan |-> plan, todo |-> todo,
                                  force |-> force, alone |-> kind # "repair" \/ Others(o, i, w) = {},
                                  over |-> FALSE]],
                Others(o, i, w))
  /\ LET together == IF Others(o, i, w) = {} THEN {} ELSE {i} \cup {op[p].id : p \in Others(o, i, w)} IN
       disturbed' = disturbed \cup together /\ everMet' = everMet \cup together
  /\ IF \A p \in Ops : op[p] = NoOp THEN UNCHANGED troubles ELSE Trouble
  /\ UNCHANGED overlooked

\* A step of a stage, after which todo is left; with nothing left the next
\* stage begins, for all repositories of the workspace, or the operation ends.
Proceed(o, w, todo) ==
  LET v == op[o] IN
  op' = [op EXCEPT ![o] = IF todo # {} THEN [v EXCEPT !.w = w, !.todo = todo]
                          ELSE IF Len(v.plan) = 1 THEN NoOp
                          ELSE [v EXCEPT !.w = w, !.todo = Used(w), !.plan = Tail(v.plan)]]

\* A repair that ends without having met another ends the disturbance.
Healed(o, todo) ==
  IF op[o].kind = "repair" /\ Len(op[o].plan) = 1 /\ todo = {} /\ op[o].alone
  THEN /\ disturbed' = disturbed \ {op[o].id}
       /\ overlooked' = IF op[o].over THEN overlooked \cup {op[o].id} ELSE overlooked \ {op[o].id}
  ELSE UNCHANGED <<disturbed, overlooked>>

\* One repository is done.
Done(o, r, w) == Proceed(o, w, op[o].todo \ {r})

\* The workspace has no repositories.
NoneToDo(o) ==
  /\ op[o].plan # <<>> /\ op[o].todo = {}
  /\ Head(op[o].plan) \in {"attach", "remove", "detach", "repair", "restore"}
  /\ Proceed(o, op[o].w, {})
  /\ Healed(o, {})
  /\ UNCHANGED <<rowOf, disk, missing, everMet, troubles>>

\* A call fails, or the Server dies: what was done stays.
Fail(o) ==
  /\ op[o] # NoOp /\ Trouble
  /\ op' = [op EXCEPT ![o] = NoOp]
  /\ disturbed' = IF op[o].kind = "create" THEN disturbed ELSE disturbed \cup {op[o].id}
  /\ UNCHANGED <<rowOf, disk, missing, everMet, overlooked>>

-----------------------------------------------------------------------------
(***************************************************************************)
(* git worktree                                                            *)
(***************************************************************************)

\* worktree add: git refuses a path that is taken or registered and a branch
\* that another worktree has.
Addable(p, r, on) ==
  /\ ~There(p, r)
  /\ \A t \in Worktrees(r) : t.at # p /\ (on = Detached \/ t.on # on)
Added(p, r, on) ==
  disk' = [disk EXCEPT ![p].exists = TRUE,
                       ![p].checkout[r] = [at |-> p, on |-> on, dirty |-> FALSE]]

\* The worktrees that were registered at one of ps and whose checkout is not
\* there are forgotten.
Forget(d, r, ps) ==
  [q \in Roots |-> IF d[q].checkout[r].at \in ps \ {q} THEN [d[q] EXCEPT !.checkout[r].at = Nowhere]
                   ELSE d[q]]
Kept(r, ps) == [missing EXCEPT ![r] = {t \in @ : t.at \notin ps}]

\* What worktree prune forgets.
Prunable(r) == {p \in Roots : ~There(p, r)}

\* git works in a checkout whose worktree the mirror has, wherever it was
\* registered.
Usable(p, r) == There(p, r) /\ disk[p].checkout[r].at # Nowhere

\* The registrations once the directory p is gone.
Orphaned(p) ==
  [r \in Repos |-> IF ~Usable(p, r) THEN missing[r]
     ELSE missing[r] \cup {[at |-> disk[p].checkout[r].at, on |-> disk[p].checkout[r].on]}]

-----------------------------------------------------------------------------
(***************************************************************************)
(* Operations                                                              *)
(***************************************************************************)

Create(o, n, rs) ==
  \E i \in WorkspaceIds :
    LET w == [status |-> "active", name |-> n, root |-> ActiveRoot(n), branch |-> n,
              mode |-> [r \in Repos |-> "no"]] IN
    /\ rowOf[i].status = "none" /\ \A p \in Ops : op[p].id # i
    /\ ActiveWith(n) = {} /\ ~disk[ActiveRoot(n)].exists
    /\ Begin(o, "create", i, w, <<"mkdir", "attach", "insert">>, rs, FALSE)
    /\ UNCHANGED <<rowOf, disk, missing>>

AddRepos(o, i, rs, mode) ==
  /\ rowOf[i].status = "active" /\ rs \cap Used(rowOf[i]) = {}
  /\ Begin(o, mode, i, rowOf[i], <<"attach", "update">>, rs, FALSE)
  /\ UNCHANGED <<rowOf, disk, missing>>

RemoveRepos(o, i, rs, force) ==
  /\ rowOf[i].status = "active" /\ rs \subseteq Used(rowOf[i])
  /\ Begin(o, "remove", i, rowOf[i], <<"remove", "update">>, rs, force)
  /\ UNCHANGED <<rowOf, disk, missing>>

Rename(o, i, n) ==
  /\ rowOf[i].status = "active"
  /\ ActiveWith(n) = {} /\ ~disk[ActiveRoot(n)].exists
  /\ Begin(o, "rename", i, [rowOf[i] EXCEPT !.name = n], <<"move", "repair", "update">>, {}, FALSE)
  /\ UNCHANGED <<rowOf, disk, missing>>

Archive(o, i) ==
  /\ rowOf[i].status = "active" /\ ~disk[ArchiveRoot(i)].exists
  /\ Begin(o, "archive", i, rowOf[i], <<"clean", "detach", "move", "repair", "update">>, {}, FALSE)
  /\ UNCHANGED <<rowOf, disk, missing>>

Delete(o, i, force) ==
  /\ rowOf[i].status \in {"active", "archived"}
  /\ Begin(o, "delete", i, rowOf[i], <<"clean", "remove", "rm", "update">>, {}, force)
  /\ UNCHANGED <<rowOf, disk, missing>>

Repair(o, i) ==
  /\ rowOf[i].status \in {"active", "archived"}
  /\ Begin(o, "repair", i, rowOf[i], <<"check", "mkroot", "restore">>, {}, FALSE)
  /\ UNCHANGED <<rowOf, disk, missing>>

-----------------------------------------------------------------------------
(***************************************************************************)
(* Stages                                                                  *)
(***************************************************************************)

\* create: the directories, of which references must be new.
Mkdir(o) ==
  /\ Running(o, "mkdir") /\ ~disk[op[o].w.root].exists
  /\ disk' = [disk EXCEPT ![op[o].w.root].exists = TRUE]
  /\ op' = [op EXCEPT ![o].plan = Tail(@)]
  /\ UNCHANGED <<rowOf, missing, disturbed, everMet, overlooked, troubles>>

\* attachRepo: in the branch of the workspace, or detached.
Attach(o) ==
  \E r \in op[o].todo :
    LET mode == IF op[o].kind = "detached" THEN "detached" ELSE "branch"
        w == [op[o].w EXCEPT !.mode[r] = mode] IN
    /\ Running(o, "attach") /\ Addable(w.root, r, On(w, r))
    /\ Added(w.root, r, On(w, r)) /\ Done(o, r, w)
    /\ UNCHANGED <<rowOf, missing, disturbed, everMet, overlooked, troubles>>

\* MUTANT of Remove: git is always forced.
RemoveForced(o) ==
  \E r \in op[o].todo :
    LET w == op[o].w
        p == w.root IN
    /\ Running(o, "remove") /\ \E t \in Worktrees(r) : t.at = p
    /\ There(p, r) => disk[p].checkout[r].at = p
    /\ disk' = Forget([disk EXCEPT ![p].checkout[r] = NoCheckout], r, {p})
    /\ missing' = Kept(r, {p})
    /\ Done(o, r, IF op[o].kind = "remove" THEN [w EXCEPT !.mode[r] = "no"] ELSE w)
    /\ UNCHANGED <<rowOf, disturbed, everMet, overlooked, troubles>>

\* worktree remove: git looks for changes itself, unless it is forced.
Remove(o) ==
  \E r \in op[o].todo :
    LET w == op[o].w
        p == w.root IN
    /\ Running(o, "remove") /\ \E t \in Worktrees(r) : t.at = p
    /\ There(p, r) => /\ disk[p].checkout[r].at = p
                      /\ op[o].force \/ ~disk[p].checkout[r].dirty
    /\ disk' = Forget([disk EXCEPT ![p].checkout[r] = NoCheckout], r, {p})
    /\ missing' = Kept(r, {p})
    /\ Done(o, r, IF op[o].kind = "remove" THEN [w EXCEPT !.mode[r] = "no"] ELSE w)
    /\ UNCHANGED <<rowOf, disturbed, everMet, overlooked, troubles>>

\* assertClean.
Clean(o) ==
  /\ Running(o, "clean")
  /\ op[o].force \/ \A r \in Used(op[o].w) : Usable(op[o].w.root, r) /\ ~disk[op[o].w.root].checkout[r].dirty
  /\ Proceed(o, op[o].w, {})
  /\ UNCHANGED <<rowOf, disk, missing, disturbed, everMet, overlooked, troubles>>

\* archive: switch --detach in each checkout.
Detach(o) ==
  \E r \in op[o].todo :
    LET w == op[o].w IN
    /\ Running(o, "detach") /\ Usable(w.root, r)
    /\ disk' = [disk EXCEPT ![w.root].checkout[r].on = Detached]
    /\ Done(o, r, [w EXCEPT !.mode[r] = "detached"])
    /\ UNCHANGED <<rowOf, missing, disturbed, everMet, overlooked, troubles>>

\* rename and archive: the directory is moved, with all that is in it.
Move(o) ==
  LET from == op[o].w.root
      to   == IF op[o].kind = "archive" THEN ArchiveRoot(op[o].id) ELSE ActiveRoot(op[o].w.name) IN
  /\ Running(o, "move") /\ disk[from].exists /\ ~disk[to].exists
  /\ disk' = [disk EXCEPT ![to] = disk[from], ![from] = NoRoot]
  /\ Proceed(o, [op[o].w EXCEPT !.root = to,
                                !.status = IF op[o].kind = "archive" THEN "archived" ELSE op[o].w.status], {})
  /\ UNCHANGED <<rowOf, missing, disturbed, everMet, overlooked, troubles>>

\* MUTANT of RepairPath: the mirror keeps the old path.
RepairPathNot(o) ==
  \E r \in op[o].todo :
    /\ Running(o, "repair") /\ Usable(op[o].w.root, r)
    /\ Done(o, r, op[o].w) /\ UNCHANGED <<rowOf, disk, missing, disturbed, everMet, overlooked, troubles>>

RepairPath(o) ==
  \E r \in op[o].todo :
    /\ Running(o, "repair") /\ Usable(op[o].w.root, r)
    /\ disk' = [disk EXCEPT ![op[o].w.root].checkout[r].at = op[o].w.root]
    /\ Done(o, r, op[o].w)
    /\ UNCHANGED <<rowOf, missing, disturbed, everMet, overlooked, troubles>>

\* delete: the directory goes, whatever is in it.
Rm(o) ==
  LET p == op[o].w.root IN
  /\ Running(o, "rm") /\ disk[p].exists
  /\ missing' = Orphaned(p)
  /\ disk' = [disk EXCEPT ![p] = NoRoot]
  /\ Proceed(o, [op[o].w EXCEPT !.status = "deleted"], {})
  /\ UNCHANGED <<rowOf, disturbed, everMet, overlooked, troubles>>

\* insert and update: the row becomes what the operation has made of the one it
\* read; the selector of an active workspace is unique.
Update(o) ==
  LET w == op[o].w IN
  /\ Running(o, "insert") \/ Running(o, "update")
  /\ w.status = "active" => ActiveWith(w.name) \subseteq {op[o].id}
  /\ rowOf' = [rowOf EXCEPT ![op[o].id] = IF w.status = "deleted" THEN Gone ELSE w]
  /\ op' = [op EXCEPT ![o] = NoOp]
  /\ UNCHANGED <<disk, missing, disturbed, everMet, overlooked, troubles>>

\* repair: checkouts that the row does not have stop it, but it compares first
\* segments of keys only.
Check(o) ==
  LET w == op[o].w
      unmanaged == {r \in Repos : There(w.root, r)} \ Used(w) IN
  /\ Running(o, "check") /\ \A r \in unmanaged : \E s \in Used(w) : Beside(r, s)
  /\ op' = [op EXCEPT ![o].plan = Tail(@), ![o].todo = Used(w), ![o].over = unmanaged # {}]
  /\ UNCHANGED <<rowOf, disk, missing, disturbed, everMet, overlooked, troubles>>

MkRoot(o) ==
  /\ Running(o, "mkroot")
  /\ disk' = [disk EXCEPT ![op[o].w.root].exists = TRUE]
  /\ Proceed(o, op[o].w, {})
  /\ UNCHANGED <<rowOf, missing, disturbed, everMet, overlooked, troubles>>

\* A checkout that is there must be as the row says; worktree repair, if
\* nothing is registered at its path.
Keep(p, r, on) ==
  /\ Usable(p, r) /\ disk[p].checkout[r].on = on
  /\ disk' = IF \E t \in Worktrees(r) : t.at = p THEN disk
             ELSE [disk EXCEPT ![p].checkout[r].at = p]
  /\ UNCHANGED missing

\* One that is not there is made again: worktree prune, worktree add.
Again(p, r, on) ==
  /\ ~There(p, r)
  /\ on # Detached => \A t \in Worktrees(r) : t.at \in Prunable(r) \/ t.on # on
  /\ disk' = [Forget(disk, r, Prunable(r)) EXCEPT
               ![p].exists = TRUE, ![p].checkout[r] = [at |-> p, on |-> on, dirty |-> FALSE]]
  /\ missing' = Kept(r, Prunable(r))

Restore(o) ==
  \E r \in op[o].todo :
    /\ Running(o, "restore")
    /\ \/ Keep(op[o].w.root, r, On(op[o].w, r))
       \/ Again(op[o].w.root, r, On(op[o].w, r))
    /\ Done(o, r, op[o].w)
    /\ Healed(o, op[o].todo \ {r})
    /\ UNCHANGED <<rowOf, everMet, troubles>>

-----------------------------------------------------------------------------
(***************************************************************************)
(* The user                                                                *)
(***************************************************************************)

\* Works in a checkout, and commits.
Edit(p, r) ==
  /\ There(p, r)
  /\ disk' = [disk EXCEPT ![p].checkout[r].dirty = ~@]
  /\ IF disk[p].checkout[r].dirty THEN UNCHANGED troubles ELSE Trouble
  /\ UNCHANGED <<rowOf, missing, op, disturbed, everMet, overlooked>>

\* Removes a directory, while no operation runs.
Lose(p) ==
  /\ disk[p].exists /\ (\A o \in Ops : op[o] = NoOp) /\ Trouble
  /\ missing' = Orphaned(p)
  /\ disk' = [disk EXCEPT ![p] = NoRoot]
  /\ disturbed' = disturbed \cup {i \in WorkspaceIds : rowOf[i].root = p}
  /\ UNCHANGED <<rowOf, op, everMet, overlooked>>

-----------------------------------------------------------------------------

\* An operation begins where none runs.
Start(o) ==
  /\ op[o] = NoOp
  /\ \/ \E n \in Names, rs \in SUBSET Repos : Create(o, n, rs)
     \/ \E i \in WorkspaceIds :
          \/ \E rs \in SUBSET Repos \ {{}} :
               \/ \E mode \in {"branch", "detached"} : AddRepos(o, i, rs, mode)
               \/ \E force \in BOOLEAN : RemoveRepos(o, i, rs, force)
          \/ \E n \in Names : Rename(o, i, n)
          \/ Archive(o, i) \/ Repair(o, i)
          \/ \E force \in BOOLEAN : Delete(o, i, force)

\* One that runs goes on, or ends.
Continue(o) ==
  /\ op[o] # NoOp
  /\ \/ Mkdir(o) \/ Attach(o) \/ Remove(o) \/ Clean(o) \/ Detach(o) \/ Move(o) \/ RepairPath(o)
     \/ Rm(o) \/ Update(o) \/ Check(o) \/ MkRoot(o) \/ Restore(o) \/ NoneToDo(o) \/ Fail(o)

Next ==
  \/ \E o \in Ops : Start(o) \/ Continue(o)
  \/ \E p \in Roots : Lose(p) \/ \E r \in Repos : Edit(p, r)

Spec == Init /\ [][Next]_workspaceVars

-----------------------------------------------------------------------------

Paths == Roots \cup {Nowhere}
Row == [status : {"none", "active", "archived", "deleted"}, name : Names \cup {Nowhere},
        root : Paths, branch : Names \cup {Nowhere},
        mode : [Repos -> {"no", "branch", "detached"}]]
Checkout == [at : Paths, on : Names \cup {Detached, Nowhere}, dirty : BOOLEAN]
Root == [exists : BOOLEAN, checkout : [Repos -> Checkout]]
Kinds == {"none", "create", "branch", "detached", "remove", "rename", "archive", "delete", "repair"}
Stages == {"mkdir", "attach", "insert", "update", "remove", "move", "repair", "clean", "detach",
           "rm", "check", "mkroot", "restore"}
Operation == [kind : Kinds, id : WorkspaceIds \cup {Nowhere}, w : Row, plan : Seq(Stages), todo : SUBSET Repos,
              force : BOOLEAN, alone : BOOLEAN, over : BOOLEAN]

TypeOK ==
  /\ rowOf \in [WorkspaceIds -> Row]
  /\ disk \in [Roots -> Root]
  /\ missing \in [Repos -> SUBSET [at : Roots, on : Names \cup {Detached}]]
  /\ op \in [Ops -> Operation]
  /\ disturbed \subseteq WorkspaceIds /\ everMet \subseteq WorkspaceIds
  /\ overlooked \subseteq WorkspaceIds
=============================================================================
