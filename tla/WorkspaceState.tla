---------------------------- MODULE WorkspaceState ----------------------------
(***************************************************************************)
(* What a workspace is, and what is promised of it: a row in the database, *)
(* a directory with a checkout for each repository, and the worktrees that *)
(* the mirrors of the repositories have registered.  The operations are in *)
(* Workspaces.                                                             *)
(***************************************************************************)
EXTENDS Naturals

CONSTANTS
  WorkspaceIds, \* the workspaces, in the order of their creation
  Names,        \* their selectors; a branch has the selector's name
  Repos,        \* the registered repositories
  Segments,     \* sets of those whose keys begin with one segment
  Ops,          \* operations that run at a time
  MaxTroubles,  \* bound on operations that fail or meet another, changes and losses
  Detached,     \* the HEAD of a checkout without branch
  Nowhere       \* no path

\* A name in Names is never an id, so that directories differ by whose they are.
ASSUME WorkspacesAssumption ==
  /\ MaxTroubles \in Nat
  /\ Names \cap WorkspaceIds = {}
  /\ Nowhere \notin Names \cup WorkspaceIds
  /\ Detached \notin Names \cup {Nowhere}

VARIABLES
  rowOf,     \* the workspaces of the database
  disk,      \* the directories
  missing,   \* worktrees registered in a mirror whose checkout nobody has
  op,        \* the operations that run
  disturbed, \* history: workspaces with an operation that failed or that met another
  everMet,   \* history: those of which one has ever met another
  overlooked, \* history: those whose last repair passed over a checkout that the row lacks
  troubles   \* how many there have been

workspaceVars == <<rowOf, disk, missing, op, disturbed, everMet, overlooked, troubles>>

\* The directory of an active workspace has its selector's name, that of an
\* archived one its id.
ActiveRoot(n) == n
ArchiveRoot(i) == i
Roots == Names \cup WorkspaceIds

\* The mode of a repository in a row, and the HEAD of its checkout.
On(w, r) == IF w.mode[r] = "branch" THEN w.branch ELSE Detached
Used(w) == {r \in Repos : w.mode[r] # "no"}

\* Keys with one first segment, as acme/web and acme/api have.
Beside(r, s) == \E S \in Segments : {r, s} \subseteq S

-----------------------------------------------------------------------------

\* The row of an undisturbed workspace says what is on the disk and, if none of
\* its operations has ever met another, what the mirrors have registered.  A
\* repair that ends well ends the disturbance: it has made them agree, whatever
\* had failed before.  Excepted is a checkout that the repair has passed over:
\* of a repository that the row lacks, with a key that begins as one it has.
RowsAgree ==
  \A i \in WorkspaceIds \ disturbed :
    rowOf[i].status \in {"active", "archived"} /\ (\A o \in Ops : op[o].id # i) =>
      /\ disk[rowOf[i].root].exists
      /\ \A r \in Used(rowOf[i]) : disk[rowOf[i].root].checkout[r].on = On(rowOf[i], r)
      /\ i \notin overlooked =>
           \A r \in Repos \ Used(rowOf[i]) : disk[rowOf[i].root].checkout[r].on = Nowhere
      /\ i \notin everMet => \A r \in Used(rowOf[i]) : disk[rowOf[i].root].checkout[r].at = rowOf[i].root

\* What a delete or a remove that is not forced leaves as it was.
Unforced(o) == op[o].kind \in {"delete", "remove"} /\ ~op[o].force /\ op'[o] # op[o]
Keeps(o, r) == LET c == disk[op[o].w.root].checkout[r] IN c.dirty => disk'[op[o].w.root].checkout[r] = c

\* Neither takes uncommitted work from a checkout that the row has, not even
\* what was written after the checkouts had been found clean (assertClean,
\* then git's own refusal).  Excepted are the disturbed workspaces.
RecordedWorkIsKept ==
  [][\A o \in Ops : Unforced(o) /\ op[o].id \notin disturbed =>
       \A r \in Used(op[o].w) : Keeps(o, r)]_workspaceVars

\* Nor from any other in the directory.  Refuted: a checkout that the row lacks,
\* since adding it failed half-way or ran beside the delete, is not looked at
\* and goes with the directory.
WorkIsKept == [][\A o \in Ops : Unforced(o) => \A r \in Repos : Keeps(o, r)]_workspaceVars
=============================================================================
