----------------------------- MODULE Repositories -----------------------------
(***************************************************************************)
(* The managed repositories (features/workspace/repositories.ts): rows in  *)
(* the database and bare mirrors on disk, changed by callers of several    *)
(* connections and Servers.  A call to git is a step; what is between two  *)
(* of them, the database included, happens at once.                        *)
(*                                                                         *)
(* A mirror is what the properties tell apart: whether it is there and     *)
(* complete, with its baseline, and the URL of its remote "origin".        *)
(* Whether a workspace uses a repository is the module Workspaces' matter. *)
(***************************************************************************)
EXTENDS Naturals, FiniteSets

CONSTANTS
  Ids,     \* the repositories that are made
  Keys,    \* their keys
  Urls,    \* the URLs of remotes
  Callers, \* each makes one call at a time
  MaxCalls \* bound: the calls

NoUrl  == 0
NoRepo == 0

\* What an instance assumes of its constants.
Assumption ==
  NoUrl \notin Urls /\ NoRepo \notin Ids /\ "none" \notin Keys /\ MaxCalls \in Nat

VARIABLES
  rows,    \* the table of repositories
  mirrors, \* the directories
  call,    \* each caller's call: what it does next, to which repository, with the row it has read
  calls,   \* how many calls there have been
  named,   \* history: the key each repository was last given
  crossed, \* history: the repositories that two calls were under way with
  cut      \* history: those at which a call ended half-way

repoVars == <<rows, mirrors, call, calls, named, crossed, cut>>

NoRow    == [key |-> "none"]
NoMirror == [at |-> "none", origin |-> NoUrl]
Idle     == [next |-> "none", id |-> NoRepo, row |-> NoRow, url |-> NoUrl]

Init ==
  /\ rows = [i \in Ids |-> NoRow] /\ mirrors = [i \in Ids |-> NoMirror]
  /\ call = [c \in Callers |-> Idle] /\ calls = 0
  /\ named = [i \in Ids |-> "none"] /\ crossed = {} /\ cut = {}

Taken(key) == \E i \in Ids : rows[i] # NoRow /\ rows[i].key = key

\* A call begins: require finds the row, which the call keeps.
Begins(c, i, next, url) ==
  /\ call[c] = Idle /\ calls < MaxCalls /\ calls' = calls + 1
  /\ call' = [call EXCEPT ![c] = [next |-> next, id |-> i, row |-> rows[i], url |-> url]]
  /\ crossed' = IF \E d \in Callers \ {c} : call[d].id = i THEN crossed \cup {i} ELSE crossed

At(c, next)   == call[c].next = next
Goes(c, next) == call' = [call EXCEPT ![c].next = next]
Ends(c)       == call' = [call EXCEPT ![c] = Idle]

\* importLocal, importRemote, importBundle, createManaged: git makes the mirror.
Add(c, i, key, url) ==
  /\ ~Taken(key) /\ mirrors[i] = NoMirror /\ named[i] = "none"
  /\ Begins(c, i, "fill", url)
  /\ mirrors' = [mirrors EXCEPT ![i] = [at |-> "partial", origin |-> NoUrl]]
  /\ named' = [named EXCEPT ![i] = key]
  /\ UNCHANGED <<rows, cut>>

\* clone or fetch, and updateBaseline.
Fill(c) ==
  /\ At(c, "fill") /\ Goes(c, "insert")
  /\ mirrors' = [mirrors EXCEPT ![call[c].id] = [at |-> "ready", origin |-> call[c].url]]
  /\ UNCHANGED <<rows, calls, named, crossed, cut>>

\* The key is unique in the database.
Insert(c) ==
  /\ At(c, "insert")
  /\ LET i == call[c].id
     IN IF Taken(named[i]) THEN Goes(c, "clean") /\ UNCHANGED rows
        ELSE rows' = [rows EXCEPT ![i] = [key |-> named[i], url |-> call[c].url]] /\ Ends(c)
  /\ UNCHANGED <<mirrors, calls, named, crossed, cut>>

\* cleanupFailedMirror.
Clean(c) ==
  /\ At(c, "clean") /\ Ends(c)
  /\ mirrors' = [mirrors EXCEPT ![call[c].id] = NoMirror]
  /\ UNCHANGED <<rows, calls, named, crossed, cut>>

\* remove: the row, then the directory.
Remove(c, i) ==
  /\ rows[i] # NoRow
  /\ Begins(c, i, "removeMirror", NoUrl)
  /\ rows' = [rows EXCEPT ![i] = NoRow]
  /\ UNCHANGED <<mirrors, named, cut>>

RemoveMirror(c) ==
  /\ At(c, "removeMirror") /\ Ends(c)
  /\ mirrors' = [mirrors EXCEPT ![call[c].id] = NoMirror]
  /\ UNCHANGED <<rows, calls, named, crossed, cut>>

\* rename awaits nothing.
Rename(c, i, key) ==
  /\ rows[i] # NoRow /\ ~Taken(key)
  /\ call[c] = Idle /\ calls < MaxCalls /\ calls' = calls + 1
  /\ rows' = [rows EXCEPT ![i].key = key]
  /\ named' = [named EXCEPT ![i] = key]
  /\ crossed' = IF \E d \in Callers : call[d].id = i THEN crossed \cup {i} ELSE crossed
  /\ UNCHANGED <<mirrors, call, cut>>

\* fetch, fetchLocal and the calls about the remote.
Fetch(c, i) ==
  /\ rows[i] # NoRow /\ rows[i].url # NoUrl /\ Begins(c, i, "sync", rows[i].url)
  /\ UNCHANGED <<rows, mirrors, named, cut>>
FetchLocal(c, i) ==
  /\ rows[i] # NoRow /\ Begins(c, i, "fetchPath", rows[i].url)
  /\ UNCHANGED <<rows, mirrors, named, cut>>
RemoteAdd(c, i, url) ==
  /\ rows[i] # NoRow /\ rows[i].url = NoUrl /\ Begins(c, i, "addOrigin", url)
  /\ UNCHANGED <<rows, mirrors, named, cut>>
RemoteSet(c, i, url) ==
  /\ rows[i] # NoRow /\ rows[i].url # NoUrl /\ Begins(c, i, "setOrigin", url)
  /\ UNCHANGED <<rows, mirrors, named, cut>>
RemoteRemove(c, i) ==
  /\ rows[i] # NoRow /\ rows[i].url # NoUrl /\ Begins(c, i, "setOrigin", NoUrl)
  /\ UNCHANGED <<rows, mirrors, named, cut>>

Origin(i) == mirrors[i].origin
Adding(c) == call[c].row.url = NoUrl /\ call[c].url # NoUrl

\* git remote add, which fails if there is one, and what is caught is undone.
AddOrigin(c) ==
  /\ At(c, "addOrigin")
  /\ LET i == call[c].id
     IN IF mirrors[i].at = "ready" /\ Origin(i) = NoUrl
        THEN mirrors' = [mirrors EXCEPT ![i].origin = call[c].url] /\ Goes(c, "sync")
        ELSE Goes(c, "undo") /\ UNCHANGED mirrors
  /\ UNCHANGED <<rows, calls, named, crossed, cut>>

\* git remote set-url and git remote remove fail if there is none.
SetOrigin(c) ==
  /\ At(c, "setOrigin")
  /\ LET i == call[c].id
     IN IF Origin(i) # NoUrl
        THEN mirrors' = [mirrors EXCEPT ![i].origin = call[c].url] /\ Goes(c, "update")
        ELSE Ends(c) /\ UNCHANGED mirrors
  /\ UNCHANGED <<rows, calls, named, crossed, cut>>

\* syncOrigin, or the fetch from a path: it needs the mirror, and its origin.
Sync(c) ==
  /\ At(c, "sync") \/ At(c, "fetchPath")
  /\ LET i == call[c].id
     IN IF mirrors[i].at = "ready" /\ (At(c, "sync") => Origin(i) # NoUrl)
        THEN Goes(c, "update") ELSE IF Adding(c) THEN Goes(c, "undo") ELSE Ends(c)
  /\ UNCHANGED <<rows, mirrors, calls, named, crossed, cut>>

\* update writes the row that was read, with what the call changes; the row may
\* be gone or its key taken.
Update(c) ==
  /\ At(c, "update")
  /\ LET i    == call[c].id
         key  == call[c].row.key
         free == \A j \in Ids \ {i} : rows[j] # NoRow => rows[j].key # key
     IN IF rows[i] # NoRow /\ free
        THEN rows' = [rows EXCEPT ![i] = [key |-> key, url |-> call[c].url]] /\ Ends(c)
        ELSE (IF Adding(c) THEN Goes(c, "undo") ELSE Ends(c)) /\ UNCHANGED rows
  /\ UNCHANGED <<mirrors, calls, named, crossed, cut>>

\* MUTANT of Undo: an origin that was not recorded stays.
UndoNothing(c) ==
  /\ At(c, "undo") /\ Ends(c)
  /\ UNCHANGED <<rows, mirrors, calls, named, crossed, cut>>

\* The rollback of remoteAdd removes the origin, whose ever it is.
Undo(c) ==
  /\ At(c, "undo") /\ Ends(c)
  /\ mirrors' = [mirrors EXCEPT ![call[c].id].origin = NoUrl]
  /\ UNCHANGED <<rows, calls, named, crossed, cut>>

\* A call to git or to the database fails.
Fails(c) ==
  /\ ~(call[c].next \in {"none", "undo", "clean", "removeMirror"})
  /\ IF call[c].next \in {"fill", "insert"} THEN Goes(c, "clean") /\ UNCHANGED cut
     ELSE IF Adding(c) THEN Goes(c, "undo") /\ UNCHANGED cut
     ELSE /\ Ends(c)
          /\ cut' = IF At(c, "update") THEN cut \cup {call[c].id} ELSE cut
  /\ UNCHANGED <<rows, mirrors, calls, named, crossed>>

\* The Server of a caller dies, or what was to undo or to clean fails.
Dies(c) ==
  /\ call[c] # Idle /\ Ends(c)
  /\ cut' = cut \cup {call[c].id}
  /\ UNCHANGED <<rows, mirrors, calls, named, crossed>>

Next ==
  \/ \E c \in Callers, i \in Ids :
       \/ \E key \in Keys, url \in Urls \cup {NoUrl} : Add(c, i, key, url)
       \/ \E key \in Keys : Rename(c, i, key)
       \/ \E url \in Urls : RemoteAdd(c, i, url) \/ RemoteSet(c, i, url)
       \/ RemoteRemove(c, i) \/ Fetch(c, i) \/ FetchLocal(c, i) \/ Remove(c, i)
  \/ \E c \in Callers :
       \/ Fill(c) \/ Insert(c) \/ Clean(c) \/ RemoveMirror(c) \/ AddOrigin(c) \/ SetOrigin(c)
       \/ Sync(c) \/ Update(c) \/ Undo(c) \/ Fails(c) \/ Dies(c)

Spec == Init /\ [][Next]_repoVars

-----------------------------------------------------------------------------
RowType == [key : Keys, url : Urls \cup {NoUrl}] \cup {NoRow}
Nexts   == {"fill", "insert", "clean", "removeMirror", "sync", "fetchPath", "addOrigin",
            "setOrigin", "update", "undo"}
Calls   == [next : Nexts, id : Ids, row : RowType, url : Urls \cup {NoUrl}]

\* The type of every variable.
TypeOK ==
  /\ rows \in [Ids -> RowType]
  /\ mirrors \in [Ids -> [at : {"none", "partial", "ready"}, origin : Urls \cup {NoUrl}]]
  /\ call \in [Callers -> Calls \cup {Idle}]
  /\ calls \in 0..MaxCalls
  /\ named \in [Ids -> Keys \cup {"none"}] /\ crossed \subseteq Ids /\ cut \subseteq Ids

\* What has a row has a complete mirror, and no two rows have one key,
\* whoever adds, removes, fails or dies at the same time.
RowHasMirror ==
  \A i \in Ids : rows[i] # NoRow =>
    /\ mirrors[i].at = "ready"
    /\ \A j \in Ids \ {i} : rows[j] # NoRow => rows[j].key # rows[i].key

Resting(i) == rows[i] # NoRow /\ \A c \in Callers : call[c].id # i

\* The row of a repository that is at rest tells its origin and has the key it
\* was given, whatever has failed, unless two calls were at it at once, or one
\* ended half-way.
RowIsAsSaid ==
  \A i \in Ids \ (crossed \cup cut) :
    Resting(i) => rows[i] = [key |-> named[i], url |-> Origin(i)]

\* The same for calls that meet, which refute it: the rollback of one remoteAdd
\* removes the origin of another (repositories.ts:267), and a fetch writes back
\* the key it has read (repositories.ts:140).
RowIsAsSaidToAll ==
  \A i \in Ids \ cut : Resting(i) => rows[i] = [key |-> named[i], url |-> Origin(i)]
=============================================================================
