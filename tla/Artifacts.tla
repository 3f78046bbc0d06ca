------------------------------ MODULE Artifacts -------------------------------
(***************************************************************************)
(* One content of the artifact store (features/artifact/store.ts): its     *)
(* file, its row and the references to it, with callers that put the same  *)
(* content and collectors, one for each Server that starts or closes.  The *)
(* Servers share the database and the directory; each statement and each   *)
(* file-system call is a step, and whoever is under way may die.           *)
(***************************************************************************)
EXTENDS Naturals, FiniteSets

CONSTANTS
  Putters,    \* calls of put, each with an owner of its own
  Collectors, \* calls of deleteExpiredReferences
  Faults      \* BOOLEAN: calls may fail and processes may die

\* What an instance assumes of its constants.
Assumption == IsFiniteSet(Putters) /\ Putters \cap Collectors = {} /\ Faults \in BOOLEAN

VARIABLES
  file,    \* the file is there
  row,     \* the row in artifacts is there
  refs,    \* the owners in artifact_references
  put,     \* where each put is
  made,    \* the puts that have created the file
  collect, \* where each collector is
  old,     \* the owners whose reference has come of age
  met,     \* history: the puts that have been under way with another one
  crossed  \* history: a collection or an undone put has met another put

artifactVars == <<file, row, refs, put, made, collect, old, met, crossed>>

\* The state is the program's at a first start.
Init ==
  /\ file = FALSE /\ row = FALSE /\ refs = {}
  /\ put = [p \in Putters |-> "idle"] /\ made = {}
  /\ collect = [c \in Collectors |-> "idle"]
  /\ old = {} /\ met = {} /\ crossed = FALSE

Putting    == {p \in Putters : put[p] \notin {"idle", "done", "failed"}}
Collecting == {c \in Collectors : collect[c] \notin {"idle", "done"}}

\* A put and what removes a file have been under way at once.
Crosses ==
  /\ met' = IF Cardinality(Putting') > 1 THEN met \cup Putting' ELSE met
  /\ crossed' = (crossed \/ (Putting' # {} /\ Collecting' # {})
                         \/ \E p \in met' : put'[p] = "undoing")

To(p, at) == put' = [put EXCEPT ![p] = at]

\* put: is there a row already?
Find(p) ==
  /\ put[p] = "idle"
  /\ To(p, IF row THEN "verifying" ELSE "probing")
  /\ UNCHANGED <<file, row, refs, made, collect, old>>

\* verify reads the file.
Verify(p) ==
  /\ put[p] = "verifying"
  /\ To(p, IF file THEN "adding" ELSE "failed")
  /\ UNCHANGED <<file, row, refs, made, collect, old>>

\* addReference: the foreign key refuses a row that is gone.
AddReference(p) ==
  /\ put[p] = "adding"
  /\ To(p, IF row THEN "done" ELSE "failed")
  /\ refs' = IF row THEN refs \cup {p} ELSE refs
  /\ UNCHANGED <<file, row, made, collect, old>>

\* writeContent: a file that is there is taken.
Probe(p) ==
  /\ put[p] = "probing"
  /\ To(p, IF file THEN "inserting" ELSE "writing")
  /\ UNCHANGED <<file, row, refs, made, collect, old>>

\* The temporary file is renamed to its place.
WriteContent(p) ==
  /\ put[p] = "writing"
  /\ file' = TRUE /\ made' = made \cup {p}
  /\ To(p, "inserting")
  /\ UNCHANGED <<row, refs, collect, old>>

\* The transaction makes the row, unless another has, and the reference.
Insert(p) ==
  /\ put[p] = "inserting"
  /\ row' = TRUE /\ refs' = refs \cup {p}
  /\ To(p, "done")
  /\ UNCHANGED <<file, made, collect, old>>

\* The transaction fails, and a file that this call created is removed.
InsertFails(p) ==
  /\ Faults /\ put[p] = "inserting"
  /\ To(p, IF p \in made THEN "undoing" ELSE "failed")
  /\ UNCHANGED <<file, row, refs, made, collect, old>>

Undo(p) ==
  /\ put[p] = "undoing"
  /\ file' = FALSE
  /\ To(p, "failed")
  /\ UNCHANGED <<row, refs, made, collect, old>>

\* ARTIFACT_RETENTION_MS have passed since the reference was added.
Age(p) ==
  /\ put[p] = "done" /\ p \notin old
  /\ old' = old \cup {p}
  /\ UNCHANGED <<file, row, refs, put, made, collect>>

CollectTo(c, at) == collect' = [collect EXCEPT ![c] = at]

\* deleteExpiredReferences.
DeleteExpired(c) ==
  /\ collect[c] = "idle"
  /\ refs' = refs \ old
  /\ CollectTo(c, "selecting")
  /\ UNCHANGED <<file, row, put, made, old>>

\* deleteUnreferenced selects the rows to which nothing refers.
Select(c) ==
  /\ collect[c] = "selecting"
  /\ CollectTo(c, IF row /\ refs = {} THEN "deleting" ELSE "done")
  /\ UNCHANGED <<file, row, refs, put, made, old>>

\* MUTANT of DeleteRow: the file goes first.
DeleteFileFirst(c) ==
  /\ collect[c] = "deleting"
  /\ file' = FALSE
  /\ CollectTo(c, "removing")
  /\ UNCHANGED <<row, refs, put, made, old>>

\* The row goes, whatever refers to it by now, and its references with it.
DeleteRow(c) ==
  /\ collect[c] = "deleting"
  /\ row' = FALSE /\ refs' = {}
  /\ CollectTo(c, "removing")
  /\ UNCHANGED <<file, put, made, old>>

RemoveFile(c) ==
  /\ collect[c] = "removing"
  /\ file' = FALSE
  /\ CollectTo(c, "done")
  /\ UNCHANGED <<row, refs, put, made, old>>

\* A Server dies with what it was doing.
Die ==
  /\ Faults
  /\ \/ \E p \in Putting : To(p, "failed") /\ UNCHANGED collect
     \/ \E c \in Collecting : CollectTo(c, "done") /\ UNCHANGED put
  /\ UNCHANGED <<file, row, refs, made, old>>

Next ==
  /\ \/ \E p \in Putters :
          \/ Find(p) \/ Verify(p) \/ AddReference(p) \/ Probe(p) \/ WriteContent(p)
          \/ Insert(p) \/ InsertFails(p) \/ Undo(p) \/ Age(p)
     \/ \E c \in Collectors :
          DeleteExpired(c) \/ Select(c) \/ DeleteRow(c) \/ RemoveFile(c)
     \/ Die
  /\ Crosses

Spec == Init /\ [][Next]_artifactVars

-----------------------------------------------------------------------------
\* The type of every variable.
TypeOK ==
  /\ file \in BOOLEAN /\ row \in BOOLEAN /\ crossed \in BOOLEAN
  /\ refs \subseteq Putters /\ met \subseteq Putters /\ made \subseteq Putters /\ old \subseteq Putters
  /\ put \in [Putters -> {"idle", "verifying", "probing", "writing", "adding", "inserting",
                          "undoing", "done", "failed"}]
  /\ collect \in [Collectors -> {"idle", "selecting", "deleting", "removing", "done"}]

\* What put has returned can be read until it has come of age, and a row has
\* its file, without which every later put of the content fails
\* (store.ts:90), after any failure and any death, unless a collection or a
\* put that was undone has met another put.
PutIsReadable ==
  ~crossed => /\ \A p \in Putters \ old : put[p] = "done" => row /\ p \in refs
              /\ row => file

\* The same without the exception, which two Servers refute.
PutIsReadableAlways == \A p \in Putters \ old : put[p] = "done" => row /\ file
=============================================================================
