----------------------------- MODULE ThreadLease ------------------------------
(***************************************************************************)
(* The lock file of one thread (storage/threads/thread-lease.ts): what     *)
(* keeps two Server processes from writing the same thread.                *)
(*                                                                         *)
(* The processes share nothing but the file system, so every call to it    *)
(* is a step of its own and a process may die between any two.  A caller   *)
(* is one tryAcquire/acquire with the lease it returns; a process may have *)
(* several (a delete beside the pool's own load), and they die with it.    *)
(*                                                                         *)
(* No pid is reused and the file system loses nothing: a process that dies *)
(* leaves the file as it was.  Only the process that opened a file writes  *)
(* it, through its handle: once the name is gone the write is seen by      *)
(* nobody.                                                                 *)
(***************************************************************************)
EXTENDS Naturals

CONSTANTS
  Callers,       \* the attempts to hold the lease
  Processes,     \* the Server processes
  Process,       \* the process each caller runs in
  Nobody         \* no caller

ASSUME ProcessAssumption == Process \in [Callers -> Processes]
ASSUME NobodyAssumption == Nobody \notin Callers

VARIABLES
  lock,      \* the file: who created it and whether its pid is written
  at,        \* where each caller is
  owner,     \* the owner each caller has read from the file
  alive,     \* the processes that exist
  raced      \* history: a caller was about to remove a file that another was
             \* about to remove, or that had replaced the one it had read

vars == <<lock, at, owner, alive, raced>>

NoFile == [by |-> Nobody, written |-> FALSE]

\* "created": its open succeeded, its pid is not written yet.
Places   == {"idle", "exists", "probe", "reclaim", "recreate", "created", "holding"}

Init ==
  /\ lock = NoFile
  /\ at = [c \in Callers |-> "idle"]
  /\ owner = [c \in Callers |-> Nobody]
  /\ alive = Processes
  /\ raced = FALSE

-----------------------------------------------------------------------------
(***************************************************************************)
(* acquire                                                                 *)
(***************************************************************************)

Runs(c, place) == Process[c] \in alive /\ at[c] = place

Go(c, place) == at' = [at EXCEPT ![c] = place]

\* acquire throws: threadBusy, storageCorrupt or what the file system said.
Fail(c) == Go(c, "idle")

\* MUTANT of Open: the file is opened with 'w', whoever has it.
OpenAnyway(c) ==
  /\ Runs(c, "idle")
  /\ lock' = [by |-> c, written |-> FALSE] /\ Go(c, "created")
  /\ UNCHANGED <<owner, alive, raced>>

\* open(path, 'wx').
Open(c) ==
  /\ Runs(c, "idle")
  /\ IF lock = NoFile
     THEN lock' = [by |-> c, written |-> FALSE] /\ Go(c, "created")
     ELSE Go(c, "exists") /\ UNCHANGED lock
  /\ UNCHANGED <<owner, alive, raced>>

\* readLock refuses a file without a pid, or without a name by now.
ReadCorrupt(c) ==
  /\ Runs(c, "exists") /\ ~lock.written
  /\ Fail(c)
  /\ UNCHANGED <<lock, owner, alive, raced>>

\* readLock: the pid is remembered, whatever becomes of the file.
Read(c) ==
  /\ Runs(c, "exists") /\ lock.written
  /\ Go(c, "probe")
  /\ owner' = [owner EXCEPT ![c] = lock.by]
  /\ UNCHANGED <<lock, alive, raced>>

\* The only lock that may be reclaimed: the process c has read of does not
\* exist (any more).
Reclaimable(c) == Process[owner[c]] \notin alive

\* The owner is alive.
Busy(c) ==
  /\ Runs(c, "probe") /\ ~Reclaimable(c)
  /\ Fail(c)
  /\ owner' = [owner EXCEPT ![c] = Nobody]
  /\ UNCHANGED <<lock, alive, raced>>

\* The removal c decides on now may hit a file that is not the dead owner's.
Races(c) ==
  \/ lock.by # owner[c]
  \/ \E d \in Callers \ {c} : Runs(d, "reclaim")

\* The owner is dead: the caller goes on to remove the file it has read, or
\* what has its name by then.
Dead(c) ==
  /\ Runs(c, "probe") /\ Reclaimable(c)
  /\ Go(c, "reclaim")
  /\ raced' = (raced \/ Races(c))
  /\ UNCHANGED <<lock, owner, alive>>

\* rm(path): it removes whatever file has the name by now.
Remove(c) ==
  /\ Runs(c, "reclaim")
  /\ IF lock # NoFile
     THEN lock' = NoFile /\ Go(c, "recreate")
     ELSE Fail(c) /\ UNCHANGED lock
  /\ owner' = [owner EXCEPT ![c] = Nobody]
  /\ UNCHANGED <<alive, raced>>

\* The second open(path, 'wx'): now an existing file is an error.
Recreate(c) ==
  /\ Runs(c, "recreate")
  /\ IF lock = NoFile
     THEN /\ lock' = [by |-> c, written |-> FALSE]
          /\ Go(c, "created")
     ELSE Fail(c) /\ UNCHANGED lock
  /\ UNCHANGED <<owner, alive, raced>>

\* The pid goes to the file c opened, whether the name is still its own.
WritePid(c) ==
  lock' = IF lock.by = c THEN [lock EXCEPT !.written = TRUE] ELSE lock

\* writeFile, sync and close of the handle, and acquire returns the lease.
Write(c) ==
  /\ Runs(c, "created")
  /\ WritePid(c)
  /\ Go(c, "holding")
  /\ UNCHANGED <<owner, alive, raced>>

\* writeFile or sync throws: the file stays, without its pid or with it.
WriteFails(c) ==
  /\ Runs(c, "created")
  /\ UNCHANGED lock \/ WritePid(c)
  /\ Fail(c)
  /\ UNCHANGED <<owner, alive, raced>>

\* release: rm with force.
Release(c) ==
  /\ Runs(c, "holding")
  /\ lock' = NoFile
  /\ Go(c, "idle")
  /\ UNCHANGED <<owner, alive, raced>>

Die(p) ==
  /\ p \in alive
  /\ alive' = alive \ {p}
  /\ UNCHANGED <<lock, at, owner, raced>>

Next ==
  \/ \E c \in Callers :
       \/ Open(c) \/ ReadCorrupt(c) \/ Read(c) \/ Busy(c) \/ Dead(c)
       \/ Remove(c) \/ Recreate(c) \/ Write(c) \/ WriteFails(c) \/ Release(c)
  \/ \E p \in Processes : Die(p)

Spec == Init /\ [][Next]_vars

-----------------------------------------------------------------------------
(***************************************************************************)
(* Properties                                                              *)
(***************************************************************************)

TypeOK ==
  /\ lock \in [by : Callers \union {Nobody}, written : BOOLEAN]
  /\ lock.by = Nobody => lock = NoFile
  /\ at \in [Callers -> Places]
  /\ owner \in [Callers -> Callers \union {Nobody}]
  /\ alive \subseteq Processes
  /\ raced \in BOOLEAN

\* Whoever has, or is about to be given, a lease still has its lock file
\* under the name, so no other caller has one: unless a caller decided to
\* remove a file while another was about to, or after the file it had read
\* was gone.  Those two races are the only ways two Servers come to write one
\* thread.
OwnsFileUnlessRaced ==
  ~raced =>
    \A c \in Callers :
      Runs(c, "created") \/ Runs(c, "holding") => lock.by = c

\* What a caller read is still true when it removes the file: the name is
\* that of a file of the dead owner, whatever the others did since.
ReadStaysTrueUnlessRaced ==
  ~raced =>
    \A c \in Callers :
      Runs(c, "reclaim") => lock.by = owner[c] /\ Process[owner[c]] \notin alive

(***************************************************************************)
(* What the documentation says and the code does not do                    *)
(***************************************************************************)

\* The lock file keeps two Servers from writing one thread at a time
\* (thread-lease.ts:19).
Exclusive ==
  \A c, d \in Callers : Runs(c, "holding") /\ Runs(d, "holding") => c = d
=============================================================================
