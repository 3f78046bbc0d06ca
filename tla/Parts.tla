-------------------------------- MODULE Parts ---------------------------------
(***************************************************************************)
(* The small components, each by itself: a behaviour is one component's,   *)
(* which "part" says, and the others stay as they begin.                   *)
(***************************************************************************)
EXTENDS ThreadLease, Sequences, FiniteSets, TLC

CONSTANTS
  Parts,                                   \* the components that may move
  Goals, Texts, Budget, Usages, MaxTurns,  \* those of ThreadGoals,
  Putters, Collectors, Faults,             \* Artifacts,
  Execs, Backgrounds, Timed, Handle, Registry, \* Processes,
  Tasks, MaxChanges, MaxReads,             \* TaskTree
  Ids, Keys, Urls, Clients, MaxRepoCalls   \* and Repositories

VARIABLES
  part,
  goal, turn, result, turns, spent, word, used, meddled,
  file, row, refs, put, made, collect, old, met, crossed,
  proc, records, escaped, call, aborted, timer, ender, shut,
  events, root, asks, results, pending, since, wire, tree, details, reading, reread, calls, told, missed,
  rows, mirrors, repoCall, repoCalls, named, repoCrossed, cut

G == INSTANCE ThreadGoals
A == INSTANCE Artifacts
P == INSTANCE Processes
T == INSTANCE TaskTree WITH MaxCalls <- MaxReads
R == INSTANCE Repositories WITH
       Callers <- Clients, MaxCalls <- MaxRepoCalls,
       call <- repoCall, calls <- repoCalls, crossed <- repoCrossed

ASSUME GoalsAssumption        == G!Assumption
ASSUME ArtifactsAssumption    == A!Assumption
ASSUME ProcessesAssumption    == P!Assumption
ASSUME TreeAssumption         == T!Assumption
ASSUME RepositoriesAssumption == R!Assumption

goalVars     == <<goal, turn, result, turns, spent, word, used, meddled>>
artifactVars == <<file, row, refs, put, made, collect, old, met, crossed>>
processVars  == <<proc, records, escaped, call, aborted, timer, ender, shut>>
treeVars     == <<events, root, asks, results, pending, since, wire, tree, details, reading, reread, calls, told, missed>>
repoVars     == <<rows, mirrors, repoCall, repoCalls, named, repoCrossed, cut>>
partsVars    == <<part, vars, goalVars, artifactVars, processVars, treeVars, repoVars>>

PartsInit ==
  /\ part \in Parts
  /\ Init /\ G!Init /\ A!Init /\ P!Init /\ T!Init /\ R!Init

Lease ==
  /\ part = "lease" /\ Next
  /\ UNCHANGED <<part, goalVars, artifactVars, processVars, treeVars, repoVars>>
Goal ==
  /\ part = "goals" /\ G!Next
  /\ UNCHANGED <<part, vars, artifactVars, processVars, treeVars, repoVars>>
Artifact ==
  /\ part = "artifacts" /\ A!Next
  /\ UNCHANGED <<part, vars, goalVars, processVars, treeVars, repoVars>>
Process_ ==
  /\ part = "processes" /\ P!Next
  /\ UNCHANGED <<part, vars, goalVars, artifactVars, treeVars, repoVars>>
Tree ==
  /\ part = "tree" /\ T!Next
  /\ UNCHANGED <<part, vars, goalVars, artifactVars, processVars, repoVars>>
Repository ==
  /\ part = "repositories" /\ R!Next
  /\ UNCHANGED <<part, vars, goalVars, artifactVars, processVars, treeVars>>

PartsNext == Lease \/ Goal \/ Artifact \/ Process_ \/ Tree \/ Repository

PartsSpec == PartsInit /\ [][PartsNext]_partsVars

\* Only the processes have fairness; their actions are disabled where another
\* part moves.
PartsFairSpec == PartsSpec /\ P!Fairness

-----------------------------------------------------------------------------
TypesOK == TypeOK /\ G!TypeOK /\ A!TypeOK /\ P!TypeOK /\ T!TypeOK /\ R!TypeOK
NoCrossCharge      == G!NoCrossCharge
GoalIsAsSaid       == G!GoalIsAsSaid
ClearedIsGone      == G!ClearedIsGone
PutIsReadable      == A!PutIsReadable
PutIsReadableAlways == A!PutIsReadableAlways
CloseLeavesNothing == P!CloseLeavesNothing
AbortedEnds        == P!AbortedEnds
TimedEnds          == P!TimedEnds
CloseEnds          == P!CloseEnds
ShowsWhatItWasTold == T!ShowsWhatItWasTold
ShowsAllItWasTold  == T!ShowsAllItWasTold
TreeNeverGoesBack  == T!TreeNeverGoesBack
RowHasMirror       == R!RowHasMirror
RowIsAsSaid        == R!RowIsAsSaid
RowIsAsSaidToAll   == R!RowIsAsSaidToAll
=============================================================================
