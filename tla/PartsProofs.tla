----------------------------- MODULE PartsProofs ------------------------------
(***************************************************************************)
(* Proofs about the small components, each for any value of its constants. *)
(* There is a section for each, with the invariant that implies its        *)
(* property and a lemma that no step breaks it; the one after them puts    *)
(* them together.  The last section is about Workspaces, by itself.        *)
(***************************************************************************)
EXTENDS Parts, WorkspaceState, FiniteSetTheorems, SequenceTheorems, TLAPS

W == INSTANCE Workspaces

\* A set is as large for each component as it is here.
LEMMA SameSets ==
  \A S : /\ A!Cardinality(S) = Cardinality(S) /\ (A!IsFiniteSet(S) <=> IsFiniteSet(S))
         /\ T!Cardinality(S) = Cardinality(S) /\ (T!IsFiniteSet(S) <=> IsFiniteSet(S))
BY Zenon DEF A!Cardinality, A!IsFiniteSet, T!Cardinality, T!IsFiniteSet, Cardinality, IsFiniteSet

-----------------------------------------------------------------------------
(***************************************************************************)
(* ThreadLease: that a holder keeps its file needs every removal to hit a  *)
(* dead owner's file, and that needs the caller about to remove one to be  *)
(* alone and to have read the file that is there, as long as there was no  *)
(* race.                                                                   *)
(***************************************************************************)

\* Until there was a race, at most one caller is about to remove a file.
OneReclaims ==
  ~raced =>
    \A c, d \in Callers : Runs(c, "reclaim") /\ Runs(d, "reclaim") => c = d

\* Whoever is past reading the file has read somebody's pid.
ReadSomebody ==
  \A c \in Callers : at[c] \in {"probe", "reclaim"} => owner[c] \in Callers

\* What is true of the lock file and the callers.
LeaseOK ==
  /\ TypeOK
  /\ OwnsFileUnlessRaced
  /\ ReadStaysTrueUnlessRaced
  /\ OneReclaims
  /\ ReadSomebody

\* The two shapes of the lock file.
LEMMA LockShapes ==
  /\ NoFile \in [by : Callers \union {Nobody}, written : BOOLEAN]
  /\ NoFile.by = Nobody /\ NoFile.written = FALSE
  /\ \A c \in Callers :
       LET fresh == [by |-> c, written |-> FALSE]
       IN  /\ fresh \in [by : Callers \union {Nobody}, written : BOOLEAN]
           /\ fresh.by = c /\ c # Nobody
  BY NobodyAssumption DEF NoFile

\* The lock variable, the places and the history keep their types.
LEMMA LeaseTypeStep == TypeOK /\ [Next]_vars => TypeOK'
<1> SUFFICES ASSUME TypeOK, [Next]_vars PROVE TypeOK'
  OBVIOUS
<1> USE ProcessAssumption, NobodyAssumption
<1>1. ASSUME NEW c \in Callers, Open(c) PROVE TypeOK'
  <2>1. CASE lock = NoFile
    BY <1>1, <2>1, LockShapes DEF TypeOK, Open, Go, Places
  <2>2. CASE lock # NoFile
    BY <1>1, <2>2 DEF TypeOK, Open, Go, Places
  <2> QED
    BY <2>1, <2>2
<1>2. ASSUME NEW c \in Callers, ReadCorrupt(c) \/ Busy(c) PROVE TypeOK'
  BY <1>2 DEF TypeOK, ReadCorrupt, Busy, Fail, Go, NoFile, Places
<1>3. ASSUME NEW c \in Callers, Read(c) \/ Dead(c) PROVE TypeOK'
  BY <1>3 DEF TypeOK, Read, Dead, Runs, Go, NoFile, Places
<1>4. ASSUME NEW c \in Callers, Remove(c) PROVE TypeOK'
  <2>1. lock' \in {NoFile, lock}
    BY <1>4 DEF Remove
  <2>2. at' \in [Callers -> Places] /\ owner' \in [Callers -> Callers \union {Nobody}]
    BY <1>4 DEF TypeOK, Remove, Fail, Go, Places
  <2> QED
    BY <1>4, <2>1, <2>2, LockShapes DEF TypeOK, Remove
<1>5. ASSUME NEW c \in Callers, Recreate(c) PROVE TypeOK'
  <2>1. CASE lock = NoFile
    BY <1>5, <2>1, LockShapes DEF TypeOK, Recreate, Go, Places
  <2>2. CASE lock # NoFile
    BY <1>5, <2>2 DEF TypeOK, Recreate, Fail, Go, Places
  <2> QED
    BY <2>1, <2>2
<1>6. ASSUME NEW c \in Callers, Write(c) \/ WriteFails(c) PROVE TypeOK'
  BY <1>6 DEF TypeOK, Write, WriteFails, WritePid, Fail, Go, NoFile, Places
<1>7. ASSUME NEW c \in Callers, Release(c) PROVE TypeOK'
  BY <1>7 DEF TypeOK, Release, Go, NoFile, Places
<1>8. ASSUME NEW p \in Processes, Die(p) PROVE TypeOK'
  BY <1>8 DEF TypeOK, Die, NoFile
<1>9. CASE UNCHANGED vars
  BY <1>9 DEF TypeOK, vars, NoFile
<1> QED
  BY <1>1, <1>2, <1>3, <1>4, <1>5, <1>6, <1>7, <1>8, <1>9 DEF Next

\* The three facts about the callers carry one another through each step.
LEMMA LeaseStep == LeaseOK /\ [Next]_vars => LeaseOK'
<1> SUFFICES ASSUME LeaseOK, [Next]_vars PROVE LeaseOK'
  OBVIOUS
<1> USE ProcessAssumption, NobodyAssumption
<1>t. TypeOK /\ TypeOK'
  BY LeaseTypeStep DEF LeaseOK
<1> DEFINE Safe == OwnsFileUnlessRaced /\ ReadStaysTrueUnlessRaced /\ OneReclaims /\ ReadSomebody
<1>s. Safe
  BY DEF LeaseOK
<1> SUFFICES Safe'
  BY <1>t DEF LeaseOK
<1>1. ASSUME NEW c \in Callers, Open(c) PROVE Safe'
  BY <1>1, <1>s, <1>t DEF Open, Runs, Go, NoFile, TypeOK, OwnsFileUnlessRaced,
     ReadStaysTrueUnlessRaced, OneReclaims, ReadSomebody
<1>2. ASSUME NEW c \in Callers, ReadCorrupt(c) \/ Busy(c) PROVE Safe'
  BY <1>2, <1>s, <1>t DEF ReadCorrupt, Busy, Fail, Go, Runs, TypeOK,
     OwnsFileUnlessRaced, ReadStaysTrueUnlessRaced, OneReclaims, ReadSomebody
<1>3. ASSUME NEW c \in Callers, Read(c) PROVE Safe'
  <2>1. lock.by \in Callers
    BY <1>3, <1>t DEF Read, TypeOK, NoFile
  <2> QED
    BY <1>3, <1>s, <1>t, <2>1 DEF Read, Go, Runs, TypeOK,
       OwnsFileUnlessRaced, ReadStaysTrueUnlessRaced, OneReclaims, ReadSomebody
\* Whoever decides to remove a file is alone in it and has read the owner of
\* the file that is there, or races.
<1>10. ASSUME NEW c \in Callers, Dead(c) PROVE Safe'
  BY <1>10, <1>s, <1>t DEF Dead, Races, Reclaimable, Go, Runs, TypeOK,
     OwnsFileUnlessRaced, ReadStaysTrueUnlessRaced, OneReclaims, ReadSomebody
\* The file removed is a dead owner's, so no living caller loses its own; and
\* nobody else is left about to remove one.
<1>4. ASSUME NEW c \in Callers, Remove(c) PROVE Safe'
  BY <1>4, <1>s, <1>t DEF Remove, Fail, Go, Runs, NoFile, TypeOK,
     OwnsFileUnlessRaced, ReadStaysTrueUnlessRaced, OneReclaims, ReadSomebody
<1>5. ASSUME NEW c \in Callers, Recreate(c) PROVE Safe'
  BY <1>5, <1>s, <1>t DEF Recreate, Fail, Go, Runs, NoFile, TypeOK,
     OwnsFileUnlessRaced, ReadStaysTrueUnlessRaced, OneReclaims, ReadSomebody
<1>6. ASSUME NEW c \in Callers, Write(c) \/ WriteFails(c) PROVE Safe'
  BY <1>6, <1>s, <1>t DEF Write, WriteFails, WritePid, Fail, Go, Runs, TypeOK,
     OwnsFileUnlessRaced, ReadStaysTrueUnlessRaced, OneReclaims, ReadSomebody
<1>7. ASSUME NEW c \in Callers, Release(c) PROVE Safe'
  BY <1>7, <1>s, <1>t DEF Release, Go, Runs, NoFile, TypeOK,
     OwnsFileUnlessRaced, ReadStaysTrueUnlessRaced, OneReclaims, ReadSomebody
<1>8. ASSUME NEW p \in Processes, Die(p) PROVE Safe'
  BY <1>8, <1>s, <1>t DEF Die, Runs, TypeOK,
     OwnsFileUnlessRaced, ReadStaysTrueUnlessRaced, OneReclaims, ReadSomebody
<1>9. CASE UNCHANGED vars
  BY <1>9, <1>s DEF vars, Runs, OwnsFileUnlessRaced, ReadStaysTrueUnlessRaced,
     OneReclaims, ReadSomebody
<1> QED
  BY <1>1, <1>2, <1>3, <1>4, <1>5, <1>6, <1>7, <1>8, <1>9, <1>10 DEF Next

\* The strengthened invariant holds in every reachable state.
THEOREM LeaseInvariant == Spec => []LeaseOK
<1>1. Init => LeaseOK
  <2> SUFFICES ASSUME Init PROVE LeaseOK
    OBVIOUS
  <2>1. TypeOK
    BY LockShapes DEF Init, TypeOK, Places
  <2>2. \A c \in Callers : at[c] = "idle"
    BY DEF Init
  <2> QED
    BY <2>1, <2>2 DEF LeaseOK, OwnsFileUnlessRaced, ReadStaysTrueUnlessRaced,
       OneReclaims, ReadSomebody, Runs
<1> QED
  BY <1>1, LeaseStep, PTL DEF Spec

-----------------------------------------------------------------------------
(***************************************************************************)
(* ThreadGoals: a goal also comes back from the copy a turn keeps and from *)
(* a result on its way to the queue, so the invariant says of these what it*)
(* says of the goal.                                                       *)
(***************************************************************************)

\* A goal that is there.
AGoal == [id : Goals, text : Texts, status : G!Statuses, tokens : Nat]

\* What has been copied of a goal was charged no more than its turns had cost.
WithinSpent(g, cost) == g # G!NoGoal => g.tokens <= cost[g.id]

\* What is true of the goal and of its copies.
GoalsOK ==
  /\ G!TypeOK
  /\ WithinSpent(goal, spent) /\ WithinSpent(turn.copy, spent) /\ WithinSpent(result, spent)

\* There is a goal or there is none, and what an instance must not confuse.
LEMMA GoalOrNone ==
  ASSUME G!Assumption
  PROVE  /\ G!GoalType = AGoal \cup {G!NoGoal}
         /\ G!NoGoal.id = 0 /\ G!NoGoal \notin AGoal
         /\ \A g \in AGoal : g.id \in Goals /\ g.id # 0 /\ g.tokens \in Nat
BY DEF G!Assumption, G!GoalType, AGoal, G!NoGoal

\* A goal whose tokens and status are written stays a goal, with its id.
LEMMA Rewritten ==
  \A g \in AGoal, n \in Nat, status \in G!Statuses :
    LET new == [g EXCEPT !.tokens = n, !.status = status]
    IN  new \in AGoal /\ new.id = g.id /\ new.tokens = n
BY DEF AGoal

\* So does a goal that is charged (nextGoalAfterUsage).
LEMMA ChargedGoal ==
  ASSUME G!Assumption, NEW g \in AGoal, NEW usage \in Nat
  PROVE  /\ G!Charged(g, usage) \in AGoal /\ G!Charged(g, usage).id = g.id
         /\ G!Charged(g, usage).tokens = g.tokens + usage
<1>1. g.tokens \in Nat /\ g.status \in G!Statuses /\ "paused" \in G!Statuses
  BY DEF AGoal, G!Statuses
<1>2. PICK n \in Nat : n = g.tokens + usage
  BY <1>1
<1>3. PICK status \in G!Statuses :
        status = IF g.status = "active" /\ g.tokens + usage >= Budget THEN "paused" ELSE g.status
  BY <1>1
<1>4. G!Charged(g, usage) = [g EXCEPT !.tokens = n, !.status = status]
  <2>1. G!Charged(g, usage) = [g EXCEPT !.tokens = g.tokens + usage,
          !.status = IF g.status = "active" /\ g.tokens + usage >= Budget THEN "paused" ELSE g.status]
    BY Zenon DEF G!Charged
  <2> QED BY <1>2, <1>3, <2>1, Zenon
<1> DEFINE new == [g EXCEPT !.tokens = n, !.status = status]
<1>5. new \in AGoal /\ new.id = g.id /\ new.tokens = n
  BY Rewritten
<1> HIDE DEF new
<1>6. G!Charged(g, usage) = new
  BY <1>4 DEF new
<1> QED BY <1>2, <1>5, <1>6

\* The invariant holds before anything has happened.
LEMMA GoalsInit == ASSUME G!Assumption, G!Init PROVE GoalsOK
<1>1. G!NoGoal \in G!GoalType
  BY DEF G!GoalType
<1>2. turn = [charges |-> 0, copy |-> G!NoGoal, runs |-> FALSE]
  BY DEF G!Init, G!NoTurn
<1>3. turn \in [charges : Goals \cup {0}, copy : G!GoalType, runs : BOOLEAN]
  BY <1>1, <1>2
<1>4. G!TypeOK
  <2>1. goal \in G!GoalType /\ word \in G!GoalType /\ result \in G!GoalType
    BY <1>1 DEF G!Init
  <2>2. turns \in 0..MaxTurns /\ spent \in [Goals -> Nat] /\ used \subseteq Goals
    BY DEF G!Init, G!Assumption
  <2>3. meddled \in BOOLEAN
    BY DEF G!Init
  <2> QED BY <1>3, <2>1, <2>2, <2>3 DEF G!TypeOK
<1>5. turn.copy = G!NoGoal
  BY <1>2
<1> QED BY <1>4, <1>5 DEF GoalsOK, G!Init, WithinSpent

\* No step of a client, the Command or a turn breaks the invariant.
LEMMA GoalsStep == ASSUME G!Assumption, GoalsOK, [G!Next]_goalVars PROVE GoalsOK'
<1> USE GoalOrNone DEF GoalsOK, WithinSpent, G!TypeOK
<1>1. CASE \E text \in Texts, given \in {"active", "paused", "keep"} : G!SetGoal(text, given)
  <2>1. PICK text \in Texts, given \in {"active", "paused", "keep"} : G!SetGoal(text, given)
    BY <1>1
  <2>2. goal' \in AGoal /\ goal'.tokens <= spent[goal'.id]
    BY <2>1 DEF G!SetGoal, G!Says, AGoal, G!Statuses, G!Assumption
  <2> QED BY <2>1, <2>2 DEF G!SetGoal, G!Says
<1>2. CASE G!ClearGoal
  BY <1>2 DEF G!ClearGoal, G!Says
<1>3. CASE G!StartTurn
  <2>1. turn' \in [charges : Goals \cup {0}, copy : G!GoalType, runs : BOOLEAN]
    BY <1>3 DEF G!StartTurn, G!Is, G!NoTurn
  <2>2. turn'.copy \in {goal, G!NoGoal}
    BY <1>3 DEF G!StartTurn, G!Is, G!NoTurn
  <2>3. turns' \in 0..MaxTurns
    BY <1>3 DEF G!StartTurn, G!Assumption
  <2> QED BY <1>3, <2>1, <2>2, <2>3 DEF G!StartTurn
<1>4. CASE \E status \in {"complete", "blocked"} : G!UpdateGoal(status)
  <2>1. PICK status \in {"complete", "blocked"} : G!UpdateGoal(status)
    BY <1>4
  <2>2. turn.copy \in AGoal
    BY <2>1 DEF G!UpdateGoal, G!Is
  <2>3. turn'.copy = [turn.copy EXCEPT !.status = status]
    BY <2>1 DEF G!UpdateGoal
  <2>4. turn'.copy \in AGoal /\ turn'.copy.id = turn.copy.id /\ turn'.copy.tokens = turn.copy.tokens
    BY <2>2, <2>3 DEF AGoal, G!Statuses
  <2>5. turn' \in [charges : Goals \cup {0}, copy : G!GoalType, runs : BOOLEAN]
    BY <2>1, <2>4 DEF G!UpdateGoal
  <2> QED BY <2>1, <2>2, <2>4, <2>5 DEF G!UpdateGoal
<1>5. CASE G!RecordGoal
  BY <1>5 DEF G!RecordGoal
<1>6. CASE \E usage \in Usages : G!EndTurn(usage)
  <2>1. PICK usage \in Usages : G!EndTurn(usage)
    BY <1>6
  <2>2. usage \in Nat
    BY <2>1 DEF G!Assumption
  <2>3. turn' = G!NoTurn /\ turn'.copy = G!NoGoal /\ G!NoTurn \in [charges : Goals \cup {0}, copy : G!GoalType, runs : BOOLEAN]
    BY <2>1 DEF G!EndTurn, G!NoTurn
  <2>4. spent' \in [Goals -> Nat] /\ \A g \in Goals : spent[g] <= spent'[g]
    BY <2>1, <2>2 DEF G!EndTurn
  <2>5. CASE usage # 0 /\ turn.charges # 0 /\ goal.id = turn.charges
    <3>1. goal \in AGoal
      BY <2>5
    <3>2. G!Charged(goal, usage) \in AGoal /\ G!Charged(goal, usage).id = goal.id
          /\ G!Charged(goal, usage).tokens = goal.tokens + usage
      BY <2>2, <3>1, ChargedGoal
    <3>3. spent'[goal.id] = spent[goal.id] + usage
      BY <2>1, <2>5, <3>1 DEF G!EndTurn
    <3> QED BY <2>1, <2>2, <2>3, <2>4, <2>5, <3>1, <3>2, <3>3 DEF G!EndTurn
  <2>6. CASE ~(usage # 0 /\ turn.charges # 0 /\ goal.id = turn.charges)
    BY <2>1, <2>2, <2>3, <2>4, <2>6 DEF G!EndTurn
  <2> QED BY <2>5, <2>6
<1>7. CASE UNCHANGED goalVars
  BY <1>7 DEF goalVars
<1> QED BY <1>1, <1>2, <1>3, <1>4, <1>5, <1>6, <1>7 DEF G!Next

\* The two are one goal, but for its status.
Same(g, h) == h # G!NoGoal /\ g.id = h.id /\ g.text = h.text /\ g.tokens = h.tokens

\* The ids that exist, and that of no goal.
Known == used \cup {0}

\* Only a turn has a copy and a result.  Unless a client has spoken meanwhile they
\* are the goal that the turn is charged to, whose status the result ends.
GoalsFollow ==
  /\ goal.id \in Known /\ turn.copy.id \in Known /\ result.id \in Known /\ turn.charges \in Known
  /\ \A i \in Goals \ used : spent[i] = 0
  /\ ~turn.runs => turn = G!NoTurn /\ result = G!NoGoal
  /\ ~meddled =>
       /\ turn.charges # 0 => goal.id = turn.charges
       /\ turn.copy # G!NoGoal => turn.charges # 0 /\ Same(turn.copy, goal)
       /\ result # G!NoGoal => Same(result, goal) /\ result.status # "active"
       /\ GoalIsAsSaid

\* Nothing follows anything before the first turn.
LEMMA GoalsFollowInit == ASSUME G!Assumption, G!Init PROVE GoalsFollow
BY GoalOrNone DEF G!Init, GoalsFollow, Known, G!NoTurn, G!NoGoal, GoalIsAsSaid, G!GoalIsAsSaid

\* No step of a client, the Command or a turn breaks it.
LEMMA GoalsFollowStep ==
  ASSUME G!Assumption, GoalsOK, GoalsFollow, [G!Next]_goalVars
  PROVE  GoalsFollow'
<1> USE GoalOrNone DEF GoalsOK, G!TypeOK, Known
<1>0. /\ G!NoTurn.charges = 0 /\ G!NoTurn.copy = G!NoGoal /\ G!NoTurn.runs = FALSE
      /\ \A g : G!Is(g, "active") <=> g # G!NoGoal /\ g.status = "active"
  BY DEF G!NoTurn, G!Is
<1>1. CASE \E text \in Texts, given \in {"active", "paused", "keep"} : G!SetGoal(text, given)
  <2>1. PICK text \in Texts, given \in {"active", "paused", "keep"} : G!SetGoal(text, given)
    BY <1>1
  <2>2. PICK new \in IF goal = G!NoGoal THEN Goals \ used ELSE {goal.id} :
          /\ goal'.id = new /\ goal'.text = text
          /\ goal'.tokens = IF goal = G!NoGoal THEN 0 ELSE goal.tokens
          /\ goal' = word' /\ used' = used \cup {new}
          /\ meddled' = (meddled \/ turn.runs)
          /\ UNCHANGED <<turn, result, turns, spent>>
    BY <2>1 DEF G!SetGoal, G!Says
  <2>3. new \in Goals /\ goal' # G!NoGoal
    <3>1. CASE goal = G!NoGoal
      BY <2>2, <3>1 DEF G!Assumption
    <3>2. CASE goal # G!NoGoal
      BY <2>2, <3>2
    <3> QED BY <3>1, <3>2
  <2>4. goal'.id \in used' \cup {0} /\ \A i \in Goals \ used' : spent'[i] = 0
    BY <2>2 DEF GoalsFollow
  <2>5. ASSUME ~meddled' PROVE ~meddled /\ turn = G!NoTurn /\ result = G!NoGoal
    BY <2>2, <2>5 DEF GoalsFollow
  <2>6. ASSUME ~meddled' PROVE goal'.tokens = spent'[new]
    BY <2>2, <2>3, <2>5, <2>6 DEF GoalsFollow, GoalIsAsSaid, G!GoalIsAsSaid
  <2>7. GoalIsAsSaid'
    BY <2>2, <2>3, <2>6 DEF GoalIsAsSaid, G!GoalIsAsSaid, G!Is
  <2> QED BY <1>0, <2>2, <2>4, <2>5, <2>7 DEF GoalsFollow
<1>2. CASE G!ClearGoal
  <2>1. goal' = G!NoGoal /\ word' = G!NoGoal /\ meddled' = (meddled \/ turn.runs)
        /\ UNCHANGED <<turn, result, turns, spent, used>>
    BY <1>2 DEF G!ClearGoal, G!Says
  <2>2. GoalIsAsSaid'
    BY <2>1 DEF GoalIsAsSaid, G!GoalIsAsSaid
  <2> QED BY <1>0, <2>1, <2>2 DEF GoalsFollow
<1>3. CASE G!StartTurn
  <2>1. ~turn.runs /\ turn'.runs /\ UNCHANGED <<goal, result, spent, word, used, meddled>>
    BY <1>3 DEF G!StartTurn, G!NoTurn
  <2>2. \/ turn'.charges = goal.id /\ turn'.copy = goal /\ goal # G!NoGoal
        \/ turn'.charges = 0 /\ turn'.copy = G!NoGoal
    <3>1. CASE G!Is(goal, "active")
      BY <1>0, <1>3, <3>1 DEF G!StartTurn
    <3>2. CASE ~G!Is(goal, "active")
      <4>1. turn' = [G!NoTurn EXCEPT !.runs = TRUE]
        BY <1>3, <3>2 DEF G!StartTurn
      <4> QED BY <4>1 DEF G!NoTurn
    <3> QED BY <3>1, <3>2
  <2>3. GoalIsAsSaid => GoalIsAsSaid'
    BY <2>1 DEF GoalIsAsSaid, G!GoalIsAsSaid
  <2> QED BY <2>1, <2>2, <2>3 DEF GoalsFollow, Same
<1>4. CASE \E status \in {"complete", "blocked"} : G!UpdateGoal(status)
  <2>1. PICK status \in {"complete", "blocked"} : G!UpdateGoal(status)
    BY <1>4
  <2>2. turn.copy \in AGoal /\ turn.runs /\ UNCHANGED <<goal, turns, spent, word, used, meddled>>
    BY <2>1 DEF G!UpdateGoal, G!Is
  <2>3. turn' = [turn EXCEPT !.copy.status = status] /\ result' = turn'.copy
    BY <2>1 DEF G!UpdateGoal
  <2>4. turn'.copy \in AGoal /\ Same(turn'.copy, turn.copy) /\ turn'.copy.status = status
    BY <2>2, <2>3 DEF AGoal, G!Statuses, Same
  <2>5. turn'.charges = turn.charges /\ turn'.runs = turn.runs
    BY <2>3
  <2>6. GoalIsAsSaid => GoalIsAsSaid'
    BY <2>2 DEF GoalIsAsSaid, G!GoalIsAsSaid
  <2> QED BY <2>2, <2>3, <2>4, <2>5, <2>6 DEF GoalsFollow, Same
<1>5. CASE G!RecordGoal
  <2>1. result # G!NoGoal /\ goal' = result /\ result' = G!NoGoal
        /\ UNCHANGED <<turn, turns, spent, word, used, meddled>>
    BY <1>5 DEF G!RecordGoal
  <2>2. ~meddled => GoalIsAsSaid'
    BY <2>1 DEF GoalsFollow, Same, GoalIsAsSaid, G!GoalIsAsSaid, G!Is
  <2> QED BY <2>1, <2>2 DEF GoalsFollow, Same
<1>6. CASE \E usage \in Usages : G!EndTurn(usage)
  <2>1. PICK usage \in Usages : G!EndTurn(usage)
    BY <1>6
  <2>2. usage \in Nat /\ Budget \in Nat
    BY <2>1 DEF G!Assumption
  <2>3. turn' = G!NoTurn /\ result = G!NoGoal /\ result' = G!NoGoal /\ UNCHANGED <<word, used, meddled>>
    BY <2>1 DEF G!EndTurn
  <2>4. \A i \in Goals : spent'[i] = IF i = turn.charges THEN spent[i] + usage ELSE spent[i]
    BY <2>1, <2>2 DEF G!EndTurn, G!Assumption
  <2>5. \A i \in Goals \ used : spent'[i] = 0
    BY <2>4 DEF GoalsFollow, G!Assumption
  <2>6. CASE usage # 0 /\ turn.charges # 0 /\ goal.id = turn.charges
    <3>1. goal \in AGoal /\ goal' = G!Charged(goal, usage)
      BY <2>1, <2>6 DEF G!EndTurn
    <3>2. goal' \in AGoal /\ goal'.id = goal.id /\ goal'.tokens = goal.tokens + usage
      BY <2>2, <3>1, ChargedGoal
    <3>3. goal'.text = goal.text /\ (goal'.status = "active" => goal'.tokens < Budget)
      BY <2>2, <3>1 DEF G!Charged, AGoal
    <3>4. ~meddled => GoalIsAsSaid'
      BY <2>2, <2>3, <2>4, <2>6, <3>1, <3>2, <3>3 DEF GoalsFollow, GoalIsAsSaid, G!GoalIsAsSaid, G!Is
    <3> QED BY <1>0, <2>3, <2>5, <3>2, <3>4 DEF GoalsFollow
  <2>7. CASE ~(usage # 0 /\ turn.charges # 0 /\ goal.id = turn.charges)
    <3>1. goal' = goal
      BY <2>1, <2>7 DEF G!EndTurn
    <3>2. ~meddled /\ goal # G!NoGoal => spent'[goal.id] = spent[goal.id]
      BY <2>2, <2>4, <2>7 DEF GoalsFollow
    <3>3. ~meddled => GoalIsAsSaid'
      BY <2>3, <3>1, <3>2 DEF GoalsFollow, GoalIsAsSaid, G!GoalIsAsSaid, G!Is
    <3> QED BY <1>0, <2>3, <2>5, <3>1, <3>3 DEF GoalsFollow
  <2> QED BY <2>6, <2>7
<1>7. CASE UNCHANGED goalVars
  BY <1>7 DEF goalVars, GoalsFollow, Same, GoalIsAsSaid, G!GoalIsAsSaid
<1> QED BY <1>1, <1>2, <1>3, <1>4, <1>5, <1>6, <1>7 DEF G!Next

-----------------------------------------------------------------------------
(***************************************************************************)
(* Artifacts: as long as no put met a collector, or one that is undone.    *)
(***************************************************************************)

\* Puts that are under way together have met, and until a crossing each knows of
\* the file and the row what its place says.
ArtifactsOK ==
  /\ A!TypeOK
  /\ \A p, q \in A!Putting : p # q => p \in met
  /\ ~crossed =>
       /\ A!Putting = {} \/ A!Collecting = {}
       /\ \A p \in met : put[p] # "undoing"
       /\ row => file
       /\ \A p \in Putters \ old : put[p] = "done" => row /\ p \in refs
       /\ \A p \in Putters : put[p] = "inserting" => file
       /\ \A p \in Putters \ met : put[p] \in {"probing", "writing", "inserting", "undoing"} => ~row
       /\ \A c \in Collectors : collect[c] \in {"deleting", "removing"} => refs = {}
       /\ \A c \in Collectors : collect[c] = "removing" => ~row

\* A set with two members has more than one.
LEMMA Two ==
  ASSUME NEW S, IsFiniteSet(S), NEW p \in S, NEW q \in S, p # q
  PROVE  Cardinality(S) > 1
<1>1. Cardinality(S) # 0
  BY FS_EmptySet
<1>2. Cardinality(S \ {p}) = Cardinality(S) - 1 /\ IsFiniteSet(S \ {p})
  BY FS_RemoveElement
<1>3. Cardinality(S \ {p}) # 0
  BY <1>2, FS_EmptySet
<1>4. Cardinality(S) \in Nat /\ Cardinality(S \ {p}) \in Nat
  BY <1>2, FS_CardinalityType
<1> QED BY <1>2, <1>3, <1>4

\* What Crosses means.
LEMMA CrossesMeans ==
  ASSUME ArtifactsOK, A!Crosses
  PROVE  /\ met \subseteq met' /\ met' \subseteq met \cup A!Putting'
         /\ \A p, q \in A!Putting' : p # q => p \in met'
         /\ crossed => crossed'
         /\ ~crossed' => /\ A!Putting' = {} \/ A!Collecting' = {}
                         /\ \A p \in met' : put'[p] # "undoing"
         /\ crossed' \in BOOLEAN /\ met' \subseteq Putters
<1>1. IsFiniteSet(A!Putting')
  BY ArtifactsAssumption, FS_Subset, SameSets DEF A!Assumption, A!Putting
<1>2. \A p, q \in A!Putting' : p # q => A!Cardinality(A!Putting') > 1
  BY <1>1, Two, SameSets
<1> QED BY <1>2 DEF A!Crosses, ArtifactsOK, A!TypeOK, A!Putting

\* No step of a put, of a collector, of time or of a death breaks it.
LEMMA ArtifactsStep ==
  ASSUME ArtifactsOK, [A!Next]_artifactVars
  PROVE  ArtifactsOK'
<1> USE ArtifactsAssumption DEF A!Assumption
<1>1. ASSUME NEW p \in Putters, NEW place \in {"idle", "verifying", "probing", "writing", "adding", "inserting", "undoing", "done", "failed"},
             A!To(p, place), A!Crosses
      PROVE  /\ put' \in [Putters -> {"idle", "verifying", "probing", "writing", "adding", "inserting",
                          "undoing", "done", "failed"}]
             /\ put'[p] = place /\ \A q \in Putters \ {p} : put'[q] = put[q]
  BY <1>1 DEF A!To, ArtifactsOK, A!TypeOK
<1>2. ASSUME NEW p \in Putters, A!Find(p), A!Crosses PROVE ArtifactsOK'
  BY <1>2, <1>1, CrossesMeans DEF A!Find, ArtifactsOK, A!TypeOK, A!Putting, A!Collecting
<1>3. ASSUME NEW p \in Putters, A!Verify(p), A!Crosses PROVE ArtifactsOK'
  BY <1>3, <1>1, CrossesMeans DEF A!Verify, ArtifactsOK, A!TypeOK, A!Putting, A!Collecting
<1>4. ASSUME NEW p \in Putters, A!AddReference(p), A!Crosses PROVE ArtifactsOK'
  BY <1>4, <1>1, CrossesMeans DEF A!AddReference, ArtifactsOK, A!TypeOK, A!Putting, A!Collecting
<1>5. ASSUME NEW p \in Putters, A!Probe(p), A!Crosses PROVE ArtifactsOK'
  BY <1>5, <1>1, CrossesMeans DEF A!Probe, ArtifactsOK, A!TypeOK, A!Putting, A!Collecting
<1>6. ASSUME NEW p \in Putters, A!WriteContent(p), A!Crosses PROVE ArtifactsOK'
  BY <1>6, <1>1, CrossesMeans DEF A!WriteContent, ArtifactsOK, A!TypeOK, A!Putting, A!Collecting
<1>7. ASSUME NEW p \in Putters, A!Insert(p), A!Crosses PROVE ArtifactsOK'
  BY <1>7, <1>1, CrossesMeans DEF A!Insert, ArtifactsOK, A!TypeOK, A!Putting, A!Collecting
<1>8. ASSUME NEW p \in Putters, A!InsertFails(p), A!Crosses PROVE ArtifactsOK'
  BY <1>8, <1>1, CrossesMeans DEF A!InsertFails, ArtifactsOK, A!TypeOK, A!Putting, A!Collecting
<1>9. ASSUME NEW p \in Putters, A!Undo(p), A!Crosses PROVE ArtifactsOK'
  BY <1>9, <1>1, CrossesMeans DEF A!Undo, ArtifactsOK, A!TypeOK, A!Putting, A!Collecting
<1>10. ASSUME NEW p \in Putters, A!Age(p), A!Crosses PROVE ArtifactsOK'
  BY <1>10, CrossesMeans DEF A!Age, ArtifactsOK, A!TypeOK, A!Putting, A!Collecting
<1>11. ASSUME NEW c \in Collectors, NEW place \in {"selecting", "deleting", "removing", "done"},
              A!CollectTo(c, place)
       PROVE  /\ collect' \in [Collectors -> {"idle", "selecting", "deleting", "removing", "done"}]
              /\ collect'[c] = place /\ \A d \in Collectors \ {c} : collect'[d] = collect[d]
  BY <1>11 DEF A!CollectTo, ArtifactsOK, A!TypeOK
<1>12. ASSUME NEW c \in Collectors, A!DeleteExpired(c), A!Crosses PROVE ArtifactsOK'
  BY <1>12, <1>11, CrossesMeans DEF A!DeleteExpired, ArtifactsOK, A!TypeOK, A!Putting, A!Collecting
<1>13. ASSUME NEW c \in Collectors, A!Select(c), A!Crosses PROVE ArtifactsOK'
  BY <1>13, <1>11, CrossesMeans DEF A!Select, ArtifactsOK, A!TypeOK, A!Putting, A!Collecting
<1>14. ASSUME NEW c \in Collectors, A!DeleteRow(c), A!Crosses PROVE ArtifactsOK'
  BY <1>14, <1>11, CrossesMeans DEF A!DeleteRow, ArtifactsOK, A!TypeOK, A!Putting, A!Collecting
<1>15. ASSUME NEW c \in Collectors, A!RemoveFile(c), A!Crosses PROVE ArtifactsOK'
  BY <1>15, <1>11, CrossesMeans DEF A!RemoveFile, ArtifactsOK, A!TypeOK, A!Putting, A!Collecting
<1>16. ASSUME A!Die, A!Crosses PROVE ArtifactsOK'
  <2>1. ASSUME NEW p \in A!Putting, A!To(p, "failed"), UNCHANGED collect PROVE ArtifactsOK'
    BY <2>1, <1>16, <1>1, CrossesMeans DEF A!Die, ArtifactsOK, A!TypeOK, A!Putting, A!Collecting
  <2>2. ASSUME NEW c \in A!Collecting, A!CollectTo(c, "done"), UNCHANGED put PROVE ArtifactsOK'
    BY <2>2, <1>16, <1>11, CrossesMeans DEF A!Die, ArtifactsOK, A!TypeOK, A!Putting, A!Collecting
  <2> QED BY <1>16, <2>1, <2>2 DEF A!Die
<1>17. CASE UNCHANGED artifactVars
  BY <1>17 DEF artifactVars, ArtifactsOK, A!TypeOK, A!Putting, A!Collecting
<1> QED
  BY <1>2, <1>3, <1>4, <1>5, <1>6, <1>7, <1>8, <1>9, <1>10, <1>12, <1>13, <1>14, <1>15, <1>16, <1>17 DEF A!Next

-----------------------------------------------------------------------------
(***************************************************************************)
(* Processes: whoever closes knows all that is alive, or has seen it end.  *)
(***************************************************************************)

\* A closer e of the processes S: they are known to it or dead.
Closing(e, S) ==
  /\ ender[e].at # "idle" => e \in shut
  /\ ender[e].at = "grace" => \A p \in S : proc[p] = "alive" => p \in ender[e].of
  /\ ender[e].at \in {"killed", "done"} => \A p \in S : proc[p] # "alive"

\* A process that is alive is in the registry, and a closer has what it closes.
ProcessesOK ==
  /\ P!TypeOK
  /\ \A p \in P!Procs : proc[p] = "alive" => p \in records
  /\ Closing(Handle, Execs)
  /\ Closing(Registry, P!Procs)

\* Where the enders are when one begins.
LEMMA BeginIs ==
  ASSUME P!TypeOK, NEW e \in P!Enders, NEW S \in SUBSET P!Procs, P!Begin(e, S)
  PROVE  /\ ender' \in [P!Enders -> [at : {"idle", "grace", "killed", "done"}, of : SUBSET P!Procs]]
         /\ ender'[e].at = "grace"
         /\ \A p \in S : proc[p] = "alive" => p \in ender'[e].of
         /\ \A d \in P!Enders \ {e} : ender'[d] = ender[d]
BY DEF P!TypeOK, P!Begin

\* Groups that end leave nobody alive, and nobody else is touched.
LEMMA EndsIs ==
  ASSUME P!TypeOK, NEW S \in SUBSET P!Procs, P!Ends(S)
  PROVE  /\ proc' \in [P!Procs -> {"none", "alive", "gone", "closed"}]
         /\ timer' \in [P!Procs -> {"off", "armed", "grace"}]
         /\ \A p \in S : proc'[p] # "alive"
         /\ \A p \in P!Procs : proc'[p] = "alive" => proc[p] = "alive"
BY DEF P!TypeOK, P!Ends, P!Over

\* A step that starts nothing and leaves the closers alone keeps the invariant.
LEMMA Calm ==
  ASSUME ProcessesOK, P!TypeOK', UNCHANGED shut,
         \A p \in P!Procs : proc'[p] = "alive" => proc[p] = "alive" /\ p \in records',
         ender'[Handle] = ender[Handle], ender'[Registry] = ender[Registry]
  PROVE  ProcessesOK'
BY DEF ProcessesOK, Closing, P!Procs

\* No start, end, abort, time limit or close breaks it.
LEMMA ProcessesStep ==
  ASSUME ProcessesOK, [P!Next]_processVars
  PROVE  ProcessesOK'
<1> USE ProcessesAssumption DEF P!Assumption
<1>0. P!TypeOK /\ Execs \subseteq P!Procs /\ P!Procs \subseteq P!Enders /\ Handle \in P!Enders /\ Registry \in P!Enders
      /\ Handle \notin P!Procs /\ Registry \notin P!Procs
  BY DEF ProcessesOK, P!Procs, P!Enders
<1>1. ASSUME NEW p \in P!Procs, P!Launch(p) PROVE ProcessesOK'
  BY <1>0, <1>1 DEF P!Launch, ProcessesOK, P!TypeOK, Closing
<1>2. ASSUME NEW p \in P!Procs, P!LaunchFails(p) PROVE ProcessesOK'
  <2>1. P!TypeOK'
    BY <1>0, <1>2 DEF P!LaunchFails, P!TypeOK
  <2> QED BY <1>0, <1>2, <2>1, Calm DEF P!LaunchFails, P!TypeOK, ProcessesOK
<1>3. ASSUME NEW p \in P!Procs, P!Spawned(p) PROVE ProcessesOK'
  <2>1. CASE p \in aborted \cap records
    <3>1. P!Begin(p, {p})
      BY <1>3, <2>1 DEF P!Spawned
    <3>2. P!TypeOK'
      BY <1>0, <1>3, <3>1, BeginIs DEF P!Spawned, P!TypeOK
    <3> QED BY <1>0, <1>3, <3>1, <3>2, BeginIs, Calm DEF P!Spawned, ProcessesOK
  <2>2. CASE p \notin aborted \cap records
    <3>2. P!TypeOK'
      BY <1>0, <1>3, <2>2 DEF P!Spawned, P!TypeOK
    <3> QED BY <1>0, <1>3, <2>2, <3>2, Calm DEF P!Spawned, ProcessesOK
  <2> QED BY <2>1, <2>2
<1>4. ASSUME NEW p \in P!Procs, P!EndStdin(p) \/ P!Return(p) \/ P!Escape(p) \/ P!TimeOut(p) PROVE ProcessesOK'
  <2>1. P!TypeOK'
    BY <1>0, <1>4 DEF P!EndStdin, P!Return, P!Escape, P!TimeOut, P!TypeOK
  <2> QED BY <1>0, <1>4, <2>1, Calm DEF P!EndStdin, P!Return, P!Escape, P!TimeOut, ProcessesOK
<1>5. ASSUME NEW p \in P!Procs, P!Abort(p) PROVE ProcessesOK'
  <2>1. CASE call[p] # "spawning" /\ p \in records
    <3>1. P!Begin(p, {p})
      BY <1>5, <2>1 DEF P!Abort
    <3>2. P!TypeOK'
      BY <1>0, <1>5, <3>1, BeginIs DEF P!Abort, P!TypeOK
    <3> QED BY <1>0, <1>5, <3>1, <3>2, BeginIs, Calm DEF P!Abort, ProcessesOK
  <2>2. CASE ~(call[p] # "spawning" /\ p \in records)
    <3>2. P!TypeOK'
      BY <1>0, <1>5, <2>2 DEF P!Abort, P!TypeOK
    <3> QED BY <1>0, <1>5, <2>2, <3>2, Calm DEF P!Abort, ProcessesOK
  <2> QED BY <2>1, <2>2
<1>6. ASSUME NEW p \in P!Procs, P!Exit(p) PROVE ProcessesOK'
  <2>1. P!TypeOK'
    BY <1>0, <1>6, EndsIs DEF P!Exit, P!TypeOK
  <2> QED BY <1>0, <1>6, <2>1, EndsIs, Calm DEF P!Exit, ProcessesOK
<1>7. ASSUME NEW p \in P!Procs, P!ClosePipes(p) \/ P!ForceTimeOut(p) PROVE ProcessesOK'
  <2>1. P!TypeOK'
    BY <1>0, <1>7 DEF P!ClosePipes, P!ForceTimeOut, P!Over, P!TypeOK
  <2> QED BY <1>0, <1>7, <2>1, Calm DEF P!ClosePipes, P!ForceTimeOut, P!Over, ProcessesOK, P!TypeOK
<1>8. CASE P!CloseHandle
  <2>1. P!Begin(Handle, Execs \cap records)
    BY <1>8 DEF P!CloseHandle
  <2>2. P!TypeOK'
    BY <1>0, <1>8, <2>1, BeginIs DEF P!CloseHandle, P!TypeOK
  <2>3. ender'[Registry] = ender[Registry]
    BY <1>0, <2>1, BeginIs
  <2>4. Closing(Handle, Execs)'
    BY <1>0, <1>8, <2>1, BeginIs DEF P!CloseHandle, Closing, ProcessesOK
  <2> QED BY <1>0, <1>8, <2>2, <2>3, <2>4 DEF P!CloseHandle, Closing, ProcessesOK
<1>9. CASE P!CloseRegistry
  <2>1. P!Begin(Registry, records)
    BY <1>9 DEF P!CloseRegistry
  <2>2. P!TypeOK'
    BY <1>0, <1>9, <2>1, BeginIs DEF P!CloseRegistry, P!TypeOK
  <2>3. ender'[Handle] = ender[Handle]
    BY <1>0, <2>1, BeginIs DEF P!TypeOK
  <2>4. Closing(Registry, P!Procs)'
    BY <1>0, <1>9, <2>1, BeginIs DEF P!CloseRegistry, Closing, ProcessesOK, P!TypeOK
  <2> QED BY <1>0, <1>9, <2>2, <2>3, <2>4 DEF P!CloseRegistry, Closing, ProcessesOK
<1>10. ASSUME NEW e \in P!Enders, P!Kill(e) PROVE ProcessesOK'
  <2> DEFINE left == {p \in ender[e].of : proc[p] # "closed"}
  <2>1. left \in SUBSET P!Procs /\ P!Ends(left)
    BY <1>0, <1>10 DEF P!Kill, P!TypeOK
  <2>2. ender' = [ender EXCEPT ![e] = [at |-> "killed", of |-> left]]
    BY <1>10 DEF P!Kill
  <2>3. \A p \in ender[e].of : proc[p] = "alive" => p \in left
    OBVIOUS
  <2> HIDE DEF left
  <2>4. P!TypeOK'
    BY <1>0, <1>10, <2>1, <2>2, EndsIs DEF P!Kill, P!TypeOK
  <2>5. ender'[e].at = "killed" /\ \A d \in P!Enders \ {e} : ender'[d] = ender[d]
    BY <1>0, <2>2 DEF P!TypeOK
  <2>6. \A p \in P!Procs : proc'[p] = "alive" => proc[p] = "alive" /\ p \notin ender[e].of
    BY <1>0, <2>1, <2>3, EndsIs
  <2> QED BY <1>0, <1>10, <2>4, <2>5, <2>6 DEF P!Kill, Closing, ProcessesOK
<1>11. ASSUME NEW e \in P!Enders, P!Terminated(e) PROVE ProcessesOK'
  <2>1. \A p \in P!Procs : proc[p] = "alive" => p \in records'
    BY <1>0, <1>11 DEF P!Terminated, ProcessesOK, Closing
  <2>2. records' \subseteq P!Procs
    BY <1>0, <1>11 DEF P!Terminated, P!TypeOK
  <2>3. ender' \in [P!Enders -> [at : {"idle", "grace", "killed", "done"}, of : SUBSET P!Procs]]
        /\ ender'[e].at = "done" /\ \A d \in P!Enders \ {e} : ender'[d] = ender[d]
    BY <1>0, <1>11 DEF P!Terminated, P!TypeOK
  <2>4. P!TypeOK'
    BY <1>0, <1>11, <2>2, <2>3 DEF P!Terminated, P!TypeOK
  <2> QED BY <1>0, <1>11, <2>1, <2>3, <2>4 DEF P!Terminated, Closing, ProcessesOK
<1>12. CASE UNCHANGED processVars
  <2>1. P!TypeOK'
    BY <1>0, <1>12 DEF P!TypeOK, processVars
  <2> QED BY <1>12, <2>1, Calm DEF processVars, ProcessesOK
<1> QED
  BY <1>1, <1>2, <1>3, <1>4, <1>5, <1>6, <1>7, <1>8, <1>9, <1>10, <1>11, <1>12 DEF P!Next

-----------------------------------------------------------------------------
(***************************************************************************)
(* Repositories: a call that is alone at its repository finds there what   *)
(* it has read or done itself, at each of its steps.                       *)
(***************************************************************************)

\* The row is as it was said and as git has it.
Steady(i) == rows[i] = [key |-> named[i], url |-> R!Origin(i)]

\* What a call that is alone at its repository finds there.
Finds(c) ==
  LET i == repoCall[c].id IN
  /\ repoCall[c].next \in {"fill", "insert", "clean", "removeMirror"} => rows[i] = R!NoRow
  /\ repoCall[c].next \in {"sync", "fetchPath", "addOrigin", "setOrigin", "update", "undo"} =>
       rows[i] # R!NoRow /\ rows[i] = repoCall[c].row /\ rows[i].key = named[i]
  /\ repoCall[c].next \in {"fetchPath", "addOrigin", "setOrigin"} => Steady(i)
  /\ repoCall[c].next = "sync" /\ ~R!Adding(c) => Steady(i)
  /\ repoCall[c].next \in {"insert", "sync", "update"} => R!Origin(i) = repoCall[c].url
  /\ repoCall[c].next = "fetchPath" => repoCall[c].url = repoCall[c].row.url
  /\ repoCall[c].next = "addOrigin" => R!Adding(c)
  /\ repoCall[c].next = "setOrigin" => R!Origin(i) # R!NoUrl
  /\ repoCall[c].next = "undo" => repoCall[c].row.url = R!NoUrl

\* A repository that nobody crossed or cut has one call at most, and fits it.
Fits(i) ==
  /\ \A c, d \in Clients : repoCall[c].id = i /\ repoCall[d].id = i => c = d
  /\ \A c \in Clients : repoCall[c].id = i => Finds(c)
  /\ R!Resting(i) => Steady(i)

\* What is true of all repositories, and of those that nobody crossed or cut.
RepositoriesOK ==
  /\ R!TypeOK
  /\ \A i \in Ids : rows[i] # R!NoRow => named[i] \in Keys
  /\ \A i, j \in Ids : rows[i] # R!NoRow /\ rows[j] # R!NoRow /\ rows[i].key = rows[j].key => i = j
  /\ \A c \in Clients : repoCall[c] # R!Idle => named[repoCall[c].id] \in Keys
  /\ \A i \in Ids \ (repoCrossed \cup cut) : Fits(i)

\* A call that does not make its repository has read a row.
ReadsRows ==
  \A c \in Clients :
    repoCall[c].row = R!NoRow => repoCall[c].next \in {"none", "fill", "insert", "clean"}

\* What a call or an idle caller is.
LEMMA CallIs ==
  ASSUME RepositoriesOK, NEW c \in Clients
  PROVE  /\ repoCall[c] = R!Idle <=> repoCall[c].id = R!NoRepo
         /\ repoCall[c] = R!Idle <=> repoCall[c].next = "none"
         /\ repoCall[c] # R!Idle => repoCall[c] \in R!Calls
         /\ R!Idle \notin R!Calls /\ R!Idle.id = R!NoRepo /\ R!Idle.next = "none"
BY RepositoriesAssumption DEF RepositoriesOK, R!TypeOK, R!Calls, R!Idle, R!Assumption, R!Nexts

\* The caller c moves with the repository k, and nothing else does.
Frame(c, k) ==
  /\ repoCall[c].id \in {k, R!NoRepo} /\ repoCall'[c].id \in {k, R!NoRepo}
  /\ \A d \in Clients \ {c} : repoCall'[d] = repoCall[d]
  /\ \A i \in Ids \ {k} : rows'[i] = rows[i] /\ mirrors'[i] = mirrors[i] /\ named'[i] = named[i]
  /\ repoCrossed \subseteq repoCrossed' /\ cut \subseteq cut'

\* What does not move stays as it was.
LEMMA Elsewhere ==
  ASSUME RepositoriesOK, NEW c \in Clients, NEW k \in Ids, Frame(c, k),
         NEW i \in Ids \ {k}, i \notin repoCrossed' \cup cut'
  PROVE  Fits(i)'
<1>1. Fits(i)
  BY DEF RepositoriesOK, Frame
<1>2. repoCall[c].id # i /\ repoCall'[c].id # i
  BY RepositoriesAssumption DEF Frame, R!Assumption
<1>3. ASSUME NEW d \in Clients, repoCall'[d].id = i PROVE Finds(d)'
  <2>1. repoCall'[d] = repoCall[d] /\ rows'[i] = rows[i] /\ mirrors'[i] = mirrors[i] /\ named'[i] = named[i]
    BY <1>2, <1>3 DEF Frame
  <2>2. Finds(d) /\ repoCall[d].id = i
    BY <1>1, <1>3, <2>1 DEF Fits
  <2> QED BY <2>1, <2>2 DEF Finds, Steady, R!Origin, R!Adding
<1>4. \A d, e \in Clients : repoCall'[d].id = i /\ repoCall'[e].id = i => d = e
  BY <1>1, <1>2 DEF Fits, Frame
<1>5. R!Resting(i)' => Steady(i)'
  BY <1>1, <1>2 DEF Fits, Frame, R!Resting, Steady, R!Origin
<1> QED BY <1>3, <1>4, <1>5 DEF Fits

\* The one repository a call moves with is at one call again, or at none.
LEMMA Moves ==
  ASSUME RepositoriesOK, R!TypeOK', NEW c \in Clients, NEW k \in Ids, Frame(c, k),
         rows'[k] # R!NoRow \/ repoCall'[c] # R!Idle => named'[k] \in Keys,
         named[k] \in Keys => named'[k] \in Keys,
         rows'[k] # R!NoRow => \A i \in Ids \ {k} : rows[i] # R!NoRow => rows[i].key # rows'[k].key,
         k \notin repoCrossed' \cup cut' =>
           /\ \A d \in Clients \ {c} : repoCall[d].id # k
           /\ repoCall'[c].id = k => Finds(c)'
           /\ repoCall'[c].id # k /\ rows'[k] # R!NoRow => Steady(k)'
  PROVE  RepositoriesOK'
<1>1. \A i \in Ids : rows'[i] # R!NoRow => named'[i] \in Keys
  BY DEF RepositoriesOK, Frame
<1>2. \A i, j \in Ids : rows'[i] # R!NoRow /\ rows'[j] # R!NoRow /\ rows'[i].key = rows'[j].key => i = j
  BY DEF RepositoriesOK, Frame
<1>3. ASSUME NEW d \in Clients, repoCall'[d] # R!Idle PROVE named'[repoCall'[d].id] \in Keys
  <2>1. CASE d = c
    <3>1. repoCall'[d].id = k
      BY <1>3, <2>1, RepositoriesAssumption DEF Frame, R!TypeOK, R!Calls, R!Assumption
    <3> QED BY <1>3, <2>1, <3>1
  <2>2. CASE d # c
    <3>1. repoCall'[d] = repoCall[d] /\ named[repoCall[d].id] \in Keys /\ repoCall[d].id \in Ids
      BY <1>3, <2>2, CallIs DEF Frame, RepositoriesOK, R!Calls
    <3> QED BY <3>1 DEF Frame
  <2> QED BY <2>1, <2>2
<1>4. ASSUME k \notin repoCrossed' \cup cut' PROVE Fits(k)'
  BY <1>4 DEF Fits, Frame, R!Resting
<1>5. \A i \in Ids \ (repoCrossed' \cup cut') : Fits(i)'
  BY <1>4, Elsewhere
<1> QED BY <1>1, <1>2, <1>3, <1>5 DEF RepositoriesOK

\* A call that goes on is alone at its repository and finds what it expects.
LEMMA GoesOn ==
  ASSUME RepositoriesOK, NEW c \in Clients, repoCall[c].next # "none"
  PROVE  /\ repoCall[c].id \in Ids /\ repoCall[c] \in R!Calls /\ named[repoCall[c].id] \in Keys
         /\ repoCall[c].id \notin repoCrossed \cup cut =>
              Finds(c) /\ \A d \in Clients \ {c} : repoCall[d].id # repoCall[c].id
BY CallIs DEF RepositoriesOK, Fits, R!Calls, R!Idle

\* A repository without a call has the row it was given.
LEMMA AtRest ==
  ASSUME RepositoriesOK, NEW i \in Ids, i \notin repoCrossed \cup cut, rows[i] # R!NoRow,
         \A c \in Clients : repoCall[c].id # i
  PROVE  Steady(i)
BY DEF RepositoriesOK, Fits, R!Resting

\* A call that begins.
LEMMA Begun ==
  ASSUME RepositoriesOK, NEW c \in Clients, NEW k \in Ids, NEW next \in R!Nexts,
         NEW url \in Urls \cup {R!NoUrl}, R!Begins(c, k, next, url)
  PROVE  /\ repoCall' \in [Clients -> R!Calls \cup {R!Idle}] /\ repoCalls' \in 0..MaxRepoCalls
         /\ repoCrossed' \subseteq Ids /\ repoCrossed \subseteq repoCrossed'
         /\ repoCall[c].id = R!NoRepo /\ repoCall'[c].next = next /\ repoCall'[c].id = k
         /\ repoCall'[c].row = rows[k] /\ repoCall'[c].url = url
         /\ \A d \in Clients \ {c} : repoCall'[d] = repoCall[d]
         /\ k \notin repoCrossed' => \A d \in Clients : repoCall[d].id # k
<1>1. [next |-> next, id |-> k, row |-> rows[k], url |-> url] \in R!Calls
  BY DEF RepositoriesOK, R!TypeOK, R!Calls
<1>2. repoCall[c].id = R!NoRepo
  BY CallIs DEF R!Begins
<1>3. k # R!NoRepo
  BY RepositoriesAssumption DEF R!Assumption
<1>4. repoCalls' \in 0..MaxRepoCalls
  BY RepositoriesAssumption DEF R!Begins, RepositoriesOK, R!TypeOK, R!Assumption
<1>5. repoCrossed' \subseteq Ids /\ repoCrossed \subseteq repoCrossed' /\ (k \notin repoCrossed' => \A d \in Clients \ {c} : repoCall[d].id # k)
  BY DEF R!Begins, RepositoriesOK, R!TypeOK
<1>6. repoCall' = [repoCall EXCEPT ![c] = [next |-> next, id |-> k, row |-> rows[k], url |-> url]]
  BY DEF R!Begins
<1> QED BY <1>1, <1>2, <1>3, <1>4, <1>5, <1>6 DEF RepositoriesOK, R!TypeOK

\* A call that goes on to its next stage, or ends.
LEMMA Gone ==
  ASSUME RepositoriesOK, NEW c \in Clients, repoCall[c].next # "none", NEW next \in R!Nexts
  PROVE  /\ R!Goes(c, next) =>
              /\ repoCall' \in [Clients -> R!Calls \cup {R!Idle}]
              /\ repoCall'[c].next = next /\ repoCall'[c].id = repoCall[c].id
              /\ repoCall'[c].row = repoCall[c].row /\ repoCall'[c].url = repoCall[c].url
              /\ \A d \in Clients \ {c} : repoCall'[d] = repoCall[d]
         /\ R!Ends(c) =>
              /\ repoCall' \in [Clients -> R!Calls \cup {R!Idle}]
              /\ repoCall'[c] = R!Idle /\ repoCall'[c].id = R!NoRepo
              /\ \A d \in Clients \ {c} : repoCall'[d] = repoCall[d]
<1>1. repoCall[c] \in R!Calls /\ repoCall \in [Clients -> R!Calls \cup {R!Idle}]
  BY GoesOn DEF RepositoriesOK, R!TypeOK
<1>2. ASSUME R!Goes(c, next)
      PROVE  /\ repoCall' \in [Clients -> R!Calls \cup {R!Idle}]
             /\ repoCall'[c].next = next /\ repoCall'[c].id = repoCall[c].id
             /\ repoCall'[c].row = repoCall[c].row /\ repoCall'[c].url = repoCall[c].url
             /\ \A d \in Clients \ {c} : repoCall'[d] = repoCall[d]
  <2>1. repoCall'[c] = [repoCall[c] EXCEPT !.next = next]
    BY <1>1, <1>2 DEF R!Goes
  <2>2. repoCall'[c] \in R!Calls
    BY <1>1, <2>1 DEF R!Calls
  <2> QED BY <1>1, <1>2, <2>1, <2>2 DEF R!Goes, R!Calls
<1>3. R!Idle.id = R!NoRepo
  BY DEF R!Idle
<1> QED BY <1>1, <1>2, <1>3 DEF R!Ends

\* A call that only reads the row begins.
LEMMA ReaderBegins ==
  ASSUME RepositoriesOK, NEW c \in Clients, NEW k \in Ids, NEW next \in R!Nexts,
         NEW url \in Urls \cup {R!NoUrl}, R!Begins(c, k, next, url),
         UNCHANGED <<rows, mirrors, named, cut>>, rows[k] # R!NoRow, Steady(k) => Finds(c)'
  PROVE  RepositoriesOK'
<1>1. R!TypeOK'
  BY Begun DEF RepositoriesOK, R!TypeOK
<1>2. Frame(c, k)
  BY Begun DEF Frame
<1>3. k \notin repoCrossed' \cup cut' => (\A d \in Clients \ {c} : repoCall[d].id # k) /\ Finds(c)'
  BY Begun, AtRest
<1>4. named'[k] \in Keys /\ \A i \in Ids \ {k} : rows[i] # R!NoRow => rows[i].key # rows'[k].key
  BY DEF RepositoriesOK
<1>5. repoCall'[c].id = k
  BY Begun
<1> QED BY <1>1, <1>2, <1>3, <1>4, <1>5, Moves

\* What the row of a repository is, and what it is made of.
LEMMA RowIs ==
  ASSUME RepositoriesOK, NEW i \in Ids, rows[i] # R!NoRow
  PROVE  /\ rows[i] \in [key : Keys, url : Urls \cup {R!NoUrl}]
         /\ R!Origin(i) \in Urls \cup {R!NoUrl}
         /\ Steady(i) => rows[i].url = R!Origin(i) /\ rows[i].key = named[i]
BY DEF RepositoriesOK, R!TypeOK, R!RowType, Steady, R!Origin

\* A call begins: add, remove, rename, fetch or one of the remotes.
LEMMA BeginsStep ==
  ASSUME RepositoriesOK, NEW c \in Clients, NEW k \in Ids
  PROVE  /\ R!Fetch(c, k) \/ R!FetchLocal(c, k) => RepositoriesOK'
         /\ \A url \in Urls : R!RemoteAdd(c, k, url) \/ R!RemoteSet(c, k, url) => RepositoriesOK'
         /\ R!RemoteRemove(c, k) => RepositoriesOK'
<1> USE DEF R!Nexts
<1>1. ASSUME NEW next \in {"sync", "fetchPath", "addOrigin", "setOrigin"}, NEW url \in Urls \cup {R!NoUrl},
             R!Begins(c, k, next, url), UNCHANGED <<rows, mirrors, named, cut>>, rows[k] # R!NoRow,
             next \in {"sync", "fetchPath"} => url = rows[k].url,
             next \in {"sync", "setOrigin"} => rows[k].url # R!NoUrl,
             next = "addOrigin" => rows[k].url = R!NoUrl /\ url # R!NoUrl
      PROVE  RepositoriesOK'
  <2>1. ASSUME Steady(k) PROVE Finds(c)'
    <3>1. /\ repoCall'[c].next = next /\ repoCall'[c].id = k /\ repoCall'[c].row = rows[k] /\ repoCall'[c].url = url
      BY <1>1, Begun
    <3>2. rows[k].url = R!Origin(k) /\ rows[k].key = named[k]
      BY <1>1, <2>1, RowIs
    <3> QED BY <1>1, <2>1, <3>1, <3>2 DEF Finds, Steady, R!Origin, R!Adding
  <2> QED BY <1>1, <2>1, ReaderBegins
<1>2. rows[k] # R!NoRow => rows[k].url \in Urls \cup {R!NoUrl}
  BY RowIs
<1>3. ASSUME R!Fetch(c, k) PROVE RepositoriesOK'
  BY <1>1, <1>2, <1>3 DEF R!Fetch
<1>4. ASSUME R!FetchLocal(c, k) PROVE RepositoriesOK'
  BY <1>1, <1>2, <1>4 DEF R!FetchLocal
<1>5. ASSUME NEW url \in Urls, R!RemoteAdd(c, k, url) PROVE RepositoriesOK'
  BY <1>1, <1>5, RepositoriesAssumption DEF R!RemoteAdd, R!Assumption
<1>6. ASSUME NEW url \in Urls, R!RemoteSet(c, k, url) PROVE RepositoriesOK'
  BY <1>1, <1>6 DEF R!RemoteSet
<1>7. ASSUME R!RemoteRemove(c, k) PROVE RepositoriesOK'
  BY <1>1, <1>7 DEF R!RemoteRemove
<1> QED BY <1>3, <1>4, <1>5, <1>6, <1>7

\* Making, renaming and removing a repository.
LEMMA RowsStep ==
  ASSUME RepositoriesOK, NEW c \in Clients, NEW k \in Ids
  PROVE  /\ \A key \in Keys, url \in Urls \cup {R!NoUrl} : R!Add(c, k, key, url) => RepositoriesOK'
         /\ \A key \in Keys : R!Rename(c, k, key) => RepositoriesOK'
         /\ R!Remove(c, k) => RepositoriesOK'
<1> USE DEF R!Nexts
<1>1. ASSUME NEW key \in Keys, NEW url \in Urls \cup {R!NoUrl}, R!Add(c, k, key, url) PROVE RepositoriesOK'
  <2>1. R!Begins(c, k, "fill", url)
    BY <1>1 DEF R!Add
  <2>2. rows[k] = R!NoRow
    BY <1>1, RepositoriesAssumption DEF R!Add, RepositoriesOK, R!Assumption
  <2>3. R!TypeOK'
    BY <1>1, <2>1, Begun DEF R!Add, RepositoriesOK, R!TypeOK
  <2>4. Frame(c, k)
    BY <1>1, <2>1, Begun DEF R!Add, Frame, RepositoriesOK, R!TypeOK
  <2>5. repoCall'[c].next = "fill" /\ repoCall'[c].id = k /\ rows' = rows
    BY <1>1, <2>1, Begun DEF R!Add
  <2>6. Finds(c)'
    BY <2>2, <2>5 DEF Finds
  <2>7. named'[k] = key
    BY <1>1 DEF R!Add, RepositoriesOK, R!TypeOK
  <2>8. k \notin repoCrossed' => \A d \in Clients \ {c} : repoCall[d].id # k
    BY <2>1, Begun
  <2> QED BY <2>2, <2>3, <2>4, <2>5, <2>6, <2>7, <2>8, Moves
<1>2. ASSUME NEW key \in Keys, R!Rename(c, k, key) PROVE RepositoriesOK'
  <2>1. rows[k] # R!NoRow /\ rows' = [rows EXCEPT ![k].key = key] /\ named' = [named EXCEPT ![k] = key]
        /\ UNCHANGED <<mirrors, repoCall, cut>> /\ repoCall[c] = R!Idle
    BY <1>2 DEF R!Rename
  <2>2. rows'[k] = [key |-> key, url |-> rows[k].url] /\ rows'[k].key = key
        /\ \A i \in Ids \ {k} : rows'[i] = rows[i]
    BY <2>1, RowIs DEF RepositoriesOK, R!TypeOK
  <2>3. named'[k] = key /\ \A i \in Ids \ {k} : named'[i] = named[i]
    BY <2>1 DEF RepositoriesOK, R!TypeOK
  <2>4. rows' \in [Ids -> R!RowType]
    <3>1. rows'[k] \in R!RowType
      BY <2>1, <2>2, RowIs DEF R!RowType
    <3> QED BY <2>1, <3>1 DEF RepositoriesOK, R!TypeOK
  <2>5. repoCalls' \in 0..MaxRepoCalls /\ repoCrossed \subseteq repoCrossed' /\ repoCrossed' \subseteq Ids
        /\ (k \notin repoCrossed' => \A d \in Clients : repoCall[d].id # k)
    BY <1>2, RepositoriesAssumption DEF R!Rename, RepositoriesOK, R!TypeOK, R!Assumption
  <2>6. R!TypeOK'
    BY <2>1, <2>4, <2>5 DEF RepositoriesOK, R!TypeOK
  <2>7. repoCall[c].id = R!NoRepo /\ repoCall'[c].id = R!NoRepo /\ k # R!NoRepo
    BY <2>1, RepositoriesAssumption DEF R!Idle, R!Assumption
  <2>8. Frame(c, k)
    BY <2>1, <2>2, <2>3, <2>5, <2>7 DEF Frame
  <2>9. \A i \in Ids \ {k} : rows[i] # R!NoRow => rows[i].key # rows'[k].key
    BY <1>2, <2>2 DEF R!Rename, R!Taken
  <2>10. k \notin repoCrossed' \cup cut' => Steady(k)'
    BY <2>1, <2>2, <2>3, <2>5, AtRest, RowIs DEF Steady, R!Origin
  <2> QED BY <2>3, <2>5, <2>6, <2>7, <2>8, <2>9, <2>10, Moves
<1>3. ASSUME R!Remove(c, k) PROVE RepositoriesOK'
  <2>1. R!Begins(c, k, "removeMirror", R!NoUrl)
    BY <1>3 DEF R!Remove
  <2>2. rows'[k] = R!NoRow /\ rows' \in [Ids -> R!RowType] /\ \A i \in Ids \ {k} : rows'[i] = rows[i]
    BY <1>3 DEF R!Remove, RepositoriesOK, R!TypeOK, R!RowType
  <2>3. R!TypeOK'
    BY <1>3, <2>1, <2>2, Begun DEF R!Remove, RepositoriesOK, R!TypeOK
  <2>4. Frame(c, k)
    BY <1>3, <2>1, <2>2, Begun DEF R!Remove, Frame
  <2>5. repoCall'[c].next = "removeMirror" /\ repoCall'[c].id = k
    BY <2>1, Begun
  <2>6. Finds(c)'
    BY <2>2, <2>5 DEF Finds
  <2>7. named'[k] \in Keys
    BY <1>3 DEF R!Remove, RepositoriesOK
  <2>8. k \notin repoCrossed' => \A d \in Clients \ {c} : repoCall[d].id # k
    BY <2>1, Begun
  <2> QED BY <2>2, <2>3, <2>4, <2>5, <2>6, <2>7, <2>8, Moves
<1> QED BY <1>1, <1>2, <1>3

\* A call that goes on, with what it changes at its own repository.
LEMMA CallMoves ==
  ASSUME RepositoriesOK, NEW c \in Clients, NEW k \in Ids, repoCall[c].next # "none", k = repoCall[c].id,
         R!TypeOK', UNCHANGED named,
         repoCall'[c].id \in {k, R!NoRepo}, \A d \in Clients \ {c} : repoCall'[d] = repoCall[d],
         \A i \in Ids \ {k} : rows'[i] = rows[i] /\ mirrors'[i] = mirrors[i],
         repoCrossed \subseteq repoCrossed', cut \subseteq cut',
         rows'[k] = rows[k] \/ (rows'[k] # R!NoRow =>
             \A i \in Ids \ {k} : rows[i] # R!NoRow => rows[i].key # rows'[k].key),
         Finds(c) /\ k \notin cut' =>
           /\ repoCall'[c].id = k => Finds(c)'
           /\ repoCall'[c].id = R!NoRepo /\ rows'[k] # R!NoRow => Steady(k)'
  PROVE  RepositoriesOK'
<1>1. named'[k] \in Keys /\ k # R!NoRepo
  BY GoesOn, RepositoriesAssumption DEF R!Assumption
<1>2. Frame(c, k)
  BY DEF Frame
<1>3. rows'[k] # R!NoRow => \A i \in Ids \ {k} : rows[i] # R!NoRow => rows[i].key # rows'[k].key
  BY DEF RepositoriesOK
<1>4. k \notin repoCrossed' \cup cut' => Finds(c) /\ \A d \in Clients \ {c} : repoCall[d].id # k
  BY GoesOn
<1>5. k \notin repoCrossed' \cup cut' =>
           /\ \A d \in Clients \ {c} : repoCall[d].id # k
           /\ repoCall'[c].id = k => Finds(c)'
           /\ repoCall'[c].id # k /\ rows'[k] # R!NoRow => Steady(k)'
  <2>1. SUFFICES ASSUME k \notin repoCrossed' \cup cut'
                 PROVE  /\ repoCall'[c].id = k => Finds(c)'
                        /\ repoCall'[c].id # k /\ rows'[k] # R!NoRow => Steady(k)'
    BY <1>4
  <2>2. Finds(c) /\ k \notin cut'
    BY <1>4, <2>1
  <2>3. repoCall'[c].id \in {k, R!NoRepo}
    OBVIOUS
  <2> QED BY <2>2, <2>3, Zenon
<1> HIDE DEF Finds, Steady, Frame
<1> QED BY <1>1, <1>2, <1>3, <1>5, Moves

\* A call goes on, ends, fails or dies.
LEMMA CallStep ==
  ASSUME RepositoriesOK, ReadsRows, NEW c \in Clients,
         \/ R!Fill(c) \/ R!Insert(c) \/ R!Clean(c) \/ R!RemoveMirror(c) \/ R!AddOrigin(c) \/ R!SetOrigin(c)
         \/ R!Sync(c) \/ R!Update(c) \/ R!Undo(c) \/ R!Fails(c) \/ R!Dies(c)
  PROVE  RepositoriesOK'
<1> USE DEF R!At
<1>1. repoCall[c].next # "none"
  BY CallIs DEF R!Fill, R!Insert, R!Clean, R!RemoveMirror, R!AddOrigin, R!SetOrigin, R!Sync, R!Update, R!Undo, R!Fails, R!Dies
<1>2. PICK k \in Ids : k = repoCall[c].id
  BY <1>1, GoesOn
<1>3. /\ repoCall[c].url \in Urls \cup {R!NoUrl} /\ repoCall[c].row \in R!RowType /\ named[k] \in Keys
      /\ k # R!NoRepo /\ k # 0
  BY <1>1, <1>2, GoesOn, RepositoriesAssumption DEF R!Calls, R!Assumption, R!NoRepo
<1>4. /\ \A next \in R!Nexts : R!Goes(c, next) =>
              /\ repoCall' \in [Clients -> R!Calls \cup {R!Idle}]
              /\ repoCall'[c].next = next /\ repoCall'[c].id = k
              /\ repoCall'[c].row = repoCall[c].row /\ repoCall'[c].url = repoCall[c].url
              /\ \A d \in Clients \ {c} : repoCall'[d] = repoCall[d]
      /\ R!Ends(c) =>
              /\ repoCall' \in [Clients -> R!Calls \cup {R!Idle}]
              /\ repoCall'[c].id = R!NoRepo
              /\ \A d \in Clients \ {c} : repoCall'[d] = repoCall[d]
  <2>1. ASSUME NEW next \in R!Nexts, R!Goes(c, next)
        PROVE  /\ repoCall' \in [Clients -> R!Calls \cup {R!Idle}]
               /\ repoCall'[c].next = next /\ repoCall'[c].id = k
               /\ repoCall'[c].row = repoCall[c].row /\ repoCall'[c].url = repoCall[c].url
               /\ \A d \in Clients \ {c} : repoCall'[d] = repoCall[d]
    BY <1>1, <1>2, <2>1, Gone
  <2>2. "undo" \in R!Nexts
    BY DEF R!Nexts
  <2> QED BY <1>1, <2>1, <2>2, Gone
<1>5. \A next \in R!Nexts : R!Goes(c, next) \/ R!Ends(c) =>
              /\ repoCall' \in [Clients -> R!Calls \cup {R!Idle}]
              /\ repoCall'[c].id \in {k, R!NoRepo}
              /\ \A d \in Clients \ {c} : repoCall'[d] = repoCall[d]
  BY <1>4
<1>6. /\ \A i \in Ids : mirrors[i].origin \in Urls \cup {R!NoUrl}
      /\ R!Adding(c) => repoCall[c].url \in Urls
  BY <1>3 DEF RepositoriesOK, R!TypeOK, R!Adding
<1>7. ASSUME NEW place \in {"none", "ready"}, NEW origin \in Urls \cup {R!NoUrl},
             mirrors' = [mirrors EXCEPT ![k] = [at |-> place, origin |-> origin]]
      PROVE  /\ mirrors' \in [Ids -> [at : {"none", "partial", "ready"}, origin : Urls \cup {R!NoUrl}]]
             /\ \A i \in Ids \ {k} : mirrors'[i] = mirrors[i]
             /\ R!Origin(k)' = origin
  BY <1>7 DEF RepositoriesOK, R!TypeOK, R!Origin
<1>8. ASSUME NEW origin \in Urls \cup {R!NoUrl}, mirrors' = [mirrors EXCEPT ![k].origin = origin]
      PROVE  /\ mirrors' \in [Ids -> [at : {"none", "partial", "ready"}, origin : Urls \cup {R!NoUrl}]]
             /\ \A i \in Ids \ {k} : mirrors'[i] = mirrors[i]
             /\ R!Origin(k)' = origin
  <2>1. mirrors[k] \in [at : {"none", "partial", "ready"}, origin : Urls \cup {R!NoUrl}]
    BY DEF RepositoriesOK, R!TypeOK
  <2>2. mirrors'[k] = [at |-> mirrors[k].at, origin |-> origin]
    BY <1>8, <2>1 DEF RepositoriesOK, R!TypeOK
  <2> QED BY <1>8, <2>1, <2>2 DEF RepositoriesOK, R!TypeOK, R!Origin
<1>9. R!NoMirror = [at |-> "none", origin |-> R!NoUrl]
  BY DEF R!NoMirror
<1>10. ASSUME R!Fill(c) PROVE RepositoriesOK'
  <2>1. R!Goes(c, "insert") /\ mirrors' = [mirrors EXCEPT ![k] = [at |-> "ready", origin |-> repoCall[c].url]]
        /\ UNCHANGED <<rows, repoCalls, named, repoCrossed, cut>> /\ repoCall[c].next = "fill"
    BY <1>2, <1>10 DEF R!Fill
  <2>2. R!TypeOK'
    BY <1>3, <1>5, <1>7, <2>1 DEF RepositoriesOK, R!TypeOK, R!Nexts
  <2>3. Finds(c) => Finds(c)'
    BY <1>2, <1>3, <1>4, <1>7, <2>1 DEF Finds, R!Nexts, R!Origin
  <2>4. repoCall'[c].id = k /\ (\A d \in Clients \ {c} : repoCall'[d] = repoCall[d]) /\ \A i \in Ids \ {k} : mirrors'[i] = mirrors[i]
    BY <1>3, <1>4, <1>7, <2>1 DEF R!Nexts
  <2> QED BY <1>1, <1>2, <1>3, <2>1, <2>2, <2>3, <2>4, CallMoves
<1>11. ASSUME R!Insert(c) PROVE RepositoriesOK'
  <2>1. CASE R!Taken(named[k])
    <3>1. R!Goes(c, "clean") /\ UNCHANGED <<rows, mirrors, repoCalls, named, repoCrossed, cut>> /\ repoCall[c].next = "insert"
      BY <1>2, <1>11, <2>1 DEF R!Insert
    <3>2. R!TypeOK'
      BY <1>5, <3>1 DEF RepositoriesOK, R!TypeOK, R!Nexts
    <3>3. Finds(c) => Finds(c)'
      BY <1>2, <1>4, <3>1 DEF Finds, R!Nexts, R!Origin
    <3>4. repoCall'[c].id = k /\ (\A d \in Clients \ {c} : repoCall'[d] = repoCall[d])
      BY <1>4, <3>1 DEF R!Nexts
    <3> QED BY <1>1, <1>2, <1>3, <3>1, <3>2, <3>3, <3>4, CallMoves
  <2>2. CASE ~R!Taken(named[k])
    <3>1. R!Ends(c) /\ rows' = [rows EXCEPT ![k] = [key |-> named[k], url |-> repoCall[c].url]]
          /\ UNCHANGED <<mirrors, repoCalls, named, repoCrossed, cut>> /\ repoCall[c].next = "insert"
      BY <1>2, <1>11, <2>2 DEF R!Insert
    <3>2. rows' \in [Ids -> R!RowType] /\ rows'[k] = [key |-> named[k], url |-> repoCall[c].url]
          /\ rows'[k].key = named[k] /\ \A i \in Ids \ {k} : rows'[i] = rows[i]
      BY <1>3, <3>1 DEF RepositoriesOK, R!TypeOK, R!RowType
    <3>3. R!TypeOK'
      BY <1>4, <3>1, <3>2 DEF RepositoriesOK, R!TypeOK
    <3>4. \A i \in Ids \ {k} : rows[i] # R!NoRow => rows[i].key # rows'[k].key
      BY <2>2, <3>2 DEF R!Taken
    <3>5. Finds(c) => Steady(k)'
      BY <1>2, <3>1, <3>2 DEF Finds, Steady, R!Origin
    <3> QED BY <1>1, <1>2, <1>3, <1>4, <3>1, <3>2, <3>3, <3>4, <3>5, CallMoves
  <2> QED BY <2>1, <2>2
<1>12. ASSUME R!Clean(c) \/ R!RemoveMirror(c) PROVE RepositoriesOK'
  <2>1. R!Ends(c) /\ mirrors' = [mirrors EXCEPT ![k] = [at |-> "none", origin |-> R!NoUrl]]
        /\ UNCHANGED <<rows, repoCalls, named, repoCrossed, cut>> /\ repoCall[c].next \in {"clean", "removeMirror"}
    BY <1>2, <1>12, <1>9 DEF R!Clean, R!RemoveMirror
  <2>2. R!TypeOK'
    BY <1>4, <1>7, <2>1 DEF RepositoriesOK, R!TypeOK
  <2>3. Finds(c) => rows'[k] = R!NoRow
    BY <1>2, <2>1 DEF Finds
  <2> QED BY <1>1, <1>2, <1>3, <1>4, <1>7, <2>1, <2>2, <2>3, CallMoves
<1>13. ASSUME R!AddOrigin(c) PROVE RepositoriesOK'
  <2>1. CASE mirrors[k].at = "ready" /\ R!Origin(k) = R!NoUrl
    <3>1. R!Goes(c, "sync") /\ mirrors' = [mirrors EXCEPT ![k].origin = repoCall[c].url]
          /\ UNCHANGED <<rows, repoCalls, named, repoCrossed, cut>> /\ repoCall[c].next = "addOrigin"
      BY <1>2, <1>13, <2>1 DEF R!AddOrigin
    <3>2. R!TypeOK'
      BY <1>3, <1>5, <1>8, <3>1 DEF RepositoriesOK, R!TypeOK, R!Nexts
    <3>3. Finds(c) => Finds(c)'
      BY <1>2, <1>3, <1>4, <1>8, <3>1 DEF Finds, R!Nexts, R!Adding
    <3>4. repoCall'[c].id = k /\ (\A d \in Clients \ {c} : repoCall'[d] = repoCall[d]) /\ \A i \in Ids \ {k} : mirrors'[i] = mirrors[i]
      BY <1>3, <1>4, <1>8, <3>1 DEF R!Nexts
    <3> QED BY <1>1, <1>2, <1>3, <3>1, <3>2, <3>3, <3>4, CallMoves
  <2>2. CASE ~(mirrors[k].at = "ready" /\ R!Origin(k) = R!NoUrl)
    <3>1. R!Goes(c, "undo")
          /\ UNCHANGED <<rows, mirrors, repoCalls, named, repoCrossed, cut>> /\ repoCall[c].next = "addOrigin"
      BY <1>2, <1>13, <2>2 DEF R!AddOrigin
    <3>2. R!TypeOK'
      BY <1>5, <3>1 DEF RepositoriesOK, R!TypeOK, R!Nexts
    <3>3. Finds(c) => Finds(c)'
      BY <1>2, <1>4, <3>1 DEF Finds, R!Nexts, R!Adding
    <3>4. repoCall'[c].id = k /\ (\A d \in Clients \ {c} : repoCall'[d] = repoCall[d])
      BY <1>4, <3>1 DEF R!Nexts
    <3> QED BY <1>1, <1>2, <1>3, <3>1, <3>2, <3>3, <3>4, CallMoves
  <2> QED BY <2>1, <2>2
<1>14. ASSUME R!SetOrigin(c) PROVE RepositoriesOK'
  <2>1. CASE R!Origin(k) # R!NoUrl
    <3>1. R!Goes(c, "update") /\ mirrors' = [mirrors EXCEPT ![k].origin = repoCall[c].url]
          /\ UNCHANGED <<rows, repoCalls, named, repoCrossed, cut>> /\ repoCall[c].next = "setOrigin"
      BY <1>2, <1>14, <2>1 DEF R!SetOrigin
    <3>2. R!TypeOK'
      BY <1>3, <1>5, <1>8, <3>1 DEF RepositoriesOK, R!TypeOK, R!Nexts
    <3>3. Finds(c) => Finds(c)'
      BY <1>2, <1>3, <1>4, <1>8, <3>1 DEF Finds, R!Nexts
    <3>4. repoCall'[c].id = k /\ (\A d \in Clients \ {c} : repoCall'[d] = repoCall[d]) /\ \A i \in Ids \ {k} : mirrors'[i] = mirrors[i]
      BY <1>3, <1>4, <1>8, <3>1 DEF R!Nexts
    <3> QED BY <1>1, <1>2, <1>3, <3>1, <3>2, <3>3, <3>4, CallMoves
  <2>2. CASE R!Origin(k) = R!NoUrl
    <3>1. R!Ends(c) /\ UNCHANGED <<rows, mirrors, repoCalls, named, repoCrossed, cut>> /\ repoCall[c].next = "setOrigin"
      BY <1>2, <1>14, <2>2 DEF R!SetOrigin
    <3>2. R!TypeOK'
      BY <1>4, <3>1 DEF RepositoriesOK, R!TypeOK
    <3>3. ~Finds(c)
      BY <1>2, <2>2, <3>1 DEF Finds
    <3> QED BY <1>1, <1>2, <1>3, <1>4, <3>1, <3>2, <3>3, CallMoves
  <2> QED BY <2>1, <2>2
<1>15. ASSUME R!Sync(c) PROVE RepositoriesOK'
  <2>0. repoCall[c].next \in {"sync", "fetchPath"} /\ UNCHANGED <<rows, mirrors, repoCalls, named, repoCrossed, cut>>
    BY <1>15 DEF R!Sync
  <2>1. R!Goes(c, "update") \/ (R!Adding(c) /\ R!Goes(c, "undo")) \/ (~R!Adding(c) /\ R!Ends(c))
    BY <1>15 DEF R!Sync
  <2>2. R!TypeOK'
    BY <1>5, <2>0, <2>1 DEF RepositoriesOK, R!TypeOK, R!Nexts
  <2>3. (\A d \in Clients \ {c} : repoCall'[d] = repoCall[d]) /\ repoCall'[c].id \in {k, R!NoRepo}
    BY <1>5, <2>1 DEF R!Nexts
  <2>4. CASE R!Goes(c, "update")
    <3>1. repoCall'[c].next = "update" /\ repoCall'[c].id = k /\ repoCall'[c].row = repoCall[c].row /\ repoCall'[c].url = repoCall[c].url
      BY <1>4, <2>4 DEF R!Nexts
    <3>2. Finds(c) => rows[k] # R!NoRow /\ R!Origin(k) = repoCall[c].url
      BY <1>2, <2>0, RowIs DEF Finds
    <3>3. Finds(c) => Finds(c)'
      BY <1>2, <2>0, <3>1, <3>2 DEF Finds, R!Origin
    <3> QED BY <1>1, <1>2, <1>3, <2>0, <2>2, <2>3, <3>1, <3>3, CallMoves
  <2>5. CASE R!Adding(c) /\ R!Goes(c, "undo")
    <3>1. repoCall'[c].next = "undo" /\ repoCall'[c].id = k /\ repoCall'[c].row = repoCall[c].row /\ repoCall'[c].url = repoCall[c].url
      BY <1>4, <2>5 DEF R!Nexts
    <3>2. Finds(c) => Finds(c)'
      BY <1>2, <2>0, <2>5, <3>1 DEF Finds, R!Adding
    <3> QED BY <1>1, <1>2, <1>3, <2>0, <2>2, <2>3, <3>1, <3>2, CallMoves
  <2>6. CASE ~R!Adding(c) /\ R!Ends(c)
    <3>1. repoCall'[c].id = R!NoRepo
      BY <1>4, <2>6
    <3>2. Finds(c) => Steady(k)'
      BY <1>2, <2>0, <2>6 DEF Finds, Steady, R!Origin
    <3> QED BY <1>1, <1>2, <1>3, <2>0, <2>2, <2>3, <3>1, <3>2, CallMoves
  <2> QED BY <2>1, <2>4, <2>5, <2>6
<1>16. ASSUME R!Update(c) PROVE RepositoriesOK'
  <2> DEFINE key == repoCall[c].row.key
             free == \A j \in Ids \ {k} : rows[j] # R!NoRow => rows[j].key # key
  <2>0. repoCall[c].next = "update" /\ UNCHANGED <<mirrors, repoCalls, named, repoCrossed, cut>>
    BY <1>16 DEF R!Update
  <2>1. CASE rows[k] # R!NoRow /\ free
    <3>1. rows' = [rows EXCEPT ![k] = [key |-> key, url |-> repoCall[c].url]] /\ R!Ends(c)
      BY <1>2, <1>16, <2>1 DEF R!Update
    <3>2. key \in Keys
      <4>1. repoCall[c].row # R!NoRow
        BY <2>0 DEF ReadsRows
      <4> QED BY <1>3, <4>1 DEF R!RowType
    <3>3. rows' \in [Ids -> R!RowType] /\ rows'[k] = [key |-> key, url |-> repoCall[c].url]
          /\ rows'[k].key = key /\ \A i \in Ids \ {k} : rows'[i] = rows[i]
      BY <1>3, <3>1, <3>2 DEF RepositoriesOK, R!TypeOK, R!RowType
    <3>4. R!TypeOK'
      BY <1>4, <2>0, <3>1, <3>3 DEF RepositoriesOK, R!TypeOK
    <3>5. Finds(c) => Steady(k)'
      BY <1>2, <2>0, <3>1, <3>3 DEF Finds, Steady, R!Origin
    <3> QED BY <1>1, <1>2, <1>3, <1>4, <2>0, <2>1, <3>1, <3>3, <3>4, <3>5, CallMoves
  <2>2. CASE ~(rows[k] # R!NoRow /\ free)
    <3>1. ((R!Adding(c) /\ R!Goes(c, "undo")) \/ (~R!Adding(c) /\ R!Ends(c))) /\ UNCHANGED rows
      <4>1. (IF R!Adding(c) THEN R!Goes(c, "undo") ELSE R!Ends(c)) /\ UNCHANGED rows
        BY <1>2, <1>16, <2>2, Zenon DEF R!Update
      <4> QED BY <4>1
    <3>2. R!TypeOK'
      BY <1>5, <2>0, <3>1 DEF RepositoriesOK, R!TypeOK, R!Nexts
    <3>3. ~Finds(c)
      BY <1>2, <2>0, <2>2 DEF Finds, RepositoriesOK
    <3>4. repoCall'[c].id \in {k, R!NoRepo} /\ \A d \in Clients \ {c} : repoCall'[d] = repoCall[d]
      BY <1>5, <3>1 DEF R!Nexts
    <3> QED BY <1>1, <1>2, <1>3, <2>0, <3>1, <3>2, <3>3, <3>4, CallMoves
  <2> QED BY <2>1, <2>2
<1>17. ASSUME R!Undo(c) PROVE RepositoriesOK'
  <2>1. R!Ends(c) /\ mirrors' = [mirrors EXCEPT ![k].origin = R!NoUrl]
        /\ UNCHANGED <<rows, repoCalls, named, repoCrossed, cut>> /\ repoCall[c].next = "undo"
    BY <1>2, <1>17 DEF R!Undo
  <2>2. R!TypeOK'
    BY <1>4, <1>8, <2>1 DEF RepositoriesOK, R!TypeOK
  <2>3. Finds(c) => Steady(k)'
    <3>1. R!Origin(k)' = R!NoUrl
      BY <1>8, <2>1
    <3>2. Finds(c) => rows[k] # R!NoRow /\ rows[k].key = named[k] /\ rows[k].url = R!NoUrl
      BY <1>2, <2>1 DEF Finds
    <3>3. rows[k] # R!NoRow => rows[k] \in [key : Keys, url : Urls \cup {R!NoUrl}]
      BY RowIs
    <3> QED BY <2>1, <3>1, <3>2, <3>3 DEF Steady
  <2> QED BY <1>1, <1>2, <1>3, <1>4, <1>8, <2>1, <2>2, <2>3, CallMoves
<1>18. ASSUME R!Fails(c) PROVE RepositoriesOK'
  <2>0. UNCHANGED <<rows, mirrors, repoCalls, named, repoCrossed>> /\ repoCall[c].next \notin {"none", "undo", "clean", "removeMirror"}
    BY <1>18 DEF R!Fails
  <2>1. \/ repoCall[c].next \in {"fill", "insert"} /\ R!Goes(c, "clean") /\ UNCHANGED cut
        \/ repoCall[c].next \notin {"fill", "insert"} /\ R!Adding(c) /\ R!Goes(c, "undo") /\ UNCHANGED cut
        \/ repoCall[c].next \notin {"fill", "insert"} /\ ~R!Adding(c) /\ R!Ends(c)
           /\ cut' = IF repoCall[c].next = "update" THEN cut \cup {k} ELSE cut
    BY <1>2, <1>18 DEF R!Fails
  <2>2. cut' \subseteq Ids /\ cut \subseteq cut'
    BY <2>1 DEF RepositoriesOK, R!TypeOK
  <2>3. R!TypeOK'
    BY <1>5, <2>0, <2>1, <2>2 DEF RepositoriesOK, R!TypeOK, R!Nexts
  <2>4. repoCall'[c].id \in {k, R!NoRepo} /\ \A d \in Clients \ {c} : repoCall'[d] = repoCall[d]
    BY <1>5, <2>1 DEF R!Nexts
  <2>5. repoCall[c].next \in R!Nexts
    BY <1>1, GoesOn DEF R!Calls
  <2>6. Finds(c) /\ k \notin cut' =>
          /\ repoCall'[c].id = k => Finds(c)'
          /\ repoCall'[c].id = R!NoRepo /\ rows'[k] # R!NoRow => Steady(k)'
    <3>1. CASE repoCall[c].next \in {"fill", "insert"} /\ R!Goes(c, "clean")
      BY <1>2, <1>3, <1>4, <2>0, <3>1 DEF Finds, R!Nexts, Steady, R!Origin
    <3>2. CASE repoCall[c].next \notin {"fill", "insert"} /\ R!Adding(c) /\ R!Goes(c, "undo")
      BY <1>2, <1>3, <1>4, <2>0, <2>5, <3>2 DEF Finds, R!Nexts, Steady, R!Origin, R!Adding
    <3>3. CASE repoCall[c].next \notin {"fill", "insert"} /\ ~R!Adding(c) /\ R!Ends(c)
               /\ cut' = IF repoCall[c].next = "update" THEN cut \cup {k} ELSE cut
      BY <1>2, <1>3, <1>4, <2>0, <2>5, <3>3 DEF Finds, R!Nexts, Steady, R!Origin
    <3> QED BY <2>1, <3>1, <3>2, <3>3
  <2> QED BY <1>1, <1>2, <1>3, <2>0, <2>2, <2>3, <2>4, <2>6, CallMoves
<1>19. ASSUME R!Dies(c) PROVE RepositoriesOK'
  <2>1. R!Ends(c) /\ cut' = cut \cup {k} /\ UNCHANGED <<rows, mirrors, repoCalls, named, repoCrossed>>
    BY <1>2, <1>19 DEF R!Dies
  <2>2. R!TypeOK'
    BY <1>4, <2>1 DEF RepositoriesOK, R!TypeOK
  <2> QED BY <1>1, <1>2, <1>3, <1>4, <2>1, <2>2, CallMoves
<1> QED BY <1>10, <1>11, <1>12, <1>13, <1>14, <1>15, <1>16, <1>17, <1>18, <1>19

\* No step begins to use a row that was not read.
LEMMA ReadsRowsStep ==
  ASSUME RepositoriesOK, ReadsRows, [R!Next]_repoVars
  PROVE  ReadsRows'
<1> USE DEF R!At
<1>1. ASSUME NEW c \in Clients, \A d \in Clients \ {c} : repoCall'[d] = repoCall[d],
             repoCall'[c].row = R!NoRow => repoCall'[c].next \in {"none", "fill", "insert", "clean"}
      PROVE  ReadsRows'
  BY <1>1 DEF ReadsRows
<1>2. ASSUME NEW c \in Clients, NEW i \in Ids, NEW next \in R!Nexts, NEW url \in Urls \cup {R!NoUrl},
             R!Begins(c, i, next, url), next = "fill" \/ rows[i] # R!NoRow
      PROVE  ReadsRows'
  BY <1>1, <1>2, Begun
<1>3. ASSUME NEW c \in Clients, NEW i \in Ids,
             \/ \E key \in Keys, url \in Urls \cup {R!NoUrl} : R!Add(c, i, key, url)
             \/ \E url \in Urls : R!RemoteAdd(c, i, url) \/ R!RemoteSet(c, i, url)
             \/ R!RemoteRemove(c, i) \/ R!Fetch(c, i) \/ R!FetchLocal(c, i) \/ R!Remove(c, i)
      PROVE  ReadsRows'
  <2>1. rows[i] # R!NoRow => rows[i].url \in Urls \cup {R!NoUrl}
    BY RowIs
  <2> QED
    BY <1>2, <1>3, <2>1
       DEF R!Add, R!RemoteAdd, R!RemoteSet, R!RemoteRemove, R!Fetch, R!FetchLocal, R!Remove, R!Nexts
<1>4. ASSUME NEW c \in Clients, NEW i \in Ids, NEW key \in Keys, R!Rename(c, i, key)
      PROVE  ReadsRows'
  BY <1>4 DEF R!Rename, ReadsRows
<1>5. ASSUME NEW c \in Clients, repoCall[c].next # "none", NEW next \in R!Nexts, R!Goes(c, next),
             repoCall[c].next \in {"fill", "insert"} => next \in {"insert", "clean"},
             repoCall[c].next # "clean"
      PROVE  ReadsRows'
  <2>1. /\ repoCall'[c].next = next /\ repoCall'[c].row = repoCall[c].row
        /\ \A d \in Clients \ {c} : repoCall'[d] = repoCall[d]
    BY <1>5, Gone
  <2>2. repoCall[c].row = R!NoRow => repoCall[c].next \in {"fill", "insert"}
    BY <1>5 DEF ReadsRows
  <2> QED BY <1>1, <1>5, <2>1, <2>2
<1>6. ASSUME NEW c \in Clients, repoCall[c].next # "none", R!Ends(c) PROVE ReadsRows'
  <2>1. repoCall'[c] = R!Idle /\ \A d \in Clients \ {c} : repoCall'[d] = repoCall[d]
    BY <1>6, Gone DEF R!Nexts
  <2> QED BY <1>1, <2>1 DEF R!Idle
<1>7. ASSUME NEW c \in Clients,
         \/ R!Fill(c) \/ R!Insert(c) \/ R!Clean(c) \/ R!RemoveMirror(c) \/ R!AddOrigin(c) \/ R!SetOrigin(c)
         \/ R!Sync(c) \/ R!Update(c) \/ R!Undo(c) \/ R!Fails(c) \/ R!Dies(c)
      PROVE  ReadsRows'
  <2>1. repoCall[c].next # "none"
    BY <1>7, CallIs DEF R!Fill, R!Insert, R!Clean, R!RemoveMirror, R!AddOrigin, R!SetOrigin, R!Sync, R!Update, R!Undo, R!Fails, R!Dies
  <2>2. \/ repoCall[c].next \in {"fill", "insert"} /\ (R!Goes(c, "insert") \/ R!Goes(c, "clean"))
        \/ repoCall[c].next \notin {"fill", "insert", "clean"}
           /\ (R!Goes(c, "sync") \/ R!Goes(c, "update") \/ R!Goes(c, "undo"))
        \/ R!Ends(c)
    BY <1>7 DEF R!Fill, R!Insert, R!Clean, R!RemoveMirror, R!AddOrigin, R!SetOrigin, R!Sync, R!Update, R!Undo, R!Fails, R!Dies
  <2> QED BY <1>5, <1>6, <2>1, <2>2 DEF R!Nexts
<1>8. CASE UNCHANGED repoVars
  BY <1>8 DEF repoVars, ReadsRows
<1> QED BY <1>3, <1>4, <1>7, <1>8 DEF R!Next

\* No step of a call breaks what is said of the rows.
LEMMA RepositoriesStep ==
  ASSUME RepositoriesOK, ReadsRows, [R!Next]_repoVars
  PROVE  RepositoriesOK'
<1>1. ASSUME UNCHANGED repoVars PROVE RepositoriesOK'
  <2>1. /\ rows' = rows /\ mirrors' = mirrors /\ repoCall' = repoCall /\ repoCalls' = repoCalls
        /\ named' = named /\ repoCrossed' = repoCrossed /\ cut' = cut
    BY <1>1 DEF repoVars
  <2> QED BY <2>1 DEF RepositoriesOK, R!TypeOK, Fits, Finds, R!Resting, Steady, R!Origin, R!Adding
<1> QED BY <1>1, BeginsStep, RowsStep, CallStep DEF R!Next

\* There is no repository and no call before the first.
LEMMA RepositoriesInit ==
  ASSUME R!Init
  PROVE  RepositoriesOK /\ ReadsRows
<1> USE RepositoriesAssumption DEF R!Assumption
<1>1. R!TypeOK
  BY DEF R!Init, R!TypeOK, R!RowType, R!NoMirror
<1>2. \A i \in Ids : Fits(i)
  BY DEF R!Init, Fits, R!Resting, R!Idle
<1> QED BY <1>1, <1>2 DEF R!Init, RepositoriesOK, ReadsRows, R!Idle

\* What the repositories at rest say.
LEMMA RepositoriesSay ==
  ASSUME RepositoriesOK
  PROVE  R!RowIsAsSaid
BY DEF RepositoriesOK, Fits, Steady, R!RowIsAsSaid

\* A call makes a repository that is not yet there, or removes what is left of one.
MakesMirror(c) == repoCall[c].next \in {"fill", "insert", "clean"}
DropsMirror(c) == repoCall[c].next = "removeMirror"

\* What has a row has its mirror, because calls that make or remove the mirror of
\* a repository without a row do not meet there.
MirrorsOK ==
  /\ \A i \in Ids : rows[i] # R!NoRow => mirrors[i].at = "ready"
  /\ \A c \in Clients :
       /\ MakesMirror(c) \/ DropsMirror(c) => rows[repoCall[c].id] = R!NoRow
       /\ repoCall[c].next = "insert" => mirrors[repoCall[c].id].at = "ready"
       /\ MakesMirror(c) => \A d \in Clients :
            repoCall[d].id = repoCall[c].id /\ (MakesMirror(d) \/ DropsMirror(d)) => d = c

\* A step of the call of c at the repository k keeps it.
LEMMA MirrorsStay ==
  ASSUME RepositoriesOK, MirrorsOK, NEW c \in Clients, NEW k \in Ids,
         \A d \in Clients \ {c} : repoCall'[d] = repoCall[d],
         \A i \in Ids \ {k} : rows'[i] = rows[i] /\ mirrors'[i] = mirrors[i],
         rows'[k] # R!NoRow => mirrors'[k].at = "ready",
         MakesMirror(c)' \/ DropsMirror(c)' => repoCall'[c].id = k /\ rows'[k] = R!NoRow,
         repoCall'[c].next = "insert" => mirrors'[k].at = "ready",
         \A d \in Clients \ {c} : repoCall[d].id = k /\ (MakesMirror(d) \/ DropsMirror(d)) =>
           /\ rows'[k] = R!NoRow /\ ~MakesMirror(c)'
           /\ MakesMirror(d) => mirrors'[k].at = mirrors[k].at /\ ~DropsMirror(c)'
  PROVE  MirrorsOK'
<1>1. \A d \in Clients : MakesMirror(d) \/ DropsMirror(d) => repoCall[d].id \in Ids
  BY CallIs DEF MakesMirror, DropsMirror, R!Calls
<1>2. \A d \in Clients \ {c} : (MakesMirror(d)' <=> MakesMirror(d)) /\ (DropsMirror(d)' <=> DropsMirror(d))
  BY DEF MakesMirror, DropsMirror
<1>3. \A i \in Ids : rows'[i] # R!NoRow => mirrors'[i].at = "ready"
  BY DEF MirrorsOK
<1>4. ASSUME NEW d \in Clients
      PROVE  /\ MakesMirror(d)' \/ DropsMirror(d)' => rows'[repoCall'[d].id] = R!NoRow
             /\ repoCall'[d].next = "insert" => mirrors'[repoCall'[d].id].at = "ready"
             /\ MakesMirror(d)' => \A e \in Clients :
                  repoCall'[e].id = repoCall'[d].id /\ (MakesMirror(e)' \/ DropsMirror(e)') => e = d
  <2>1. CASE d = c
    BY <1>2, <2>1 DEF MakesMirror
  <2>2. CASE d # c
    <3>1. repoCall'[d] = repoCall[d] /\ (repoCall[d].next = "insert" => MakesMirror(d))
      BY <2>2 DEF MakesMirror
    <3>2. CASE MakesMirror(d) \/ DropsMirror(d)
      BY <1>1, <1>2, <2>2, <3>1, <3>2 DEF MirrorsOK
    <3>3. CASE ~(MakesMirror(d) \/ DropsMirror(d))
      BY <1>2, <2>2, <3>1, <3>3
    <3> QED BY <3>2, <3>3
  <2> QED BY <2>1, <2>2
<1> QED BY <1>3, <1>4 DEF MirrorsOK
\* A call begins.
LEMMA MirrorsBegin ==
  ASSUME RepositoriesOK, MirrorsOK, NEW c \in Clients, NEW k \in Ids
  PROVE  /\ \A key \in Keys, url \in Urls \cup {R!NoUrl} : R!Add(c, k, key, url) => MirrorsOK'
         /\ \A key \in Keys : R!Rename(c, k, key) => MirrorsOK'
         /\ \A url \in Urls : R!RemoteAdd(c, k, url) \/ R!RemoteSet(c, k, url) => MirrorsOK'
         /\ R!RemoteRemove(c, k) \/ R!Fetch(c, k) \/ R!FetchLocal(c, k) \/ R!Remove(c, k) => MirrorsOK'
<1>1. rows[k] # R!NoRow => \A d \in Clients : MakesMirror(d) \/ DropsMirror(d) => repoCall[d].id # k
  BY DEF MirrorsOK
<1>2. ASSUME NEW next \in {"removeMirror", "sync", "fetchPath", "addOrigin", "setOrigin"},
             NEW url \in Urls \cup {R!NoUrl}, R!Begins(c, k, next, url), rows[k] # R!NoRow,
             \A i \in Ids \ {k} : rows'[i] = rows[i], mirrors' = mirrors,
             rows'[k] = IF next = "removeMirror" THEN R!NoRow ELSE rows[k]
      PROVE  MirrorsOK'
  <2>1. repoCall'[c].next = next /\ repoCall'[c].id = k /\ \A d \in Clients \ {c} : repoCall'[d] = repoCall[d]
    BY <1>2, Begun DEF R!Nexts
  <2>2. rows'[k] # R!NoRow => mirrors'[k].at = "ready"
    BY <1>2 DEF MirrorsOK
  <2> QED BY <1>1, <1>2, <2>1, <2>2, MirrorsStay DEF MakesMirror, DropsMirror
<1>3. ASSUME NEW key \in Keys, NEW url \in Urls \cup {R!NoUrl}, R!Add(c, k, key, url) PROVE MirrorsOK'
  <2>1. R!Begins(c, k, "fill", url) /\ rows' = rows /\ named[k] \notin Keys
        /\ \A i \in Ids \ {k} : mirrors'[i] = mirrors[i]
    BY <1>3, RepositoriesAssumption DEF R!Add, R!Assumption, RepositoriesOK, R!TypeOK
  <2>2. rows[k] = R!NoRow /\ \A d \in Clients : repoCall[d].id = k => repoCall[d] = R!Idle
    BY <2>1 DEF RepositoriesOK
  <2>3. \A d \in Clients : repoCall[d].id # k
    BY <2>2, CallIs, RepositoriesAssumption DEF R!Assumption
  <2>4. repoCall'[c].next = "fill" /\ repoCall'[c].id = k /\ \A d \in Clients \ {c} : repoCall'[d] = repoCall[d]
    BY <2>1, Begun DEF R!Nexts
  <2> QED BY <2>1, <2>2, <2>3, <2>4, MirrorsStay DEF MakesMirror, DropsMirror
<1>4. ASSUME NEW key \in Keys, R!Rename(c, k, key) PROVE MirrorsOK'
  <2>1. rows[k] # R!NoRow /\ \A i \in Ids \ {k} : rows'[i] = rows[i]
    BY <1>4 DEF R!Rename, RepositoriesOK, R!TypeOK
  <2>2. mirrors' = mirrors /\ repoCall' = repoCall
    BY <1>4 DEF R!Rename
  <2>3. \A i \in Ids : rows'[i] # R!NoRow => rows[i] # R!NoRow
    BY <2>1
  <2>4. \A d \in Clients : MakesMirror(d) \/ DropsMirror(d) => rows'[repoCall[d].id] = rows[repoCall[d].id]
    BY <1>1, <2>1, CallIs DEF MakesMirror, DropsMirror, R!Calls
  <2> QED BY <2>2, <2>3, <2>4 DEF MirrorsOK, MakesMirror, DropsMirror
<1>5. rows[k] # R!NoRow => rows[k].url \in Urls \cup {R!NoUrl}
  BY RowIs
<1>6. R!Fetch(c, k) \/ R!FetchLocal(c, k) => MirrorsOK'
  BY <1>2, <1>5 DEF R!Fetch, R!FetchLocal
<1>7. \A url \in Urls : R!RemoteAdd(c, k, url) \/ R!RemoteSet(c, k, url) => MirrorsOK'
  BY <1>2 DEF R!RemoteAdd, R!RemoteSet
<1>8. R!RemoteRemove(c, k) => MirrorsOK'
  BY <1>2 DEF R!RemoteRemove
<1>9. R!Remove(c, k) => MirrorsOK'
  BY <1>2 DEF R!Remove, RepositoriesOK, R!TypeOK
<1> QED BY <1>3, <1>4, <1>6, <1>7, <1>8, <1>9

\* A call goes on, ends, fails or dies.
LEMMA MirrorsGoOn ==
  ASSUME RepositoriesOK, MirrorsOK, NEW c \in Clients,
         \/ R!Fill(c) \/ R!Insert(c) \/ R!Clean(c) \/ R!RemoveMirror(c) \/ R!AddOrigin(c) \/ R!SetOrigin(c)
         \/ R!Sync(c) \/ R!Update(c) \/ R!Undo(c) \/ R!Fails(c) \/ R!Dies(c)
  PROVE  MirrorsOK'
<1> USE DEF R!At
<1>1. repoCall[c].next # "none"
  BY CallIs DEF R!Fill, R!Insert, R!Clean, R!RemoveMirror, R!AddOrigin, R!SetOrigin, R!Sync, R!Update, R!Undo, R!Fails, R!Dies
<1>2. PICK k \in Ids : k = repoCall[c].id
  BY <1>1, GoesOn
<1>3. \A next \in R!Nexts : R!Goes(c, next) =>
        repoCall'[c].next = next /\ repoCall'[c].id = k /\ \A d \in Clients \ {c} : repoCall'[d] = repoCall[d]
  BY <1>1, <1>2, Gone
<1>4. R!Ends(c) => repoCall'[c].next = "none" /\ \A d \in Clients \ {c} : repoCall'[d] = repoCall[d]
  BY <1>1, Gone DEF R!Nexts, R!Idle
<1>5. rows \in [Ids -> R!RowType] /\ mirrors \in [Ids -> [at : {"none", "partial", "ready"}, origin : Urls \cup {R!NoUrl}]]
  BY DEF RepositoriesOK, R!TypeOK
<1>6. rows[k] # R!NoRow => mirrors[k].at = "ready"
  BY DEF MirrorsOK
<1>7. MakesMirror(c) => rows[k] = R!NoRow /\ \A d \in Clients \ {c} : repoCall[d].id = k => ~(MakesMirror(d) \/ DropsMirror(d))
  BY <1>2 DEF MirrorsOK
<1>8. \A d \in Clients : repoCall[d].id = k /\ (MakesMirror(d) \/ DropsMirror(d)) => rows[k] = R!NoRow
  BY DEF MirrorsOK
<1>9. \A d \in Clients \ {c} : DropsMirror(c) /\ repoCall[d].id = k => ~MakesMirror(d)
  BY <1>2 DEF MirrorsOK
\* Making a repository.
<1>10. CASE R!Fill(c)
  <2>1. R!Goes(c, "insert") /\ rows' = rows /\ mirrors'[k].at = "ready" /\ MakesMirror(c)
        /\ \A i \in Ids \ {k} : mirrors'[i] = mirrors[i]
    BY <1>2, <1>5, <1>10 DEF R!Fill, MakesMirror
  <2> QED BY <1>3, <1>7, <2>1, MirrorsStay DEF MakesMirror, DropsMirror, R!Nexts
<1>11. CASE R!Insert(c)
  <2>1. MakesMirror(c) /\ mirrors' = mirrors /\ \A i \in Ids \ {k} : rows'[i] = rows[i]
    BY <1>2, <1>5, <1>11 DEF R!Insert, MakesMirror
  <2>2. (R!Goes(c, "clean") /\ rows' = rows) \/ R!Ends(c)
    BY <1>11 DEF R!Insert
  <2>3. mirrors[k].at = "ready"
    BY <1>2, <1>11 DEF R!Insert, MirrorsOK
  <2> QED BY <1>3, <1>4, <1>7, <2>1, <2>2, <2>3, MirrorsStay DEF MakesMirror, DropsMirror, R!Nexts
<1>12. CASE R!Clean(c) \/ R!RemoveMirror(c)
  <2>1. (MakesMirror(c) \/ DropsMirror(c)) /\ R!Ends(c) /\ rows' = rows /\ \A i \in Ids \ {k} : mirrors'[i] = mirrors[i]
    BY <1>2, <1>5, <1>12 DEF R!Clean, R!RemoveMirror, MakesMirror, DropsMirror
  <2>2. rows[k] = R!NoRow
    BY <1>2, <2>1, <1>8
  <2> QED BY <1>4, <1>7, <1>9, <2>1, <2>2, MirrorsStay DEF MakesMirror, DropsMirror
\* With a repository that is there.
<1>13. ASSUME \A i \in Ids \ {k} : rows'[i] = rows[i] /\ mirrors'[i] = mirrors[i],
              mirrors'[k].at = mirrors[k].at, rows'[k] # R!NoRow => rows[k] # R!NoRow,
              rows[k] = R!NoRow => rows'[k] = R!NoRow,
              R!Ends(c) \/ \E next \in R!Nexts \ {"fill", "insert", "clean", "removeMirror"} : R!Goes(c, next)
       PROVE  MirrorsOK'
  <2>1. ~MakesMirror(c)' /\ ~DropsMirror(c)' /\ repoCall'[c].next # "insert"
        /\ \A d \in Clients \ {c} : repoCall'[d] = repoCall[d]
    BY <1>3, <1>4, <1>13 DEF MakesMirror, DropsMirror
  <2> QED BY <1>6, <1>8, <1>13, <2>1, MirrorsStay
<1>14. CASE R!AddOrigin(c) \/ R!SetOrigin(c) \/ R!Undo(c)
  <2>1. rows' = rows /\ (\A i \in Ids \ {k} : mirrors'[i] = mirrors[i]) /\ mirrors'[k].at = mirrors[k].at
    BY <1>2, <1>5, <1>14 DEF R!AddOrigin, R!SetOrigin, R!Undo
  <2>2. R!Ends(c) \/ R!Goes(c, "sync") \/ R!Goes(c, "update") \/ R!Goes(c, "undo")
    BY <1>14 DEF R!AddOrigin, R!SetOrigin, R!Undo
  <2> QED BY <1>13, <2>1, <2>2 DEF R!Nexts
<1>15. CASE R!Sync(c) \/ R!Update(c)
  <2>1. mirrors' = mirrors /\ (\A i \in Ids \ {k} : rows'[i] = rows[i]) /\ (rows[k] = R!NoRow => rows' = rows)
    BY <1>2, <1>5, <1>15 DEF R!Sync, R!Update
  <2>2. R!Ends(c) \/ R!Goes(c, "update") \/ R!Goes(c, "undo")
    BY <1>15 DEF R!Sync, R!Update
  <2> QED BY <1>13, <2>1, <2>2 DEF R!Nexts
<1>16. CASE R!Fails(c)
  <2>1. rows' = rows /\ mirrors' = mirrors
    BY <1>16 DEF R!Fails
  <2>2. (MakesMirror(c) /\ R!Goes(c, "clean")) \/ R!Ends(c) \/ R!Goes(c, "undo")
    BY <1>16 DEF R!Fails, MakesMirror
  <2>3. CASE MakesMirror(c) /\ R!Goes(c, "clean")
    BY <1>3, <1>7, <2>1, <2>3, MirrorsStay DEF MakesMirror, DropsMirror, R!Nexts
  <2> QED BY <1>13, <2>1, <2>2, <2>3 DEF R!Nexts
<1>17. CASE R!Dies(c)
  BY <1>13, <1>17 DEF R!Dies
<1> QED BY <1>10, <1>11, <1>12, <1>14, <1>15, <1>16, <1>17

\* No step breaks it.
LEMMA MirrorsStep ==
  ASSUME RepositoriesOK, MirrorsOK, [R!Next]_repoVars
  PROVE  MirrorsOK'
<1>1. UNCHANGED repoVars => MirrorsOK'
  BY DEF repoVars, MirrorsOK, MakesMirror, DropsMirror
<1> QED BY <1>1, MirrorsBegin, MirrorsGoOn DEF R!Next

\* There is no mirror before the first.
LEMMA MirrorsInit == R!Init => MirrorsOK
BY DEF R!Init, MirrorsOK, MakesMirror, DropsMirror, R!Idle

-----------------------------------------------------------------------------
(***************************************************************************)
(* TaskTree: what was notified of a task and is not shown is on its way,   *)
(* in a notification behind every snapshot or detail that lacks it, or in  *)
(* a snapshot or a detail that was asked for, unless that request's error  *)
(* is on its way.                                                          *)
(***************************************************************************)

Events   == [seq : Nat, task : Tasks, n : Nat, since : Nat]
TreeAsk  == [is |-> "tree"]
LateAsk  == [is |-> "late"]
DetailAsks == [is : {"detail"}, task : Tasks, by : {"user", "event", "recovery"}]
Requests == {TreeAsk, LateAsk} \cup DetailAsks
\* What may be on its way.
Messages ==
  [is : {"event"}, seq : Nat, task : Tasks, n : Nat]
  \cup [is : {"tree"}, seq : Nat, tasks : [Tasks -> Nat]]
  \cup [is : {"detail"}, task : Tasks, n : Nat, by : {"user", "event", "recovery"}]
  \cup [is : {"task"}, task : Tasks, n : Nat]
  \cup [is : {"error"}, of : {TreeAsk} \cup DetailAsks]

\* The types, of what is on its way too.
TreeTypes ==
  /\ events \in [Tasks -> Nat] /\ told \in [Tasks -> Nat] /\ root \in Nat /\ since \in Nat
  /\ asks \in Seq(Requests)
  /\ results \subseteq [is : {"task"}, task : Tasks, n : Nat]
  /\ pending \subseteq Events
  /\ wire \in Seq(Messages)
  /\ tree \in [seq : Nat, tasks : [Tasks -> Nat]]
  /\ details \in [Tasks -> [all : Nat, head : Nat]]
  /\ reading \in {"no", "tree", "details"}

\* The notifications that the client has not received, from position k of the wire on.
News(m) == [seq |-> m.seq, task |-> m.task, n |-> m.n]
Behind(k) ==
  {News(e) : e \in pending} \cup
  {News(wire[j]) : j \in {i \in k..Len(wire) : wire[i].is = "event"}}
Coming == Behind(1)


\* The last event of t that was notified is on its way, behind position k - 1.
LastComing(t, k) == \E e \in Behind(k) : e.task = t /\ e.n = told[t]

\* Sequence numbers.
SeqsOK ==
  /\ tree.seq <= root
  /\ \A t \in Tasks : told[t] <= events[t]
  /\ \A j \in 1..Len(wire) : wire[j].is \in {"event", "tree"} => wire[j].seq <= root
  /\ \A e \in Coming : e.seq <= root /\ e.n <= events[e.task]
  /\ \A e, f \in Coming : e.seq = f.seq => e = f
  /\ \A t \in Tasks : details[t].head <= details[t].all

\* What has been read holds all that happened before.
ReadsOK ==
  \* a snapshot on its way
  /\ \A j \in 1..Len(wire) : wire[j].is = "tree" =>
       /\ \A e \in Coming : e.seq <= wire[j].seq => e.n <= wire[j].tasks[e.task]
       /\ \A i \in 1..(j - 1) : wire[i].is = "event" => wire[i].seq <= wire[j].seq
       /\ \A t \in Tasks : wire[j].tasks[t] < told[t] => LastComing(t, j + 1)
  \* a detail on its way
  /\ \A j \in 1..Len(wire) : wire[j].is = "detail" =>
       /\ \A e \in Coming : e.task = wire[j].task /\ e.n > wire[j].n =>
            /\ e.seq > tree.seq
            /\ \A i \in 1..(j - 1) : wire[i].is \in {"event", "tree"} => e.seq > wire[i].seq
       /\ wire[j].n < told[wire[j].task] => LastComing(wire[j].task, j + 1)

\* A request is on its way to the Server, or its error to the client.
Failed(ask) == \E j \in 1..Len(wire) : wire[j].is = "error" /\ wire[j].of = ask
Waits(ask)  == ask \in T!ToSet(asks) \/ Failed(ask)

\* So is the read of t for an event that its detail could not take.
Asked(t) == Waits(T!Asks(t, "event"))

\* The answer of such a read, with n events or more.
DetailComes(t, n) ==
  \E j \in 1..Len(wire) : wire[j].is = "detail" /\ wire[j].by = "event" /\ wire[j].task = t /\ wire[j].n >= n

\* A subscribe waits, or its snapshot is on its way.
TreeAsked == Waits(TreeAsk) \/ \E j \in 1..Len(wire) : wire[j].is = "tree"

\* What the client has received.
ReceivedOK ==
  /\ \A e \in Coming : e.seq <= tree.seq =>
       /\ e.n <= tree.tasks[e.task]
       /\ \/ missed \/ details[e.task] = T!NoDetail \/ details[e.task].all >= e.n
          \/ Asked(e.task)
          \/ DetailComes(e.task, e.n)
  /\ reading = "tree" => TreeAsked

\* A snapshot is on its way with all that t was notified of.
TreeComes(t) ==
  \/ Waits(TreeAsk)
  \/ \E j \in 1..Len(wire) : wire[j].is = "tree" /\ wire[j].tasks[t] >= told[t]

\* The tree and each detail have what was notified, or it is on its way, or was
\* asked for.
InformedOK ==
  \A t \in Tasks :
    /\ tree.tasks[t] >= told[t] \/ LastComing(t, 1) \/ TreeComes(t)
    /\ \/ details[t] = T!NoDetail \/ details[t].all >= told[t] \/ LastComing(t, 1) \/ TreeComes(t)
       \/ Asked(t)
       \/ DetailComes(t, told[t])

\* The invariant of the tree.
TaskTreeOK == TreeTypes /\ SeqsOK /\ ReadsOK /\ ReceivedOK /\ (~missed => InformedOK)

AllNews == [seq : Nat, task : Tasks, n : Nat]

\* What a message says it is.
LEMMA MessageIs ==
  ASSUME NEW m \in Messages
  PROVE  /\ m.is = "event"  => m.seq \in Nat /\ m.task \in Tasks /\ m.n \in Nat /\ News(m) \in AllNews
         /\ m.is = "tree"   => m.seq \in Nat /\ m.tasks \in [Tasks -> Nat]
         /\ m.is = "detail" => m.task \in Tasks /\ m.n \in Nat /\ m.by \in {"user", "event", "recovery"}
         /\ m.is = "task"   => m.task \in Tasks /\ m.n \in Nat
         /\ m.is = "error"  => m.of \in {TreeAsk} \cup DetailAsks
         /\ m.is \in {"event", "tree", "detail", "task", "error"}
BY DEF Messages, News, AllNews

\* What is said of a task: when, of which, and how many events it has.
LEMMA NewsIs == \A m : News(m).seq = m.seq /\ News(m).task = m.task /\ News(m).n = m.n
BY DEF News

\* Who is behind.
LEMMA BehindIs ==
  ASSUME NEW k \in Nat
  PROVE  \A e : e \in Behind(k) <=>
           \/ \E p \in pending : e = News(p)
           \/ \E j \in k..Len(wire) : wire[j].is = "event" /\ e = News(wire[j])
BY DEF Behind

\* All of it is news.
LEMMA BehindType ==
  ASSUME TreeTypes, NEW k \in Nat, k >= 1
  PROVE  Behind(k) \subseteq AllNews
<1>1. \A p \in pending : News(p) \in AllNews
  BY DEF TreeTypes, Events, News, AllNews
<1>2. ASSUME NEW j \in k..Len(wire), wire[j].is = "event" PROVE News(wire[j]) \in AllNews
  <2>1. wire[j] \in Messages
    BY ElementOfSeq DEF TreeTypes
  <2> QED BY <1>2, <2>1, MessageIs
<1> QED BY <1>1, <1>2, BehindIs

\* A message is sent.
LEMMA Sent ==
  ASSUME TreeTypes, NEW m \in Messages, T!Sends(m)
  PROVE  /\ wire' \in Seq(Messages) /\ Len(wire') = Len(wire) + 1 /\ Len(wire) \in Nat
         /\ \A j \in 1..Len(wire) : wire'[j] = wire[j]
         /\ wire'[Len(wire) + 1] = m
         /\ \A j \in 1..Len(wire') : j \in 1..Len(wire) \/ j = Len(wire) + 1
<1>1. wire' = Append(wire, m) /\ wire \in Seq(Messages)
  BY DEF T!Sends, TreeTypes
<1> QED BY <1>1, AppendProperties, LenProperties

\* Anything but a notification leaves those to come.
LEMMA SentBehind ==
  ASSUME TreeTypes, NEW m \in Messages, T!Sends(m), m.is # "event", pending' = pending,
         NEW k \in Nat, k >= 1
  PROVE  Behind(k)' = Behind(k)
<1>1. \A e : e \in Behind(k)' <=>
           \/ \E p \in pending' : e = News(p)
           \/ \E j \in k..Len(wire') : wire'[j].is = "event" /\ e = News(wire'[j])
  BY DEF Behind
<1>2. \A j : (j \in k..Len(wire') /\ wire'[j].is = "event") <=> (j \in k..Len(wire) /\ wire[j].is = "event")
  BY Sent
<1>3. \A j \in k..Len(wire) : wire'[j] = wire[j]
  BY Sent
<1>4. \A e : e \in Behind(k)' <=> e \in Behind(k)
  BY <1>1, <1>2, <1>3, BehindIs
<1> QED BY <1>4

\* A message is received.
LEMMA Taken ==
  ASSUME TreeTypes, wire # <<>>, wire' = Tail(wire)
  PROVE  /\ wire' \in Seq(Messages) /\ Len(wire) \in Nat \ {0} /\ Len(wire') = Len(wire) - 1
         /\ Head(wire) = wire[1] /\ wire[1] \in Messages
         /\ \A j \in 1..Len(wire') : wire'[j] = wire[j + 1] /\ j + 1 \in 2..Len(wire)
<1>1. wire \in Seq(Messages)
  BY DEF TreeTypes
<1> QED BY <1>1, EmptySeq, HeadTailProperties, LenProperties, ElementOfSeq

\* Who was behind the next position is behind this one.
LEMMA TakenBehind ==
  ASSUME TreeTypes, wire # <<>>, wire' = Tail(wire), pending' = pending, NEW k \in Nat, k >= 1
  PROVE  Behind(k)' = Behind(k + 1)
<1>1. \A e : e \in Behind(k)' <=>
           \/ \E p \in pending' : e = News(p)
           \/ \E j \in k..Len(wire') : wire'[j].is = "event" /\ e = News(wire'[j])
  BY DEF Behind
<1>2. ASSUME NEW e, NEW j \in k..Len(wire'), wire'[j].is = "event", e = News(wire'[j])
      PROVE  e \in Behind(k + 1)
  <2>1. j + 1 \in (k + 1)..Len(wire) /\ wire'[j] = wire[j + 1]
    BY <1>2, Taken
  <2> QED BY <1>2, <2>1, BehindIs
<1>3. ASSUME NEW e, NEW j \in (k + 1)..Len(wire), wire[j].is = "event", e = News(wire[j])
      PROVE  e \in Behind(k)'
  <2>1. j - 1 \in k..Len(wire') /\ wire'[j - 1] = wire[j]
    BY <1>3, Taken
  <2> QED BY <1>1, <1>3, <2>1
<1>4. \A e : e \in Behind(k + 1) <=>
           \/ \E p \in pending : e = News(p)
           \/ \E j \in (k + 1)..Len(wire) : wire[j].is = "event" /\ e = News(wire[j])
  BY BehindIs
<1>5. \A e : e \in Behind(k)' <=> e \in Behind(k + 1)
  BY <1>1, <1>2, <1>3, <1>4, BehindIs
<1> QED BY <1>5

\* What is to come: the head of the wire, and the rest.
LEMMA HeadAndRest ==
  ASSUME TreeTypes, wire # <<>>, wire' = Tail(wire), pending' = pending
  PROVE  /\ Coming' = Behind(2) /\ Behind(2) \subseteq Coming
         /\ wire[1].is # "event" => Coming' = Coming
         /\ wire[1].is = "event" => Coming = Coming' \cup {News(wire[1])}
<1>1. Coming' = Behind(2)
  BY TakenBehind DEF Coming
<1>2. Len(wire) \in Nat \ {0} /\ \A j : j \in 1..Len(wire) <=> j = 1 \/ j \in 2..Len(wire)
  BY Taken
<1>3. \A e : e \in Coming <=>
           \/ \E p \in pending : e = News(p)
           \/ \E j \in 1..Len(wire) : wire[j].is = "event" /\ e = News(wire[j])
  BY BehindIs DEF Coming
<1>4. \A e : e \in Behind(2) <=>
           \/ \E p \in pending : e = News(p)
           \/ \E j \in 2..Len(wire) : wire[j].is = "event" /\ e = News(wire[j])
  BY BehindIs
<1>5. \A e : e \in Coming <=> e \in Behind(2) \/ (wire[1].is = "event" /\ e = News(wire[1]))
  BY <1>2, <1>3, <1>4
<1> QED BY <1>1, <1>5

\* A notification is sent: none is lost for who has not received any after it.
LEMMA NotifyBehind ==
  ASSUME TreeTypes, NEW e \in pending, T!Notify(e)
  PROVE  /\ \A k \in 1..(Len(wire) + 1) : Behind(k)' = Behind(k)
         /\ wire'[Len(wire) + 1].seq = News(e).seq /\ News(e) \in Coming
         /\ wire'[Len(wire) + 1].is = "event" /\ News(wire'[Len(wire) + 1]) = News(e)
<1> DEFINE m == [is |-> "event", seq |-> e.seq, task |-> e.task, n |-> e.n]
<1>1. m \in Messages /\ T!Sends(m) /\ m.is = "event" /\ News(m) = News(e) /\ m.seq = News(e).seq
  BY DEF Messages, T!Notify, TreeTypes, Events, News
<1> HIDE DEF m
<1>2. News(e) \in Coming
  BY BehindIs DEF Coming
<1>3. ASSUME NEW k \in 1..(Len(wire) + 1)
      PROVE  Behind(k)' = Behind(k)
  <2>1. k \in Nat /\ Len(wire) \in Nat /\ Len(wire') = Len(wire) + 1
    BY <1>1, <1>3, Sent
  <2>2. \A f : f \in Behind(k)' <=>
           \/ \E p \in pending' : f = News(p)
           \/ \E j \in k..Len(wire') : wire'[j].is = "event" /\ f = News(wire'[j])
    BY DEF Behind
  <2>3. \A f : f \in Behind(k) <=>
           \/ \E p \in pending : f = News(p)
           \/ \E j \in k..Len(wire) : wire[j].is = "event" /\ f = News(wire[j])
    BY <2>1, BehindIs
  <2>4. \A j \in k..Len(wire') : (j \in k..Len(wire) /\ wire'[j] = wire[j]) \/ wire'[j] = m
    BY <1>1, <2>1, Sent
  <2>5. \A j \in k..Len(wire) : j \in k..Len(wire') /\ wire'[j] = wire[j]
    BY <1>1, <2>1, Sent
  <2>6. Len(wire) + 1 \in k..Len(wire') /\ wire'[Len(wire) + 1] = m
    BY <1>1, <2>1, Sent
  <2>7. pending' = pending \ {e}
    BY DEF T!Notify
  <2>8. ASSUME NEW f, f \in Behind(k)' PROVE f \in Behind(k)
    <3>1. CASE \E p \in pending' : f = News(p)
      BY <3>1, <2>3, <2>7
    <3>2. CASE \E j \in k..Len(wire') : wire'[j].is = "event" /\ f = News(wire'[j])
      BY <3>2, <2>3, <2>4, <1>1
    <3> QED BY <2>2, <2>8, <3>1, <3>2
  <2>9. ASSUME NEW f, f \in Behind(k) PROVE f \in Behind(k)'
    <3>1. CASE \E p \in pending : f = News(p)
      <4>1. PICK p \in pending : f = News(p)
        BY <3>1
      <4>2. CASE p = e
        BY <4>1, <4>2, <2>2, <2>6, <1>1
      <4>3. CASE p # e
        BY <4>1, <4>3, <2>2, <2>7
      <4> QED BY <4>2, <4>3
    <3>2. CASE \E j \in k..Len(wire) : wire[j].is = "event" /\ f = News(wire[j])
      BY <3>2, <2>2, <2>5
    <3> QED BY <2>3, <2>9, <3>1, <3>2
  <2> QED BY <2>8, <2>9
<1>4. wire'[Len(wire) + 1] = m
  BY <1>1, Sent
<1> QED BY <1>1, <1>2, <1>3, <1>4

\* Who comes after a later position comes after an earlier one.
LEMMA BehindLess ==
  ASSUME TreeTypes, NEW k \in Nat, NEW i \in Nat, i <= k
  PROVE  Behind(k) \subseteq Behind(i)
<1>1. ASSUME NEW e, e \in Behind(k) PROVE e \in Behind(i)
  <2>1. Len(wire) \in Nat
    BY LenProperties DEF TreeTypes
  <2>2. \A j \in k..Len(wire) : j \in i..Len(wire)
    BY <2>1
  <2> QED BY <1>1, <2>2, BehindIs
<1> QED BY <1>1

\* Taking a message leaves what the others say of those behind them; the tree
\* has the sequence it had or that of the message.
LEMMA TakenReads ==
  ASSUME TreeTypes, ReadsOK, wire # <<>>, wire' = Tail(wire), pending' = pending, told' = told,
         tree'.seq = tree.seq \/ (wire[1].is \in {"event", "tree"} /\ tree'.seq = wire[1].seq)
  PROVE  ReadsOK'
<1>1. Len(wire) \in Nat \ {0} /\ Len(wire') = Len(wire) - 1
  BY Taken
<1>2. \A j \in 1..Len(wire') : wire'[j] = wire[j + 1] /\ j + 1 \in 1..Len(wire)
  BY <1>1, Taken
<1>3. Coming' \subseteq Coming
  BY HeadAndRest
<1>4. \A j \in 1..Len(wire'), t \in Tasks : LastComing(t, j + 2) => LastComing(t, j + 1)'
  <2>1. SUFFICES ASSUME NEW j \in 1..Len(wire'), NEW t \in Tasks, LastComing(t, j + 2)
                 PROVE  LastComing(t, j + 1)'
    OBVIOUS
  <2>2. j + 1 \in Nat /\ j + 1 >= 1 /\ (j + 1) + 1 = j + 2
    BY <1>1
  <2>3. Behind(j + 1)' = Behind((j + 1) + 1)
    BY <2>2, TakenBehind
  <2> QED BY <2>1, <2>2, <2>3 DEF LastComing
<1>5. ASSUME NEW j \in 1..Len(wire'), wire'[j].is = "tree"
      PROVE  /\ \A e \in Coming' : e.seq <= wire'[j].seq => e.n <= wire'[j].tasks[e.task]
             /\ \A i \in 1..(j - 1) : wire'[i].is = "event" => wire'[i].seq <= wire'[j].seq
             /\ \A t \in Tasks : wire'[j].tasks[t] < told'[t] => LastComing(t, j + 1)'
  <2>1. wire'[j] = wire[j + 1] /\ j + 1 \in 1..Len(wire)
    BY <1>2
  <2>2. \A e \in Coming : e.seq <= wire[j + 1].seq => e.n <= wire[j + 1].tasks[e.task]
    BY <1>5, <2>1 DEF ReadsOK
  <2>3. \A i \in 1..(j + 1 - 1) : wire[i].is = "event" => wire[i].seq <= wire[j + 1].seq
    BY <1>5, <2>1 DEF ReadsOK
  <2>4. \A t \in Tasks : wire[j + 1].tasks[t] < told[t] => LastComing(t, (j + 1) + 1)
    BY <1>5, <2>1 DEF ReadsOK
  <2>5. \A i \in 1..(j - 1) : wire'[i] = wire[i + 1] /\ i + 1 \in 1..(j + 1 - 1)
    BY <1>1, <1>2
  <2>6. (j + 1) + 1 = j + 2
    BY <1>1
  <2> QED BY <1>3, <1>4, <2>1, <2>2, <2>3, <2>4, <2>5, <2>6
<1>6. ASSUME NEW j \in 1..Len(wire'), wire'[j].is = "detail"
      PROVE  /\ \A e \in Coming' : e.task = wire'[j].task /\ e.n > wire'[j].n =>
                  /\ e.seq > tree'.seq
                  /\ \A i \in 1..(j - 1) : wire'[i].is \in {"event", "tree"} => e.seq > wire'[i].seq
             /\ wire'[j].n < told'[wire'[j].task] => LastComing(wire[j].task, j + 1)'
  <2>1. wire'[j] = wire[j + 1] /\ j + 1 \in 1..Len(wire)
    BY <1>2
  <2>2. \A e \in Coming : e.task = wire[j + 1].task /\ e.n > wire[j + 1].n =>
          /\ e.seq > tree.seq
          /\ \A i \in 1..(j + 1 - 1) : wire[i].is \in {"event", "tree"} => e.seq > wire[i].seq
    BY <1>6, <2>1 DEF ReadsOK
  <2>3. wire[j + 1].n < told[wire[j + 1].task] => LastComing(wire[j + 1].task, (j + 1) + 1)
    BY <1>6, <2>1 DEF ReadsOK
  <2>4. \A i \in 1..(j - 1) : wire'[i] = wire[i + 1] /\ i + 1 \in 1..(j + 1 - 1)
    BY <1>1, <1>2
  <2>5. (j + 1) + 1 = j + 2 /\ 1 \in 1..(j + 1 - 1)
    BY <1>1
  <2>6. \A e \in Coming' : e.task = wire'[j].task /\ e.n > wire'[j].n => e.seq > tree'.seq
    BY <1>3, <2>1, <2>2, <2>5
  <2>7. wire[j + 1] \in Messages
    BY <2>1, ElementOfSeq DEF TreeTypes
  <2>8. wire[j + 1].task \in Tasks
    BY <1>6, <2>1, <2>7, MessageIs
  <2>9. wire'[j].n < told'[wire'[j].task] => LastComing(wire[j].task, j + 1)'
    <3>1. PICK t \in Tasks : t = wire[j + 1].task /\ t = wire'[j].task
      BY <2>1, <2>8
    <3>2. wire'[j].n < told'[t] => LastComing(t, j + 2)
      BY <2>1, <2>3, <2>5, <3>1
    <3>3. wire'[j].n < told'[t] => LastComing(t, j + 1)'
      BY <1>4, <3>2
    <3> QED BY <3>1, <3>3 DEF LastComing
  <2>10. \A e \in Coming' : e.task = wire'[j].task /\ e.n > wire'[j].n =>
          \A i \in 1..(j - 1) : wire'[i].is \in {"event", "tree"} => e.seq > wire'[i].seq
    BY <1>3, <2>1, <2>2, <2>4
  <2> QED BY <2>6, <2>9, <2>10
<1> QED BY <1>5, <1>6 DEF ReadsOK

\* Before the first task nothing is on its way.
LEMMA TaskTreeInit == T!Init => TaskTreeOK
<1> SUFFICES ASSUME T!Init PROVE TaskTreeOK
  OBVIOUS
<1>1. TreeTypes
  BY DEF T!Init, TreeTypes, T!Nothing, T!NoDetail
<1>2. Len(wire) = 0 /\ pending = {}
  BY DEF T!Init
<1>3. \A k \in Nat : k >= 1 => Behind(k) = {}
  BY <1>2, BehindIs
<1>4. Coming = {}
  BY <1>3 DEF Coming
<1>5. SeqsOK
  BY <1>2, <1>4 DEF SeqsOK, T!Init, T!Nothing, T!NoDetail
<1>6. ReadsOK
  BY <1>2, <1>4 DEF ReadsOK
<1>7. ReceivedOK
  BY <1>4 DEF ReceivedOK, T!Init
<1>8. InformedOK
  BY DEF InformedOK, T!Init, T!Nothing
<1> QED BY <1>1, <1>5, <1>6, <1>7, <1>8 DEF TaskTreeOK

\* A change is notified to who is behind.
LEMMA ChangeStep ==
  ASSUME TaskTreeOK, NEW t \in Tasks, T!Change(t)
  PROVE  TaskTreeOK'
<1> DEFINE p == [seq |-> root', task |-> t, n |-> events'[t], since |-> since]
<1>1. /\ root' = root + 1 /\ root \in Nat /\ events \in [Tasks -> Nat]
      /\ events' = [events EXCEPT ![t] = @ + 1] /\ told' = [told EXCEPT ![t] = events'[t]]
      /\ pending' = pending \cup {p}
      /\ UNCHANGED <<asks, results, since, wire, calls, T!client>>
  BY DEF T!Change, TaskTreeOK, TreeTypes
<1>2. p \in Events /\ News(p) = [seq |-> root + 1, task |-> t, n |-> events'[t]]
  BY <1>1 DEF Events, News, TaskTreeOK, TreeTypes
<1> HIDE DEF p
<1>3. TreeTypes' /\ events'[t] = events[t] + 1 /\ \A u \in Tasks : events'[u] >= events[u]
  BY <1>1, <1>2 DEF TaskTreeOK, TreeTypes, T!client
<1>4. \A k \in Nat : Behind(k)' = Behind(k) \cup {News(p)}
  <2>1. SUFFICES ASSUME NEW k \in Nat PROVE Behind(k)' = Behind(k) \cup {News(p)}
    OBVIOUS
  <2>2. \A e : e \in Behind(k)' <=>
           \/ \E q \in pending' : e = News(q)
           \/ \E j \in k..Len(wire) : wire[j].is = "event" /\ e = News(wire[j])
    BY <1>1 DEF Behind
  <2> QED BY <1>1, <2>2, BehindIs
<1>5. Coming' = Coming \cup {News(p)} /\ Coming \subseteq AllNews
  BY <1>4, BehindType DEF Coming, TaskTreeOK
<1>6. /\ \A u \in Tasks, k \in Nat : LastComing(u, k) => LastComing(u, k)'
      /\ \A k \in Nat : LastComing(t, k)'
  <2>1. ASSUME NEW k \in Nat PROVE LastComing(t, k)'
    <3>1. News(p).task = t /\ News(p).n = told'[t]
      BY <1>1, <1>2 DEF TaskTreeOK, TreeTypes
    <3>2. News(p) \in Behind(k)'
      BY <1>4
    <3> QED BY <3>1, <3>2 DEF LastComing
  <2>2. ASSUME NEW u \in Tasks, NEW k \in Nat, u # t, LastComing(u, k) PROVE LastComing(u, k)'
    BY <1>1, <1>4, <2>2 DEF LastComing, TaskTreeOK, TreeTypes
  <2> QED BY <2>1, <2>2
<1>7. SeqsOK'
  <2>1. /\ tree'.seq <= root'
        /\ \A u \in Tasks : told'[u] <= events'[u]
        /\ \A u \in Tasks : details'[u].head <= details'[u].all
    BY <1>1, <1>3 DEF TaskTreeOK, TreeTypes, SeqsOK, T!client
  <2>2. \A j \in 1..Len(wire') : wire'[j].is \in {"event", "tree"} => wire'[j].seq <= root'
    <3>1. ASSUME NEW j \in 1..Len(wire), wire[j].is \in {"event", "tree"} PROVE wire[j].seq <= root + 1
      <4>1. wire[j] \in Messages
        BY ElementOfSeq DEF TaskTreeOK, TreeTypes
      <4>2. wire[j].seq \in Nat
        BY <3>1, <4>1, MessageIs
      <4> QED BY <1>1, <3>1, <4>2 DEF TaskTreeOK, SeqsOK
    <3> QED BY <1>1, <3>1
  <2>3. \A e \in Coming' : e.seq <= root' /\ e.n <= events'[e.task]
    <3>1. ASSUME NEW e \in Coming PROVE e.seq <= root /\ e.n <= events'[e.task]
      <4>1. e \in AllNews
        BY <1>5
      <4>2. e.task \in Tasks /\ e.seq \in Nat /\ e.n \in Nat
        BY <4>1 DEF AllNews
      <4>3. e.seq <= root /\ e.n <= events[e.task]
        BY DEF TaskTreeOK, SeqsOK
      <4>4. events'[e.task] >= events[e.task] /\ events'[e.task] \in Nat /\ events[e.task] \in Nat
        BY <1>3, <4>2 DEF TaskTreeOK, TreeTypes
      <4> QED BY <4>2, <4>3, <4>4
    <3>2. \A e \in Coming : e.seq <= root + 1
      BY <3>1, <1>1, <1>5 DEF AllNews
    <3>3. events'[t] <= events'[t]
      BY <1>3 DEF TreeTypes
    <3> QED BY <1>1, <1>2, <1>5, <3>1, <3>2, <3>3
  <2>4. \A e, f \in Coming' : e.seq = f.seq => e = f
    <3>1. \A e \in Coming : e.seq # root + 1
      BY <1>1, <1>5 DEF AllNews, TaskTreeOK, SeqsOK
    <3>2. \A e, f \in Coming : e.seq = f.seq => e = f
      BY DEF TaskTreeOK, SeqsOK
    <3> QED BY <1>2, <1>5, <3>1, <3>2
  <2> QED BY <2>1, <2>2, <2>3, <2>4 DEF SeqsOK
<1>8. ReadsOK'
  <2>1. Len(wire) \in Nat
    BY LenProperties DEF TaskTreeOK, TreeTypes
  <2>2. ASSUME NEW j \in 1..Len(wire), wire[j].is = "tree"
        PROVE  /\ \A e \in Coming' : e.seq <= wire[j].seq => e.n <= wire[j].tasks[e.task]
               /\ \A i \in 1..(j - 1) : wire[i].is = "event" => wire[i].seq <= wire[j].seq
               /\ \A u \in Tasks : wire[j].tasks[u] < told'[u] => LastComing(u, j + 1)'
    <3>1. wire[j] \in Messages
      BY ElementOfSeq DEF TaskTreeOK, TreeTypes
    <3>2. wire[j].seq \in Nat /\ wire[j].seq <= root
      BY <2>2, <3>1, MessageIs DEF TaskTreeOK, SeqsOK
    <3>3. ~(root + 1 <= wire[j].seq)
      BY <1>1, <3>2
    <3>4. /\ \A e \in Coming : e.seq <= wire[j].seq => e.n <= wire[j].tasks[e.task]
          /\ \A i \in 1..(j - 1) : wire[i].is = "event" => wire[i].seq <= wire[j].seq
          /\ \A u \in Tasks : wire[j].tasks[u] < told[u] => LastComing(u, j + 1)
      BY <2>2 DEF TaskTreeOK, ReadsOK
    <3>5. j + 1 \in Nat
      BY <2>1
    <3>6. \A u \in Tasks : u = t \/ told'[u] = told[u]
      BY <1>1 DEF TaskTreeOK, TreeTypes
    <3> QED BY <1>2, <1>5, <1>6, <3>3, <3>4, <3>5, <3>6
  <2>3. ASSUME NEW j \in 1..Len(wire), wire[j].is = "detail"
        PROVE  /\ \A e \in Coming' : e.task = wire[j].task /\ e.n > wire[j].n =>
                    /\ e.seq > tree.seq
                    /\ \A i \in 1..(j - 1) : wire[i].is \in {"event", "tree"} => e.seq > wire[i].seq
               /\ wire[j].n < told'[wire[j].task] => LastComing(wire[j].task, j + 1)'
    <3>1. \A i \in 1..Len(wire) : wire[i].is \in {"event", "tree"} => wire[i].seq \in Nat /\ wire[i].seq <= root
      <4>1. SUFFICES ASSUME NEW i \in 1..Len(wire), wire[i].is \in {"event", "tree"}
                     PROVE  wire[i].seq \in Nat /\ wire[i].seq <= root
        OBVIOUS
      <4>2. wire[i] \in Messages
        BY ElementOfSeq DEF TaskTreeOK, TreeTypes
      <4> QED BY <4>1, <4>2, MessageIs DEF TaskTreeOK, SeqsOK
    <3>2. tree.seq <= root /\ tree.seq \in Nat
      BY DEF TaskTreeOK, SeqsOK, TreeTypes
    <3>3. News(p).seq > tree.seq /\ \A i \in 1..(j - 1) : wire[i].is \in {"event", "tree"} => News(p).seq > wire[i].seq
      BY <1>1, <1>2, <2>1, <3>1, <3>2
    <3>4. \A e \in Coming : e.task = wire[j].task /\ e.n > wire[j].n =>
                    /\ e.seq > tree.seq
                    /\ \A i \in 1..(j - 1) : wire[i].is \in {"event", "tree"} => e.seq > wire[i].seq
      BY <2>3 DEF TaskTreeOK, ReadsOK
    <3>5. wire[j] \in Messages
      BY ElementOfSeq DEF TaskTreeOK, TreeTypes
    <3>6. PICK u \in Tasks : u = wire[j].task
      BY <2>3, <3>5, MessageIs
    <3>7. wire[j].n < told[u] => LastComing(u, j + 1)
      BY <2>3, <3>6 DEF TaskTreeOK, ReadsOK
    <3>8. j + 1 \in Nat
      BY <2>1
    <3>9. u = t \/ told'[u] = told[u]
      BY <1>1 DEF TaskTreeOK, TreeTypes
    <3>10. wire[j].n < told'[u] => LastComing(u, j + 1)'
      BY <1>6, <3>7, <3>8, <3>9
    <3>11. u = wire'[j].task
      BY <1>1, <3>6
    <3> QED BY <1>5, <3>3, <3>4, <3>6, <3>10, <3>11 DEF LastComing
  <2>4. wire' = wire /\ tree' = tree
    BY <1>1 DEF T!client
  <2> QED BY <2>2, <2>3, <2>4 DEF ReadsOK
<1>9. ReceivedOK'
  <2>1. tree' = tree /\ details' = details /\ reading' = reading /\ asks' = asks /\ wire' = wire
    BY <1>1 DEF T!client
  <2>2. (\A u : Asked(u)' <=> Asked(u)) /\ (TreeAsked' <=> TreeAsked)
        /\ (\A u, n : DetailComes(u, n)' <=> DetailComes(u, n)) /\ missed' = missed
    BY <1>1, <2>1 DEF Asked, Waits, Failed, TreeAsked, DetailComes, T!client
  <2>3. News(p).seq > tree.seq
    BY <1>1, <1>2 DEF TaskTreeOK, SeqsOK, TreeTypes
  <2>4. ~(News(p).seq <= tree.seq)
    BY <1>1, <1>2, <2>3 DEF TaskTreeOK, TreeTypes
  <2>5. ReceivedOK
    BY DEF TaskTreeOK
  <2> QED BY <1>5, <2>1, <2>2, <2>4, <2>5 DEF ReceivedOK
<1>10. ~missed' => InformedOK'
  <2>1. tree' = tree /\ details' = details /\ asks' = asks /\ wire' = wire /\ missed' = missed
    BY <1>1 DEF T!client
  <2>2. SUFFICES ASSUME ~missed, NEW u \in Tasks
                 PROVE
    /\ tree.tasks[u] >= told'[u] \/ LastComing(u, 1)' \/ TreeComes(u)'
    /\ \/ details[u] = T!NoDetail \/ details[u].all >= told'[u] \/ LastComing(u, 1)' \/ TreeComes(u)'
       \/ Asked(u)'
       \/ DetailComes(u, told[u])'
    BY <2>1 DEF InformedOK
  <2>3. CASE u = t
    BY <1>6, <2>3
  <2>4. CASE u # t
    <3>1. told'[u] = told[u]
      BY <1>1, <2>4 DEF TaskTreeOK, TreeTypes
    <3>2. (TreeComes(u)' <=> TreeComes(u)) /\ (Asked(u)' <=> Asked(u))
      BY <2>1, <3>1 DEF TreeComes, Asked, Waits, Failed
    <3>3. DetailComes(u, told[u]) => DetailComes(u, told[u])'
      BY <2>1, <3>1 DEF DetailComes
    <3> QED BY <1>6, <2>2, <3>1, <3>2, <3>3 DEF TaskTreeOK, InformedOK
  <2> QED BY <2>3, <2>4
<1> QED BY <1>3, <1>7, <1>8, <1>9, <1>10 DEF TaskTreeOK

\* One elsewhere is not.
LEMMA ElsewhereStep ==
  ASSUME TaskTreeOK, NEW t \in Tasks, T!ChangeElsewhere(t)
  PROVE  TaskTreeOK'
<1>1. /\ root' = root + 1 /\ root \in Nat /\ events \in [Tasks -> Nat]
      /\ events' = [events EXCEPT ![t] = @ + 1]
      /\ UNCHANGED <<asks, results, pending, since, wire, calls, told, T!client>>
  BY DEF T!ChangeElsewhere, TaskTreeOK, TreeTypes
<1>2. TreeTypes' /\ \A u \in Tasks : events'[u] >= events[u]
  <2>1. events' \in [Tasks -> Nat] /\ \A u \in Tasks : events'[u] >= events[u]
    BY <1>1
  <2>2. root' \in Nat
    BY <1>1
  <2> QED BY <1>1, <2>1, <2>2 DEF TaskTreeOK, TreeTypes, T!client
<1>3. \A k : Behind(k)' = Behind(k)
  BY <1>1 DEF Behind
<1>4. Coming' = Coming /\ Coming \subseteq AllNews
  BY <1>3, BehindType DEF Coming, TaskTreeOK
<1>5. \A u, k : LastComing(u, k)' <=> LastComing(u, k)
  BY <1>1, <1>3 DEF LastComing
<1>6. SeqsOK'
  <2>1. /\ tree'.seq <= root'
        /\ \A u \in Tasks : told'[u] <= events'[u]
        /\ \A u \in Tasks : details'[u].head <= details'[u].all
    BY <1>1, <1>2 DEF TaskTreeOK, TreeTypes, SeqsOK, T!client
  <2>2. \A j \in 1..Len(wire') : wire'[j].is \in {"event", "tree"} => wire'[j].seq <= root'
    <3>1. ASSUME NEW j \in 1..Len(wire), wire[j].is \in {"event", "tree"} PROVE wire[j].seq <= root + 1
      <4>1. wire[j] \in Messages
        BY ElementOfSeq DEF TaskTreeOK, TreeTypes
      <4>2. wire[j].seq \in Nat
        BY <3>1, <4>1, MessageIs
      <4> QED BY <1>1, <3>1, <4>2 DEF TaskTreeOK, SeqsOK
    <3> QED BY <1>1, <3>1
  <2>3. \A e \in Coming' : e.seq <= root' /\ e.n <= events'[e.task]
    <3>1. ASSUME NEW e \in Coming PROVE e.seq <= root + 1 /\ e.n <= events'[e.task]
      <4>1. e \in AllNews
        BY <1>4
      <4>2. e.task \in Tasks /\ e.seq \in Nat /\ e.n \in Nat
        BY <4>1 DEF AllNews
      <4>3. e.seq <= root /\ e.n <= events[e.task]
        BY DEF TaskTreeOK, SeqsOK
      <4>4. events'[e.task] >= events[e.task] /\ events'[e.task] \in Nat /\ events[e.task] \in Nat
        BY <1>2, <4>2 DEF TaskTreeOK, TreeTypes
      <4> QED BY <1>1, <4>2, <4>3, <4>4
    <3> QED BY <1>1, <1>4, <3>1
  <2>4. \A e, f \in Coming' : e.seq = f.seq => e = f
    BY <1>4 DEF TaskTreeOK, SeqsOK
  <2> QED BY <2>1, <2>2, <2>3, <2>4 DEF SeqsOK
<1>7. tree' = tree /\ details' = details /\ reading' = reading /\ asks' = asks /\ wire' = wire
      /\ told' = told /\ missed' = missed
  BY <1>1 DEF T!client
<1>8. /\ \A u : (Asked(u)' <=> Asked(u)) /\ (TreeComes(u)' <=> TreeComes(u))
      /\ TreeAsked' <=> TreeAsked
      /\ \A u, n : DetailComes(u, n)' <=> DetailComes(u, n)
  BY <1>7 DEF Asked, TreeComes, Waits, Failed, TreeAsked, DetailComes
<1>9. ReadsOK'
  BY <1>4, <1>5, <1>7 DEF TaskTreeOK, ReadsOK
<1>10. ReceivedOK'
  BY <1>4, <1>7, <1>8 DEF TaskTreeOK, ReceivedOK
<1>11. ~missed' => InformedOK'
  <2>1. \A u : DetailComes(u, told[u]) => DetailComes(u, told[u])'
    BY <1>7 DEF DetailComes
  <2> QED BY <1>5, <1>7, <1>8, <2>1 DEF TaskTreeOK, InformedOK
<1> QED BY <1>2, <1>6, <1>9, <1>10, <1>11 DEF TaskTreeOK

\* The user asks.
LEMMA AskStep ==
  ASSUME TaskTreeOK, TreeTypes', UNCHANGED <<events, root, told, pending, wire, T!client>>,
         T!ToSet(asks) \ {LateAsk} \subseteq T!ToSet(asks')
  PROVE  TaskTreeOK'
<1>1. \A k : Behind(k)' = Behind(k)
  BY DEF Behind
<1>2. Coming' = Coming
  BY <1>1 DEF Coming
<1>3. \A u, k : LastComing(u, k)' <=> LastComing(u, k)
  BY <1>1 DEF LastComing
<1>4. tree' = tree /\ details' = details /\ reading' = reading /\ missed' = missed
  BY DEF T!client
<1>5. /\ \A u : (Asked(u) => Asked(u)') /\ (TreeComes(u) => TreeComes(u)')
      /\ TreeAsked => TreeAsked'
      /\ \A u, n : DetailComes(u, n) => DetailComes(u, n)'
      /\ \A u : DetailComes(u, told[u]) => DetailComes(u, told[u])'
  BY DEF Asked, TreeComes, Waits, Failed, TreeAsked, DetailComes, TreeAsk, LateAsk, T!Asks
<1>6. SeqsOK'
  BY <1>2, <1>4 DEF TaskTreeOK, SeqsOK
<1>7. ReadsOK'
  BY <1>2, <1>3, <1>4 DEF TaskTreeOK, ReadsOK
<1>8. ReceivedOK'
  BY <1>2, <1>4, <1>5 DEF TaskTreeOK, ReceivedOK
<1>9. ~missed' => InformedOK'
  BY <1>3, <1>4, <1>5 DEF TaskTreeOK, InformedOK
<1> QED BY <1>6, <1>7, <1>8, <1>9 DEF TaskTreeOK

\* The Server sends a notification, a snapshot or a detail as its database is,
\* or a result, and drops no request but the one that it answers.
LEMMA SentStep ==
  ASSUME TaskTreeOK, TreeTypes', NEW m \in Messages, T!Sends(m), UNCHANGED <<events, root, told, T!client>>,
         \A k \in 1..(Len(wire) + 1) : Behind(k)' = Behind(k),
         m.is = "event" => m.seq <= root,
         m.is = "tree" => m.seq = root /\ m.tasks = events,
         m.is = "detail" => m.n = events[m.task],
         \A ask \in T!ToSet(asks) :
           \/ ask \in T!ToSet(asks')
           \/ ask = TreeAsk /\ m.is = "tree"
           \/ m.is = "detail" /\ ask \in DetailAsks /\ m.task = ask.task /\ m.by = ask.by
           \/ m.is = "error" /\ m.of = ask
  PROVE  TaskTreeOK'
<1> USE DEF T!client
<1>1. /\ Len(wire') = Len(wire) + 1 /\ Len(wire) \in Nat /\ wire'[Len(wire) + 1] = m
      /\ \A j \in 1..Len(wire) : wire'[j] = wire[j] /\ j \in 1..Len(wire')
      /\ \A j \in 1..Len(wire') : j \in 1..Len(wire) \/ j = Len(wire) + 1
      /\ Len(wire) + 1 \in 1..Len(wire')
  BY Sent DEF TaskTreeOK
<1>2. Coming' = Coming /\ Coming \subseteq AllNews
  BY <1>1, BehindType DEF Coming, TaskTreeOK
<1>3. \A u \in Tasks, k \in 1..(Len(wire) + 1) : LastComing(u, k) => LastComing(u, k)'
  BY DEF LastComing
<1>4. ASSUME NEW e \in Coming
      PROVE  e.task \in Tasks /\ e.seq \in Nat /\ e.n \in Nat /\ e.seq <= root /\ e.n <= events[e.task]
  BY <1>2 DEF AllNews, TaskTreeOK, SeqsOK
<1>5. \A j \in 1..Len(wire) : wire[j].is \in {"event", "tree"} => wire[j].seq \in Nat /\ wire[j].seq <= root
  <2>1. SUFFICES ASSUME NEW j \in 1..Len(wire), wire[j].is \in {"event", "tree"}
                 PROVE  wire[j].seq \in Nat /\ wire[j].seq <= root
    OBVIOUS
  <2>2. wire[j] \in Messages
    BY ElementOfSeq DEF TaskTreeOK, TreeTypes
  <2> QED BY <2>1, <2>2, MessageIs DEF TaskTreeOK, SeqsOK
<1>6. root \in Nat /\ (\A u \in Tasks : told[u] \in Nat /\ events[u] \in Nat /\ told[u] <= events[u])
  BY DEF TaskTreeOK, TreeTypes, SeqsOK
<1>7. SeqsOK'
  <2>1. \A j \in 1..Len(wire') : wire'[j].is \in {"event", "tree"} => wire'[j].seq <= root'
    BY <1>1, <1>5, <1>6
  <2> QED BY <1>2, <2>1 DEF TaskTreeOK, SeqsOK
<1>8. ReadsOK'
  <2>1. ASSUME NEW j \in 1..Len(wire'), wire'[j].is = "tree"
        PROVE  /\ \A e \in Coming' : e.seq <= wire'[j].seq => e.n <= wire'[j].tasks[e.task]
               /\ \A i \in 1..(j - 1) : wire'[i].is = "event" => wire'[i].seq <= wire'[j].seq
               /\ \A t \in Tasks : wire'[j].tasks[t] < told'[t] => LastComing(t, j + 1)'
    <3>1. CASE j \in 1..Len(wire)
      <4>1. wire'[j] = wire[j] /\ j + 1 \in 1..(Len(wire) + 1) /\ \A i \in 1..(j - 1) : wire'[i] = wire[i]
        BY <1>1, <3>1
      <4>2. /\ \A e \in Coming : e.seq <= wire[j].seq => e.n <= wire[j].tasks[e.task]
            /\ \A i \in 1..(j - 1) : wire[i].is = "event" => wire[i].seq <= wire[j].seq
            /\ \A t \in Tasks : wire[j].tasks[t] < told[t] => LastComing(t, j + 1)
        BY <2>1, <3>1, <4>1 DEF TaskTreeOK, ReadsOK
      <4> QED BY <1>2, <1>3, <4>1, <4>2
    <3>2. CASE j = Len(wire) + 1
      <4>1. wire'[j].seq = root /\ wire'[j].tasks = events
        BY <1>1, <2>1, <3>2
      <4>2. \A i \in 1..(j - 1) : i \in 1..Len(wire) /\ wire'[i] = wire[i]
        BY <1>1, <3>2
      <4>3. \A t \in Tasks : ~(events[t] < told[t])
        BY <1>6
      <4> QED BY <1>2, <1>4, <1>5, <4>1, <4>2, <4>3
    <3> QED BY <1>1, <3>1, <3>2
  <2>2. ASSUME NEW j \in 1..Len(wire'), wire'[j].is = "detail"
        PROVE  /\ \A e \in Coming' : e.task = wire'[j].task /\ e.n > wire'[j].n =>
                    /\ e.seq > tree'.seq
                    /\ \A i \in 1..(j - 1) : wire'[i].is \in {"event", "tree"} => e.seq > wire'[i].seq
               /\ wire'[j].n < told'[wire'[j].task] => LastComing(wire[j].task, j + 1)'
    <3>1. CASE j \in 1..Len(wire)
      <4>1. wire'[j] = wire[j] /\ j + 1 \in 1..(Len(wire) + 1) /\ \A i \in 1..(j - 1) : wire'[i] = wire[i]
        BY <1>1, <3>1
      <4>2. \A e \in Coming : e.task = wire[j].task /\ e.n > wire[j].n =>
                    /\ e.seq > tree.seq
                    /\ \A i \in 1..(j - 1) : wire[i].is \in {"event", "tree"} => e.seq > wire[i].seq
        BY <2>2, <3>1, <4>1 DEF TaskTreeOK, ReadsOK
      <4>3. wire[j] \in Messages
        BY <3>1, ElementOfSeq DEF TaskTreeOK, TreeTypes
      <4>4. PICK u \in Tasks : u = wire[j].task
        BY <2>2, <4>1, <4>3, MessageIs
      <4>5. wire[j].n < told[u] => LastComing(u, j + 1)
        BY <2>2, <3>1, <4>1, <4>4 DEF TaskTreeOK, ReadsOK
      <4>6. wire[j].n < told[u] => LastComing(u, j + 1)'
        BY <1>3, <4>1, <4>5
      <4> QED BY <1>2, <4>1, <4>2, <4>4, <4>6 DEF LastComing
    <3>2. CASE j = Len(wire) + 1
      <4>1. wire'[j] = m /\ m.is = "detail" /\ m.n = events[m.task]
        BY <1>1, <2>2, <3>2
      <4>2. m.task \in Tasks
        BY <4>1, MessageIs
      <4>3. ~(m.n < told[m.task])
        BY <1>6, <4>1, <4>2
      <4>4. \A e \in Coming : ~(e.task = m.task /\ e.n > m.n)
        BY <1>4, <1>6, <4>1, <4>2
      <4> QED BY <1>2, <4>1, <4>3, <4>4
    <3> QED BY <1>1, <3>1, <3>2
  <2> QED BY <2>1, <2>2 DEF ReadsOK
<1>9. ASSUME NEW u \in Tasks, Asked(u)
      PROVE  Asked(u)' \/ DetailComes(u, events[u])'
  <2> DEFINE ask == T!Asks(u, "event")
  <2>1. ask # TreeAsk /\ ask.task = u /\ ask.by = "event"
    BY DEF T!Asks, TreeAsk
  <2>2. CASE Failed(ask)
    BY <1>1, <2>2 DEF Asked, Waits, Failed
  <2>3. CASE ask \in T!ToSet(asks')
    BY <2>3 DEF Asked, Waits
  <2>4. CASE m.is = "detail" /\ m.task = u /\ m.by = "event"
    <3>1. m.n = events[u] /\ events[u] \in Nat
      BY <1>6, <2>4
    <3> QED BY <1>1, <2>4, <3>1 DEF DetailComes
  <2>5. CASE m.is = "error" /\ m.of = ask
    BY <1>1, <2>5 DEF Asked, Waits, Failed
  <2>6. ask \in T!ToSet(asks) \/ Failed(ask)
    BY <1>9 DEF Asked, Waits
  <2> HIDE DEF ask
  <2> QED BY <2>1, <2>2, <2>3, <2>4, <2>5, <2>6
<1>10. ASSUME Waits(TreeAsk)
       PROVE  \/ Waits(TreeAsk)'
              \/ \E j \in 1..Len(wire') : wire'[j].is = "tree" /\ wire'[j].tasks = events
  <2>1. TreeAsk \notin DetailAsks
    BY DEF TreeAsk, DetailAsks
  <2>2. CASE Failed(TreeAsk)
    BY <1>1, <2>2 DEF Waits, Failed
  <2>3. CASE TreeAsk \in T!ToSet(asks)
    BY <1>1, <2>1, <2>3 DEF Waits, Failed
  <2> QED BY <1>10, <2>2, <2>3 DEF Waits
<1>14. \A u, n : DetailComes(u, n) => DetailComes(u, n)'
  BY <1>1 DEF DetailComes
<1>15. ASSUME NEW u \in Tasks, NEW n \in Nat, n <= events[u], DetailComes(u, events[u])'
       PROVE  DetailComes(u, n)'
  <2>1. PICK j \in 1..Len(wire') : /\ wire'[j].is = "detail" /\ wire'[j].by = "event" /\ wire'[j].task = u
                                    /\ wire'[j].n >= events[u]
    BY <1>15 DEF DetailComes
  <2>2. wire'[j] \in Messages
    BY ElementOfSeq DEF TreeTypes
  <2>3. wire'[j].n >= n
    BY <1>6, <1>15, <2>1, <2>2, MessageIs
  <2> QED BY <2>1, <2>3 DEF DetailComes
<1>11. ReceivedOK'
  <2>1. ASSUME NEW e \in Coming', e.seq <= tree'.seq
        PROVE  /\ e.n <= tree'.tasks[e.task]
               /\ \/ missed' \/ details'[e.task] = T!NoDetail \/ details'[e.task].all >= e.n
                  \/ Asked(e.task)'
                  \/ DetailComes(e.task, e.n)'
    <3>1. e \in Coming /\ e.task \in Tasks /\ e.n <= events[e.task] /\ e.n \in Nat
      BY <1>2, <1>4
    <3>2. /\ e.n <= tree.tasks[e.task]
          /\ \/ missed \/ details[e.task] = T!NoDetail \/ details[e.task].all >= e.n
             \/ Asked(e.task)
             \/ DetailComes(e.task, e.n)
      BY <2>1, <3>1 DEF TaskTreeOK, ReceivedOK
    <3>3. CASE Asked(e.task)
      <4>1. Asked(e.task)' \/ DetailComes(e.task, events[e.task])'
        BY <1>9, <3>1, <3>3
      <4> QED BY <1>15, <3>1, <3>2, <4>1
    <3>4. CASE DetailComes(e.task, e.n)
      BY <1>14, <3>2, <3>4
    <3> QED BY <3>2, <3>3, <3>4
  <2>2. reading' = "tree" => TreeAsked'
    <3>1. reading = "tree" => TreeAsked
      BY DEF TaskTreeOK, ReceivedOK
    <3> QED BY <1>1, <1>10, <3>1 DEF TreeAsked
  <2> QED BY <2>1, <2>2 DEF ReceivedOK
<1>12. ASSUME NEW u \in Tasks, TreeComes(u) PROVE TreeComes(u)'
  <2>1. CASE Waits(TreeAsk)
    BY <1>6, <1>10, <2>1 DEF TreeComes
  <2>2. CASE \E j \in 1..Len(wire) : wire[j].is = "tree" /\ wire[j].tasks[u] >= told[u]
    BY <1>1, <2>2 DEF TreeComes
  <2> QED BY <1>12, <2>1, <2>2 DEF TreeComes
<1>13. ~missed' => InformedOK'
  <2>1. SUFFICES ASSUME ~missed, NEW u \in Tasks
                 PROVE
    /\ tree'.tasks[u] >= told'[u] \/ LastComing(u, 1)' \/ TreeComes(u)'
    /\ \/ details'[u] = T!NoDetail \/ details'[u].all >= told'[u] \/ LastComing(u, 1)' \/ TreeComes(u)'
       \/ Asked(u)'
       \/ DetailComes(u, told[u])'
    BY DEF InformedOK
  <2>2. /\ tree.tasks[u] >= told[u] \/ LastComing(u, 1) \/ TreeComes(u)
        /\ \/ details[u] = T!NoDetail \/ details[u].all >= told[u] \/ LastComing(u, 1) \/ TreeComes(u)
           \/ Asked(u)
           \/ DetailComes(u, told[u])
    BY <2>1 DEF TaskTreeOK, InformedOK
  <2>3. (LastComing(u, 1) => LastComing(u, 1)') /\ (TreeComes(u) => TreeComes(u)')
    BY <1>1, <1>3, <1>12
  <2>4. CASE Asked(u)
    <3>1. Asked(u)' \/ DetailComes(u, events[u])'
      BY <1>9, <2>4
    <3>2. Asked(u)' \/ DetailComes(u, told[u])'
      BY <1>6, <1>15, <3>1
    <3> QED BY <2>2, <2>3, <3>2
  <2>5. CASE DetailComes(u, told[u])
    <3>1. DetailComes(u, told[u])'
      BY <1>14, <2>5
    <3> QED BY <2>2, <2>3, <3>1
  <2> QED BY <2>2, <2>3, <2>4, <2>5
<1> QED BY <1>7, <1>8, <1>11, <1>13 DEF TaskTreeOK

\* A request leaves the others.
LEMMA Dropped ==
  ASSUME TreeTypes, asks # <<>>, asks' = Tail(asks)
  PROVE  /\ Head(asks) \in Requests /\ asks' \in Seq(Requests)
         /\ \A other \in T!ToSet(asks) : other \in T!ToSet(asks') \/ other = Head(asks)
<1>1. asks \in Seq(Requests)
  BY DEF TreeTypes
<1>2. /\ Len(asks) \in Nat \ {0} /\ Len(asks') = Len(asks) - 1 /\ Head(asks) = asks[1]
      /\ \A i \in 1..Len(asks') : asks'[i] = asks[i + 1]
  BY <1>1, EmptySeq, HeadTailProperties, LenProperties
<1>3. ASSUME NEW i \in 1..Len(asks), i # 1 PROVE asks[i] \in T!ToSet(asks')
  <2>1. i - 1 \in 1..Len(asks') /\ asks'[i - 1] = asks[i]
    BY <1>2, <1>3
  <2> QED BY <2>1 DEF T!ToSet
<1>4. Head(asks) \in Requests /\ asks' \in Seq(Requests)
  BY <1>1, <1>2, HeadTailProperties, ElementOfSeq
<1> QED BY <1>2, <1>3, <1>4 DEF T!ToSet

\* The user asks, or the Server notifies, answers, refuses or sends a result.
LEMMA ServerStep ==
  ASSUME TaskTreeOK,
         \/ \E t \in Tasks : T!StopOrSteer(t) \/ T!Read(t)
         \/ \E e \in pending : T!Notify(e)
         \/ T!Answer \/ T!Refuse \/ T!Late \/ \E message \in results : T!Result(message)
  PROVE  TaskTreeOK'
<1> USE DEF T!client
<1>1. ASSUME NEW t \in Tasks, T!StopOrSteer(t) PROVE TaskTreeOK'
  <2>1. /\ results' = results \cup {[is |-> "task", task |-> t, n |-> events[t]]}
        /\ UNCHANGED <<events, root, asks, pending, since, wire, told, T!client>>
    BY <1>1 DEF T!StopOrSteer
  <2>2. [is |-> "task", task |-> t, n |-> events[t]] \in [is : {"task"}, task : Tasks, n : Nat]
    BY DEF TaskTreeOK, TreeTypes
  <2>3. TreeTypes'
    BY <2>1, <2>2 DEF TaskTreeOK, TreeTypes
  <2> QED BY <2>1, <2>3, AskStep
<1>2. ASSUME NEW t \in Tasks, T!Read(t) PROVE TaskTreeOK'
  <2>1. /\ asks' = Append(asks, T!Asks(t, "user"))
        /\ UNCHANGED <<events, root, results, pending, since, wire, told, T!client>>
    BY <1>2 DEF T!Read
  <2>2. T!Asks(t, "user") \in Requests /\ asks \in Seq(Requests)
    BY DEF T!Asks, DetailAsks, Requests, TaskTreeOK, TreeTypes
  <2>3. asks' \in Seq(Requests)
    BY <2>1, <2>2, AppendProperties
  <2>4. TreeTypes'
    BY <2>1, <2>3 DEF TaskTreeOK, TreeTypes
  <2>5. T!ToSet(asks) \subseteq T!ToSet(asks')
    BY <2>1, <2>2, AppendProperties, LenProperties DEF T!ToSet
  <2> QED BY <2>1, <2>4, <2>5, AskStep
<1>3. ASSUME NEW e \in pending, T!Notify(e) PROVE TaskTreeOK'
  <2> DEFINE m == [is |-> "event", seq |-> e.seq, task |-> e.task, n |-> e.n]
  <2>1. T!Sends(m) /\ pending' = pending \ {e}
        /\ UNCHANGED <<events, root, asks, results, since, calls, told, T!client>>
    BY <1>3 DEF T!Notify
  <2>2. m \in Messages /\ m.is = "event" /\ m.seq = News(e).seq
    BY DEF Messages, News, TaskTreeOK, TreeTypes, Events
  <2> HIDE DEF m
  <2>3. wire' \in Seq(Messages)
    BY <2>1, <2>2, Sent DEF TaskTreeOK
  <2>4. TreeTypes'
    BY <2>1, <2>3 DEF TaskTreeOK, TreeTypes
  <2>5. (\A k \in 1..(Len(wire) + 1) : Behind(k)' = Behind(k)) /\ News(e) \in Coming
    BY <1>3, NotifyBehind DEF TaskTreeOK
  <2>6. m.seq <= root
    BY <2>2, <2>5 DEF TaskTreeOK, SeqsOK
  <2> QED BY <2>1, <2>2, <2>4, <2>5, <2>6, SentStep
<1>4. ASSUME NEW m \in results, T!Result(m) PROVE TaskTreeOK'
  <2>1. T!Sends(m) /\ results' = results \ {m}
        /\ UNCHANGED <<events, root, asks, pending, since, calls, told, T!client>>
    BY <1>4 DEF T!Result
  <2>2. m \in Messages /\ m.is = "task"
    BY DEF Messages, TaskTreeOK, TreeTypes
  <2>3. wire' \in Seq(Messages) /\ Len(wire) \in Nat
    BY <2>1, <2>2, Sent DEF TaskTreeOK
  <2>4. TreeTypes'
    BY <2>1, <2>3 DEF TaskTreeOK, TreeTypes
  <2>5. \A k \in 1..(Len(wire) + 1) : Behind(k)' = Behind(k)
    BY <2>1, <2>2, <2>3, SentBehind DEF TaskTreeOK
  <2> QED BY <2>1, <2>2, <2>4, <2>5, SentStep
<1>5. ASSUME T!Answer PROVE TaskTreeOK'
  <2> DEFINE ask == Head(asks)
  <2> DEFINE m == IF ask.is = "tree" THEN [is |-> "tree", seq |-> root, tasks |-> events]
                  ELSE [is |-> "detail", task |-> ask.task, n |-> events[ask.task], by |-> ask.by]
  <2>1. /\ asks # <<>> /\ asks' = Tail(asks) /\ T!Sends(m) /\ ask.is # "late"
        /\ since' \in {root, since}
        /\ UNCHANGED <<events, root, results, pending, calls, told, T!client>>
    BY <1>5 DEF T!Answer
  <2>2. asks \in Seq(Requests) /\ events \in [Tasks -> Nat] /\ root \in Nat
    BY DEF TaskTreeOK, TreeTypes
  <2>3. /\ ask \in {TreeAsk} \cup DetailAsks /\ asks' \in Seq(Requests)
        /\ \A other \in T!ToSet(asks) : other \in T!ToSet(asks') \/ other = ask
    BY <2>1, Dropped DEF TaskTreeOK, Requests, LateAsk
  <2>4. /\ m \in Messages
        /\ \/ ask = TreeAsk /\ m.is = "tree" /\ m.seq = root /\ m.tasks = events
           \/ ask \in DetailAsks /\ m.is = "detail" /\ m.task = ask.task /\ m.by = ask.by /\ m.n = events[m.task]
    <3>1. CASE ask = TreeAsk
      <4>1. m = [is |-> "tree", seq |-> root, tasks |-> events]
        BY <3>1 DEF TreeAsk
      <4> QED BY <2>2, <3>1, <4>1 DEF Messages
    <3>2. CASE ask \in DetailAsks
      <4>1. m = [is |-> "detail", task |-> ask.task, n |-> events[ask.task], by |-> ask.by]
        BY <3>2 DEF DetailAsks
      <4> QED BY <2>2, <3>2, <4>1 DEF Messages, DetailAsks
    <3> QED BY <2>3, <3>1, <3>2
  <2> HIDE DEF ask, m
  <2>6. wire' \in Seq(Messages) /\ Len(wire) \in Nat
    BY <2>1, <2>4, Sent DEF TaskTreeOK
  <2>7. TreeTypes'
    BY <2>1, <2>2, <2>3, <2>6 DEF TaskTreeOK, TreeTypes
  <2>8. \A k \in 1..(Len(wire) + 1) : Behind(k)' = Behind(k)
    BY <2>1, <2>4, <2>6, SentBehind DEF TaskTreeOK
  <2>9. UNCHANGED <<events, root, told, T!client>>
    BY <2>1
  <2>10. \A other \in T!ToSet(asks) :
           \/ other \in T!ToSet(asks')
           \/ other = TreeAsk /\ m.is = "tree"
           \/ m.is = "detail" /\ other \in DetailAsks /\ m.task = other.task /\ m.by = other.by
           \/ m.is = "error" /\ m.of = other
    BY <2>3, <2>4
  <2>11. /\ m.is = "event" => m.seq <= root
         /\ m.is = "tree" => m.seq = root /\ m.tasks = events
         /\ m.is = "detail" => m.n = events[m.task]
    BY <2>4
  <2> QED BY <2>1, <2>4, <2>7, <2>8, <2>9, <2>10, <2>11, SentStep
<1>6. ASSUME T!Refuse PROVE TaskTreeOK'
  <2> DEFINE ask == Head(asks)
  <2> DEFINE m == [is |-> "error", of |-> ask]
  <2>1. /\ asks # <<>> /\ asks' = Tail(asks) /\ T!Sends(m) /\ ask.is # "late"
        /\ since' \in {root, since}
        /\ UNCHANGED <<events, root, results, pending, told, T!client>>
    BY <1>6 DEF T!Refuse
  <2>2. /\ ask \in {TreeAsk} \cup DetailAsks /\ asks' \in Seq(Requests)
        /\ \A other \in T!ToSet(asks) : other \in T!ToSet(asks') \/ other = ask
    BY <2>1, Dropped DEF TaskTreeOK, Requests, LateAsk
  <2>3. m \in Messages /\ m.is = "error" /\ m.of = ask
    BY <2>2 DEF Messages
  <2> HIDE DEF ask, m
  <2>4. wire' \in Seq(Messages) /\ Len(wire) \in Nat
    BY <2>1, <2>3, Sent DEF TaskTreeOK
  <2>5. TreeTypes'
    BY <2>1, <2>2, <2>4 DEF TaskTreeOK, TreeTypes
  <2>6. \A k \in 1..(Len(wire) + 1) : Behind(k)' = Behind(k)
    BY <2>1, <2>3, <2>4, SentBehind DEF TaskTreeOK
  <2>7. UNCHANGED <<events, root, told, T!client>>
    BY <2>1
  <2> QED BY <2>1, <2>2, <2>3, <2>5, <2>6, <2>7, SentStep
<1>7. ASSUME T!Late PROVE TaskTreeOK'
  <2>1. /\ asks # <<>> /\ asks' = Tail(asks) /\ Head(asks).is = "late"
        /\ since' \in {root, since}
        /\ UNCHANGED <<events, root, results, pending, wire, calls, told, T!client>>
    BY <1>7 DEF T!Late
  <2>2. /\ Head(asks) \in Requests /\ asks' \in Seq(Requests)
        /\ \A other \in T!ToSet(asks) : other \in T!ToSet(asks') \/ other = Head(asks)
    BY <2>1, Dropped DEF TaskTreeOK
  <2>3. Head(asks) = LateAsk
    BY <2>1, <2>2 DEF Requests, TreeAsk, DetailAsks
  <2>4. TreeTypes'
    BY <2>1, <2>2 DEF TaskTreeOK, TreeTypes
  <2> QED BY <2>1, <2>2, <2>3, <2>4, AskStep
<1> QED BY <1>1, <1>2, <1>3, <1>4, <1>5, <1>6, <1>7

\* What the client receives leaves the rest of the wire as it is.
LEMMA Rest ==
  ASSUME TaskTreeOK, NEW is, T!Receives(is)
  PROVE  /\ wire[1] = Head(wire) /\ wire[1] \in Messages /\ wire[1].is = is /\ wire' \in Seq(Messages)
         /\ UNCHANGED <<events, root, results, pending, since, calls, told>>
         /\ Len(wire) \in Nat \ {0} /\ 1 \in 1..Len(wire)
         /\ \A j \in 1..Len(wire) : j = 1 \/ (j - 1 \in 1..Len(wire') /\ wire'[j - 1] = wire[j])
         /\ Coming' \subseteq Coming /\ Coming \subseteq AllNews
         /\ \A u \in Tasks : LastComing(u, 1) =>
              LastComing(u, 1)' \/ (is = "event" /\ wire[1].task = u /\ wire[1].n = told[u])
         /\ \A u \in Tasks, j \in 1..Len(wire) : LastComing(u, j + 1) => LastComing(u, 1)'
         /\ is = "event" => News(wire[1]) \in Coming
         /\ is # "error" => \A ask : Failed(ask) => Failed(ask)'
         /\ \A u, n : DetailComes(u, n) => DetailComes(u, n)' \/ (is = "detail" /\ wire[1].task = u)
<1> wire # <<>> /\ wire' = Tail(wire) /\ pending' = pending /\ told' = told /\ TreeTypes
  BY DEF T!Receives, TaskTreeOK
<1>1. /\ wire[1] = Head(wire) /\ wire[1] \in Messages /\ wire[1].is = is /\ wire' \in Seq(Messages)
      /\ UNCHANGED <<events, root, results, pending, since, calls, told>>
      /\ Len(wire) \in Nat \ {0} /\ Len(wire') = Len(wire) - 1
  BY Taken DEF T!Receives
<1>2. \A j \in 1..Len(wire) : j = 1 \/ (j - 1 \in 1..Len(wire') /\ wire'[j - 1] = wire[j])
  <2>1. \A j \in 1..Len(wire') : wire'[j] = wire[j + 1]
    BY Taken
  <2>2. ASSUME NEW j \in 1..Len(wire), j # 1 PROVE j - 1 \in 1..Len(wire') /\ (j - 1) + 1 = j
    BY <1>1, <2>2
  <2> QED BY <2>1, <2>2
<1>3. Coming' = Behind(2) /\ Coming' \subseteq Coming /\ Coming \subseteq AllNews
  BY HeadAndRest, BehindType DEF Coming
<1>4. is = "event" => Coming = Coming' \cup {News(wire[1])}
  BY <1>1, HeadAndRest
<1>5. is # "event" => Coming = Coming'
  BY <1>1, HeadAndRest
<1>6. ASSUME NEW u \in Tasks, LastComing(u, 1)
      PROVE  LastComing(u, 1)' \/ (is = "event" /\ wire[1].task = u /\ wire[1].n = told[u])
  <2>1. PICK e \in Coming : e.task = u /\ e.n = told[u]
    BY <1>6 DEF LastComing, Coming
  <2>2. CASE e \in Coming'
    BY <2>1, <2>2 DEF LastComing, Coming
  <2>3. CASE e = News(wire[1]) /\ is = "event"
    BY <2>1, <2>3, NewsIs
  <2> QED BY <1>4, <1>5, <2>1, <2>2, <2>3
<1>7. ASSUME NEW u \in Tasks, NEW j \in 1..Len(wire), LastComing(u, j + 1)
      PROVE  LastComing(u, 1)'
  <2>1. j + 1 \in Nat /\ 2 <= j + 1
    BY <1>1
  <2>2. Behind(j + 1) \subseteq Behind(2)
    BY <2>1, BehindLess
  <2> QED BY <1>3, <1>7, <2>2 DEF LastComing, Coming
<1>8. 1 \in 1..Len(wire)
  BY <1>1
<1>9. is # "error" => \A ask : Failed(ask) => Failed(ask)'
  BY <1>1, <1>2 DEF Failed
<1>10. \A u, n : DetailComes(u, n) => DetailComes(u, n)' \/ (is = "detail" /\ wire[1].task = u)
  BY <1>1, <1>2 DEF DetailComes
<1> QED BY <1>1, <1>2, <1>3, <1>4, <1>6, <1>7, <1>8, <1>9, <1>10

\* What the rest of the wire says stays true of the sequence that was received.
LEMMA RestIsOK ==
  ASSUME TaskTreeOK, NEW is, T!Receives(is),
         tree'.seq = tree.seq \/ (is \in {"event", "tree"} /\ tree'.seq = wire[1].seq),
         \A t \in Tasks : details'[t].head <= details'[t].all
  PROVE  SeqsOK' /\ ReadsOK'
<1>1. ReadsOK'
  BY Rest, TakenReads DEF T!Receives, TaskTreeOK
<1>2. SeqsOK'
  <2>1. tree'.seq <= root
    BY Rest DEF TaskTreeOK, SeqsOK
  <2>2. ASSUME NEW j \in 1..Len(wire'), wire'[j].is \in {"event", "tree"} PROVE wire'[j].seq <= root
    <3>1. wire'[j] = wire[j + 1] /\ j + 1 \in 1..Len(wire)
      BY Taken DEF T!Receives, TaskTreeOK
    <3> QED BY <2>2, <3>1 DEF TaskTreeOK, SeqsOK
  <2>3. Coming' \subseteq Coming /\ UNCHANGED <<events, root, told>>
    BY Rest
  <2> QED BY <2>1, <2>2, <2>3 DEF TaskTreeOK, SeqsOK
<1> QED BY <1>1, <1>2

\* What an old notification says is in the tree, and in the detail or on its
\* way to it.
LEMMA OldEventStep ==
  ASSUME TaskTreeOK, T!OldEvent
  PROVE  TaskTreeOK'
<1> USE DEF T!client
<1> DEFINE m == wire[1]
<1>1. T!Receives("event") /\ m.seq < tree.seq /\ UNCHANGED <<asks, T!client>>
  BY Rest DEF T!OldEvent
<1>2. /\ m \in Messages /\ m.is = "event" /\ wire' \in Seq(Messages)
      /\ UNCHANGED <<events, root, results, pending, since, calls, told>>
      /\ \A j \in 1..Len(wire) : j = 1 \/ (j - 1 \in 1..Len(wire') /\ wire'[j - 1] = wire[j])
      /\ Coming' \subseteq Coming
      /\ \A u \in Tasks : LastComing(u, 1) => LastComing(u, 1)' \/ (m.task = u /\ m.n = told[u])
      /\ News(m) \in Coming
      /\ \A ask : Failed(ask) => Failed(ask)'
      /\ \A u, n : DetailComes(u, n) => DetailComes(u, n)'
  BY <1>1, Rest
<1>3. TreeTypes'
  BY <1>1, <1>2 DEF TaskTreeOK, TreeTypes
<1>4. SeqsOK' /\ ReadsOK'
  BY <1>1, RestIsOK DEF TaskTreeOK, SeqsOK
<1>5. (\A u : Asked(u) => Asked(u)') /\ (Waits(TreeAsk) => Waits(TreeAsk)')
  BY <1>1, <1>2 DEF Asked, Waits
<1>6. /\ \A u, n : DetailComes(u, n) => DetailComes(u, n)'
      /\ \A u : DetailComes(u, told[u]) => DetailComes(u, told[u])'
  BY <1>2 DEF DetailComes
<1>7. ReceivedOK'
  <2>1. reading' = "tree" => TreeAsked'
    BY <1>1, <1>2, <1>5 DEF TaskTreeOK, ReceivedOK, TreeAsked
  <2>2. ASSUME NEW e \in Coming', e.seq <= tree'.seq
        PROVE  /\ e.n <= tree'.tasks[e.task]
               /\ \/ missed' \/ details'[e.task] = T!NoDetail \/ details'[e.task].all >= e.n
                  \/ Asked(e.task)'
                  \/ DetailComes(e.task, e.n)'
    <3>1. /\ e.n <= tree.tasks[e.task]
          /\ \/ missed \/ details[e.task] = T!NoDetail \/ details[e.task].all >= e.n
             \/ Asked(e.task)
             \/ DetailComes(e.task, e.n)
      BY <1>1, <1>2, <2>2 DEF TaskTreeOK, ReceivedOK
    <3> HIDE DEF m
    <3> QED BY <1>1, <1>5, <1>6, <3>1
  <2> QED BY <2>1, <2>2 DEF ReceivedOK
<1>8. m.task \in Tasks /\ m.seq \in Nat /\ m.n \in Nat /\ tree.seq \in Nat
  BY <1>2, MessageIs DEF TaskTreeOK, TreeTypes
<1>9. /\ m.n <= tree.tasks[m.task]
      /\ \/ missed \/ details[m.task] = T!NoDetail \/ details[m.task].all >= m.n
         \/ Asked(m.task)
         \/ DetailComes(m.task, m.n)
  <2>1. News(m).seq = m.seq /\ News(m).task = m.task /\ News(m).n = m.n
    BY NewsIs
  <2>2. News(m).seq <= tree.seq
    BY <1>1, <1>8, <2>1
  <2> HIDE DEF m
  <2> QED BY <1>2, <2>1, <2>2 DEF TaskTreeOK, ReceivedOK
<1>10. ASSUME NEW u \in Tasks, TreeComes(u) PROVE TreeComes(u)'
  BY <1>1, <1>2, <1>5, <1>10 DEF TreeComes
<1> HIDE DEF m
<1>11. ~missed' => InformedOK'
  <2>1. SUFFICES ASSUME ~missed, NEW u \in Tasks
                 PROVE
    /\ tree'.tasks[u] >= told'[u] \/ LastComing(u, 1)' \/ TreeComes(u)'
    /\ \/ details'[u] = T!NoDetail \/ details'[u].all >= told'[u] \/ LastComing(u, 1)' \/ TreeComes(u)'
       \/ Asked(u)'
       \/ DetailComes(u, told[u])'
    BY <1>1 DEF InformedOK
  <2>2. /\ tree.tasks[u] >= told[u] \/ LastComing(u, 1) \/ TreeComes(u)
        /\ \/ details[u] = T!NoDetail \/ details[u].all >= told[u] \/ LastComing(u, 1) \/ TreeComes(u)
           \/ Asked(u)
           \/ DetailComes(u, told[u])
    BY <2>1 DEF TaskTreeOK, InformedOK
  <2>3. tree.tasks[u] >= told[u] \/ LastComing(u, 1)' \/ TreeComes(u)'
    BY <1>2, <1>8, <1>9, <1>10, <2>2 DEF TaskTreeOK, TreeTypes
  <2>4. \/ details[u] = T!NoDetail \/ details[u].all >= told[u] \/ LastComing(u, 1)' \/ TreeComes(u)'
        \/ Asked(u)
        \/ DetailComes(u, told[u])
    BY <1>2, <1>9, <1>10, <2>1, <2>2
  <2> QED BY <1>1, <1>2, <1>5, <1>6, <2>3, <2>4
<1> QED BY <1>3, <1>4, <1>7, <1>11 DEF TaskTreeOK

\* What one after a gap says comes with the snapshot, unless the gap is missed.
LEMMA GapEventStep ==
  ASSUME TaskTreeOK, T!GapEvent
  PROVE  TaskTreeOK'
<1> DEFINE m == wire[1]
<1>1. /\ T!Receives("event") /\ m.seq > tree.seq + 1 /\ UNCHANGED <<tree, details, reread>>
      /\ asks' = IF reading = "no" THEN Append(asks, TreeAsk) ELSE asks
      /\ reading' = IF reading = "no" THEN "tree" ELSE reading
      /\ missed' = (missed \/ reading = "details")
  BY Rest DEF T!GapEvent, TreeAsk
<1>2. /\ m \in Messages /\ m.is = "event" /\ wire' \in Seq(Messages)
      /\ UNCHANGED <<events, root, results, pending, since, calls, told>>
      /\ \A j \in 1..Len(wire) : j = 1 \/ (j - 1 \in 1..Len(wire') /\ wire'[j - 1] = wire[j])
      /\ Coming' \subseteq Coming
      /\ \A u \in Tasks : LastComing(u, 1) => LastComing(u, 1)' \/ (m.task = u /\ m.n = told[u])
      /\ \A u \in Tasks, j \in 1..Len(wire) : LastComing(u, j + 1) => LastComing(u, 1)'
      /\ \A ask : Failed(ask) => Failed(ask)'
      /\ \A u, n : DetailComes(u, n) => DetailComes(u, n)'
  BY <1>1, Rest
<1>3. /\ asks' \in Seq(Requests) /\ T!ToSet(asks) \subseteq T!ToSet(asks')
      /\ reading = "no" => TreeAsk \in T!ToSet(asks')
  <2>1. asks \in Seq(Requests)
    BY DEF TaskTreeOK, TreeTypes
  <2>2. CASE reading # "no"
    BY <1>1, <2>1, <2>2
  <2>3. CASE reading = "no"
    <3>1. asks' = Append(asks, TreeAsk) /\ TreeAsk \in Requests
      BY <1>1, <2>3 DEF Requests
    <3> QED BY <2>1, <3>1, AppendProperties, LenProperties DEF T!ToSet
  <2> QED BY <2>2, <2>3
<1>4. TreeTypes'
  BY <1>1, <1>2, <1>3 DEF TaskTreeOK, TreeTypes
<1>5. SeqsOK' /\ ReadsOK'
  BY <1>1, RestIsOK DEF TaskTreeOK, SeqsOK
<1>6. (\A u : Asked(u) => Asked(u)') /\ (Waits(TreeAsk) => Waits(TreeAsk)')
  BY <1>2, <1>3 DEF Asked, Waits
<1>7. /\ \A u, n : DetailComes(u, n) => DetailComes(u, n)'
      /\ \A u : DetailComes(u, told[u]) => DetailComes(u, told[u])'
  BY <1>2 DEF DetailComes
<1>8. m.task \in Tasks /\ m.seq \in Nat /\ m.n \in Nat /\ tree.seq \in Nat
  BY <1>2, MessageIs DEF TaskTreeOK, TreeTypes
<1>9. ASSUME reading = "tree"
      PROVE  Waits(TreeAsk)' \/ \E j \in 1..Len(wire) : wire[j].is = "tree" /\ j # 1
  BY <1>2, <1>6, <1>9 DEF TaskTreeOK, ReceivedOK, TreeAsked
<1>10. ASSUME NEW u \in Tasks, TreeComes(u) PROVE TreeComes(u)'
  BY <1>2, <1>6, <1>10 DEF TreeComes
<1> HIDE DEF m
<1>11. ReceivedOK'
  <2>1. reading' = "tree" => TreeAsked'
    <3>1. reading' = "tree" => reading = "no" \/ reading = "tree"
      BY <1>1
    <3> QED BY <1>2, <1>3, <1>9, <3>1 DEF TreeAsked, Waits
  <2>2. ASSUME NEW e \in Coming', e.seq <= tree'.seq
        PROVE  /\ e.n <= tree'.tasks[e.task]
               /\ \/ missed' \/ details'[e.task] = T!NoDetail \/ details'[e.task].all >= e.n
                  \/ Asked(e.task)'
                  \/ DetailComes(e.task, e.n)'
    <3>1. /\ e.n <= tree.tasks[e.task]
          /\ \/ missed \/ details[e.task] = T!NoDetail \/ details[e.task].all >= e.n
             \/ Asked(e.task)
             \/ DetailComes(e.task, e.n)
      BY <1>1, <1>2, <2>2 DEF TaskTreeOK, ReceivedOK
    <3> QED BY <1>1, <1>6, <1>7, <3>1
  <2> QED BY <2>1, <2>2 DEF ReceivedOK
\* A snapshot is on its way, or comes with what the event said.
<1>12. ASSUME ~missed', NEW u \in Tasks, LastComing(u, 1) PROVE LastComing(u, 1)' \/ TreeComes(u)'
  <2>1. reading # "details"
    BY <1>1, <1>12
  <2>2. CASE Waits(TreeAsk)'
    BY <2>2 DEF TreeComes
  <2>3. CASE reading = "tree" /\ ~Waits(TreeAsk)'
    <3>1. PICK j \in 1..Len(wire) : wire[j].is = "tree" /\ j # 1
      BY <1>9, <2>3
    <3>2. CASE wire[j].tasks[u] < told[u]
      BY <1>2, <3>1, <3>2 DEF TaskTreeOK, ReadsOK
    <3>3. CASE ~(wire[j].tasks[u] < told[u])
      <4>1. wire[j] \in Messages
        BY ElementOfSeq DEF TaskTreeOK, TreeTypes
      <4>2. wire[j].tasks \in [Tasks -> Nat]
        BY <3>1, <4>1, MessageIs
      <4>3. wire[j].tasks[u] >= told[u]
        BY <3>3, <4>2 DEF TaskTreeOK, TreeTypes
      <4> QED BY <1>2, <3>1, <4>3 DEF TreeComes
    <3> QED BY <3>2, <3>3
  <2>4. reading # "no" \/ Waits(TreeAsk)'
    BY <1>3 DEF Waits
  <2>5. reading \in {"no", "tree", "details"}
    BY DEF TaskTreeOK, TreeTypes
  <2> QED BY <2>1, <2>2, <2>3, <2>4, <2>5
<1>13. ~missed' => InformedOK'
  <2>1. SUFFICES ASSUME ~missed', NEW u \in Tasks
                 PROVE
    /\ tree'.tasks[u] >= told'[u] \/ LastComing(u, 1)' \/ TreeComes(u)'
    /\ \/ details'[u] = T!NoDetail \/ details'[u].all >= told'[u] \/ LastComing(u, 1)' \/ TreeComes(u)'
       \/ Asked(u)'
       \/ DetailComes(u, told[u])'
    BY DEF InformedOK
  <2>2. /\ tree.tasks[u] >= told[u] \/ LastComing(u, 1) \/ TreeComes(u)
        /\ \/ details[u] = T!NoDetail \/ details[u].all >= told[u] \/ LastComing(u, 1) \/ TreeComes(u)
           \/ Asked(u)
           \/ DetailComes(u, told[u])
    BY <1>1, <2>1 DEF TaskTreeOK, InformedOK
  <2> QED BY <1>1, <1>2, <1>6, <1>7, <1>10, <1>12, <2>1, <2>2
<1> QED BY <1>4, <1>5, <1>11, <1>13 DEF TaskTreeOK

\* What the next one says is taken into the tree, and into the detail or asked
\* for.
LEMMA NextEventStep ==
  ASSUME TaskTreeOK, T!NextEvent
  PROVE  TaskTreeOK'
<1> DEFINE m == wire[1]
           d == details[m.task]
<1>1. /\ T!Receives("event") /\ m.seq \in {tree.seq, tree.seq + 1}
      /\ tree' = [seq |-> m.seq, tasks |-> T!Upsert(tree.tasks, m)]
      /\ details' = IF d # T!NoDetail /\ m.n = d.all + 1
                    THEN [details EXCEPT ![m.task].all = m.n] ELSE details
      /\ asks' = IF d # T!NoDetail /\ m.n > d.all + 1
                 THEN Append(asks, T!Asks(m.task, "event")) ELSE asks
      /\ UNCHANGED <<reading, reread, missed>>
  BY Rest DEF T!NextEvent
<1>2. /\ m \in Messages /\ m.is = "event" /\ wire' \in Seq(Messages)
      /\ UNCHANGED <<events, root, results, pending, since, calls, told>>
      /\ \A j \in 1..Len(wire) : j = 1 \/ (j - 1 \in 1..Len(wire') /\ wire'[j - 1] = wire[j])
      /\ Coming' \subseteq Coming
      /\ \A u \in Tasks : LastComing(u, 1) => LastComing(u, 1)' \/ (m.task = u /\ m.n = told[u])
      /\ News(m) \in Coming /\ Coming \subseteq AllNews
      /\ \A ask : Failed(ask) => Failed(ask)'
      /\ \A u, n : DetailComes(u, n) => DetailComes(u, n)'
  BY <1>1, Rest
<1>3. m.task \in Tasks /\ m.seq \in Nat /\ m.n \in Nat /\ tree.seq \in Nat /\ d \in [all : Nat, head : Nat]
  BY <1>2, MessageIs DEF TaskTreeOK, TreeTypes
<1>4. News(m).seq = m.seq /\ News(m).task = m.task /\ News(m).n = m.n
  BY NewsIs
<1>5. /\ tree'.tasks \in [Tasks -> Nat] /\ tree' \in [seq : Nat, tasks : [Tasks -> Nat]]
      /\ \A u \in Tasks : tree'.tasks[u] >= tree.tasks[u]
      /\ tree'.tasks[m.task] >= m.n
  <2>1. tree.tasks \in [Tasks -> Nat]
    BY DEF TaskTreeOK, TreeTypes
  <2>2. tree'.tasks = [tree.tasks EXCEPT ![m.task] = IF m.n > @ THEN m.n ELSE @]
    BY <1>1 DEF T!Upsert
  <2>3. tree' = [seq |-> m.seq, tasks |-> tree'.tasks]
    BY <1>1
  <2>4. m.task \in Tasks /\ m.seq \in Nat /\ m.n \in Nat
    BY <1>3
  <2> HIDE DEF m
  <2>5. tree'.tasks \in [Tasks -> Nat]
    BY <2>1, <2>2, <2>4
  <2>6. \A u \in Tasks : tree'.tasks[u] >= tree.tasks[u]
    BY <2>1, <2>2, <2>4
  <2>7. tree'.tasks[m.task] >= m.n
    BY <2>1, <2>2, <2>4
  <2>8. tree' \in [seq : Nat, tasks : [Tasks -> Nat]]
    BY <2>3, <2>4, <2>5
  <2> QED BY <2>5, <2>6, <2>7, <2>8
<1>6. /\ asks' \in Seq(Requests) /\ T!ToSet(asks) \subseteq T!ToSet(asks')
      /\ (d # T!NoDetail /\ m.n > d.all + 1) => T!Asks(m.task, "event") \in T!ToSet(asks')
  <2>1. asks \in Seq(Requests) /\ T!Asks(m.task, "event") \in Requests
    BY <1>3 DEF TaskTreeOK, TreeTypes, T!Asks, DetailAsks, Requests
  <2>2. CASE asks' = asks /\ ~(d # T!NoDetail /\ m.n > d.all + 1)
    BY <2>1, <2>2
  <2>3. CASE asks' = Append(asks, T!Asks(m.task, "event"))
    BY <2>1, <2>3, AppendProperties, LenProperties DEF T!ToSet
  <2> QED BY <1>1, <2>2, <2>3
<1>7. /\ details' \in [Tasks -> [all : Nat, head : Nat]]
      /\ \A u \in Tasks : /\ details'[u].head = details[u].head /\ details'[u].all >= details[u].all
                          /\ details[u] = T!NoDetail => details'[u] = T!NoDetail
      /\ (d # T!NoDetail /\ m.n = d.all + 1) => details'[m.task].all = m.n
  <2>1. details \in [Tasks -> [all : Nat, head : Nat]]
    BY DEF TaskTreeOK, TreeTypes
  <2>2. CASE details' = details /\ ~(d # T!NoDetail /\ m.n = d.all + 1)
    BY <2>1, <2>2
  <2>3. CASE d # T!NoDetail /\ m.n = d.all + 1 /\ details' = [details EXCEPT ![m.task].all = m.n]
    BY <1>3, <2>1, <2>3
  <2> QED BY <1>1, <2>2, <2>3
<1>8. TreeTypes'
  BY <1>1, <1>2, <1>5, <1>6, <1>7 DEF TaskTreeOK, TreeTypes
<1>9. SeqsOK' /\ ReadsOK'
  <2>1. tree'.seq = m.seq
    BY <1>1
  <2>2. \A u \in Tasks : details'[u].head <= details'[u].all
    BY <1>7 DEF TaskTreeOK, SeqsOK, TreeTypes
  <2> QED BY <1>1, <2>1, <2>2, RestIsOK
<1>10. (\A u : Asked(u) => Asked(u)') /\ (Waits(TreeAsk) => Waits(TreeAsk)')
  BY <1>2, <1>6 DEF Asked, Waits
<1>11. /\ \A u, n : DetailComes(u, n) => DetailComes(u, n)'
       /\ \A u : DetailComes(u, told[u]) => DetailComes(u, told[u])'
  BY <1>2 DEF DetailComes
<1>12. ASSUME NEW u \in Tasks, TreeComes(u) PROVE TreeComes(u)'
  BY <1>2, <1>10, <1>12 DEF TreeComes
\* The task of the event has it now.
<1>13. details'[m.task] = T!NoDetail \/ details'[m.task].all >= m.n \/ T!Asks(m.task, "event") \in T!ToSet(asks')
  BY <1>3, <1>6, <1>7
<1>14. m.seq > tree.seq => m.seq = tree.seq + 1
  BY <1>1, <1>3
<1>15. tree'.seq = m.seq
  BY <1>1
<1> HIDE DEF m, d
<1>16. ReceivedOK'
  <2>1. reading' = "tree" => TreeAsked'
    BY <1>1, <1>2, <1>10 DEF TaskTreeOK, ReceivedOK, TreeAsked, m
  <2>2. ASSUME NEW e \in Coming', e.seq <= tree'.seq
        PROVE  /\ e.n <= tree'.tasks[e.task]
               /\ \/ missed' \/ details'[e.task] = T!NoDetail \/ details'[e.task].all >= e.n
                  \/ Asked(e.task)'
                  \/ DetailComes(e.task, e.n)'
    <3>1. e \in Coming /\ e.seq \in Nat /\ e.task \in Tasks /\ e.n \in Nat
      BY <1>2 DEF AllNews
    <3>2. CASE e.seq <= tree.seq
      <4>1. /\ e.n <= tree.tasks[e.task]
            /\ \/ missed \/ details[e.task] = T!NoDetail \/ details[e.task].all >= e.n
               \/ Asked(e.task)
               \/ DetailComes(e.task, e.n)
        BY <3>1, <3>2 DEF TaskTreeOK, ReceivedOK
      <4>2. e.n <= tree'.tasks[e.task]
        BY <1>5, <3>1, <4>1 DEF TaskTreeOK, TreeTypes
      <4>3. \/ missed' \/ details'[e.task] = T!NoDetail \/ details'[e.task].all >= e.n
            \/ Asked(e.task)
            \/ DetailComes(e.task, e.n)
        BY <1>1, <1>7, <3>1, <4>1 DEF TaskTreeOK, TreeTypes
      <4> QED BY <1>10, <1>11, <4>2, <4>3
    <3>3. CASE ~(e.seq <= tree.seq)
      <4>1. e.seq = m.seq
        BY <1>1, <1>3, <1>14, <1>15, <2>2, <3>1, <3>3
      <4>2. e = News(m)
        BY <1>2, <1>4, <3>1, <4>1 DEF TaskTreeOK, SeqsOK
      <4>3. e.task = m.task /\ e.n = m.n
        BY <1>4, <4>2
      <4>4. T!Asks(m.task, "event") \in T!ToSet(asks') => Asked(e.task)'
        BY <4>3 DEF Asked, Waits
      <4> QED BY <1>3, <1>5, <1>13, <4>3, <4>4
    <3> QED BY <3>2, <3>3
  <2> QED BY <2>1, <2>2 DEF ReceivedOK
<1>17. ~missed' => InformedOK'
  <2>1. SUFFICES ASSUME ~missed, NEW u \in Tasks
                 PROVE
    /\ tree'.tasks[u] >= told'[u] \/ LastComing(u, 1)' \/ TreeComes(u)'
    /\ \/ details'[u] = T!NoDetail \/ details'[u].all >= told'[u] \/ LastComing(u, 1)' \/ TreeComes(u)'
       \/ Asked(u)'
       \/ DetailComes(u, told[u])'
    BY <1>1 DEF InformedOK
  <2>2. /\ tree.tasks[u] >= told[u] \/ LastComing(u, 1) \/ TreeComes(u)
        /\ \/ details[u] = T!NoDetail \/ details[u].all >= told[u] \/ LastComing(u, 1) \/ TreeComes(u)
           \/ Asked(u)
           \/ DetailComes(u, told[u])
    BY <2>1 DEF TaskTreeOK, InformedOK
  <2>3. (LastComing(u, 1) => LastComing(u, 1)' \/ (m.task = u /\ m.n = told[u])) /\ (TreeComes(u) => TreeComes(u)')
    BY <1>2, <1>12
  <2>4. CASE m.task = u /\ m.n = told[u]
    <3>1. T!Asks(m.task, "event") \in T!ToSet(asks') => Asked(u)'
      BY <2>4 DEF Asked, Waits
    <3>2. told'[u] = m.n
      BY <1>2, <2>4
    <3> QED BY <1>5, <1>13, <2>4, <3>1, <3>2
  <2>5. CASE ~(m.task = u /\ m.n = told[u])
    <3>1. told[u] \in Nat /\ tree.tasks[u] \in Nat /\ details[u].all \in Nat /\ details'[u].all \in Nat
      BY <1>7 DEF TaskTreeOK, TreeTypes
    <3>2. tree'.tasks[u] >= told[u] \/ LastComing(u, 1)' \/ TreeComes(u)'
      BY <1>5, <2>2, <2>3, <2>5, <3>1
    <3>3. \/ details'[u] = T!NoDetail \/ details'[u].all >= told[u] \/ LastComing(u, 1)' \/ TreeComes(u)'
          \/ Asked(u)
          \/ DetailComes(u, told[u])
      BY <1>7, <2>2, <2>3, <2>5, <3>1
    <3> QED BY <1>2, <1>10, <1>11, <3>2, <3>3
  <2> QED BY <2>4, <2>5
<1> QED BY <1>8, <1>9, <1>16, <1>17 DEF TaskTreeOK

\* A snapshot has all that was notified before it; the details that do not have
\* its headers go.
LEMMA ReceiveTreeStep ==
  ASSUME TaskTreeOK, T!ReceiveTree
  PROVE  TaskTreeOK'
<1> DEFINE m     == wire[1]
           stale == T!Outdated(m.tasks)
<1>1. /\ T!Receives("tree") /\ tree' = [seq |-> m.seq, tasks |-> m.tasks]
      /\ details' = [t \in Tasks |-> IF t \in stale THEN T!NoDetail ELSE details[t]]
      /\ reading' = IF stale = {} THEN "no" ELSE "details"
      /\ \E order \in T!SetToSeqs(stale) :
           asks' = asks \o [i \in 1..Cardinality(stale) |-> T!Asks(order[i], "recovery")]
      /\ reread' = stale /\ missed' = FALSE
  BY Rest, SameSets DEF T!ReceiveTree
<1>2. /\ m \in Messages /\ m.is = "tree" /\ wire' \in Seq(Messages) /\ 1 \in 1..Len(wire)
      /\ UNCHANGED <<events, root, results, pending, since, calls, told>>
      /\ \A j \in 1..Len(wire) : j = 1 \/ (j - 1 \in 1..Len(wire') /\ wire'[j - 1] = wire[j])
      /\ Coming' \subseteq Coming /\ Coming \subseteq AllNews
      /\ \A u \in Tasks : LastComing(u, 1) => LastComing(u, 1)'
      /\ \A u \in Tasks, j \in 1..Len(wire) : LastComing(u, j + 1) => LastComing(u, 1)'
  BY <1>1, Rest
<1>3. m.seq \in Nat /\ m.tasks \in [Tasks -> Nat]
  BY <1>2, MessageIs
<1>4. stale \subseteq Tasks /\ Cardinality(stale) \in Nat
  BY TreeAssumption, FS_Subset, FS_CardinalityType, SameSets DEF T!Assumption, T!Outdated
<1>5. asks' \in Seq(Requests) /\ T!ToSet(asks) \subseteq T!ToSet(asks')
  <2>1. PICK order \in T!SetToSeqs(stale) :
          asks' = asks \o [i \in 1..Cardinality(stale) |-> T!Asks(order[i], "recovery")]
    BY <1>1
  <2>2. order \in [1..Cardinality(stale) -> stale]
    BY SameSets DEF T!SetToSeqs
  <2> DEFINE more == [i \in 1..Cardinality(stale) |-> T!Asks(order[i], "recovery")]
  <2> HIDE DEF stale
  <2>3. more \in Seq(Requests)
    <3>1. \A i \in 1..Cardinality(stale) : T!Asks(order[i], "recovery") \in Requests
      BY <1>4, <2>2 DEF T!Asks, DetailAsks, Requests
    <3> QED BY <1>4, <3>1
  <2>4. asks \in Seq(Requests) /\ asks' = asks \o more
    BY <2>1 DEF TaskTreeOK, TreeTypes
  <2> HIDE DEF more
  <2>5. Len(asks) \in Nat /\ Len(more) \in Nat
    BY <2>3, <2>4, LenProperties
  <2>6. asks' \in Seq(Requests) /\ Len(asks') = Len(asks) + Len(more)
        /\ \A i \in 1..Len(asks) : asks'[i] = asks[i]
    BY <2>3, <2>4, <2>5, ConcatProperties
  <2>7. \A i \in 1..Len(asks) : i \in 1..Len(asks')
    BY <2>5, <2>6
  <2> QED BY <2>6, <2>7 DEF T!ToSet
<1>6. TreeTypes'
  <2>1. details' \in [Tasks -> [all : Nat, head : Nat]]
    BY <1>1 DEF TaskTreeOK, TreeTypes, T!NoDetail
  <2>2. tree' \in [seq : Nat, tasks : [Tasks -> Nat]] /\ reading' \in {"no", "details"}
    BY <1>1, <1>3
  <2> QED BY <1>2, <1>5, <2>1, <2>2 DEF TaskTreeOK, TreeTypes
\* The details that stay have the header of the snapshot.
<1>7. ASSUME NEW u \in Tasks
      PROVE  \/ details'[u] = T!NoDetail
             \/ details'[u] = details[u] /\ details[u].head = m.tasks[u]
  BY <1>1 DEF T!Outdated
<1>8. ASSUME NEW u \in Tasks
      PROVE  details'[u].head <= details'[u].all /\ (details'[u] = T!NoDetail \/ details'[u].all >= m.tasks[u])
  BY <1>3, <1>7 DEF T!NoDetail, TaskTreeOK, SeqsOK, TreeTypes
<1>9. SeqsOK' /\ ReadsOK'
  <2>1. tree'.seq = wire[1].seq
    BY <1>1
  <2> QED BY <1>1, <1>8, <2>1, RestIsOK
<1>10. tree'.seq = m.seq /\ tree'.tasks = m.tasks
  BY <1>1
<1>11. /\ \A e \in Coming : e.seq <= m.seq => e.n <= m.tasks[e.task]
       /\ \A t \in Tasks : m.tasks[t] < told[t] => LastComing(t, 1 + 1)
  BY <1>2 DEF TaskTreeOK, ReadsOK
<1> HIDE DEF m, stale
<1>12. ReceivedOK'
  <2>1. reading' # "tree"
    BY <1>1
  <2>2. ASSUME NEW e \in Coming', e.seq <= tree'.seq
        PROVE  e.n <= tree'.tasks[e.task] /\ (details'[e.task] = T!NoDetail \/ details'[e.task].all >= e.n)
    <3>1. e \in Coming /\ e.task \in Tasks /\ e.n \in Nat /\ e.n <= m.tasks[e.task]
      BY <1>2, <1>10, <1>11, <2>2 DEF AllNews
    <3>2. details'[e.task].all \in Nat /\ m.tasks[e.task] \in Nat
      BY <1>3, <1>6, <3>1 DEF TreeTypes
    <3> QED BY <1>8, <1>10, <3>1, <3>2
  <2> QED BY <2>1, <2>2 DEF ReceivedOK
<1>13. InformedOK'
  <2>1. ASSUME NEW u \in Tasks
        PROVE  LastComing(u, 1)' \/ (tree'.tasks[u] >= told'[u] /\ (details'[u] = T!NoDetail \/ details'[u].all >= told'[u]))
    <3>1. CASE m.tasks[u] < told[u]
      BY <1>2, <1>11, <3>1
    <3>2. CASE ~(m.tasks[u] < told[u])
      <4>1. m.tasks[u] >= told[u] /\ told'[u] = told[u] /\ told[u] \in Nat /\ m.tasks[u] \in Nat /\ details'[u].all \in Nat
        BY <1>2, <1>3, <1>6, <3>2 DEF TreeTypes, TaskTreeOK
      <4> QED BY <1>8, <1>10, <4>1
    <3> QED BY <3>1, <3>2
  <2> QED BY <2>1 DEF InformedOK
<1> QED BY <1>6, <1>9, <1>12, <1>13 DEF TaskTreeOK

\* A detail has all that was notified before it was read.
LEMMA ReceiveDetailStep ==
  ASSUME TaskTreeOK, T!ReceiveDetail
  PROVE  TaskTreeOK'
<1> DEFINE m == wire[1]
<1>1. /\ T!Receives("detail") /\ details' = [details EXCEPT ![m.task] = [all |-> m.n, head |-> m.n]]
      /\ reading' \in {reading, "no"}
      /\ UNCHANGED <<asks, tree, missed>>
  BY Rest DEF T!ReceiveDetail
<1>2. /\ m \in Messages /\ m.is = "detail" /\ wire' \in Seq(Messages) /\ 1 \in 1..Len(wire)
      /\ UNCHANGED <<events, root, results, pending, since, calls, told>>
      /\ \A j \in 1..Len(wire) : j = 1 \/ (j - 1 \in 1..Len(wire') /\ wire'[j - 1] = wire[j])
      /\ Coming' \subseteq Coming /\ Coming \subseteq AllNews
      /\ \A u \in Tasks : LastComing(u, 1) => LastComing(u, 1)'
      /\ \A u \in Tasks, j \in 1..Len(wire) : LastComing(u, j + 1) => LastComing(u, 1)'
      /\ \A ask : Failed(ask) => Failed(ask)'
      /\ \A u, n : DetailComes(u, n) => DetailComes(u, n)' \/ u = m.task
  BY <1>1, Rest
<1>3. m.task \in Tasks /\ m.n \in Nat
  BY <1>2, MessageIs
<1>4. /\ details' \in [Tasks -> [all : Nat, head : Nat]]
      /\ details'[m.task].all = m.n /\ details'[m.task].head = m.n
      /\ \A u \in Tasks : u # m.task => details'[u] = details[u]
  BY <1>1, <1>3 DEF TaskTreeOK, TreeTypes
<1>5. TreeTypes'
  BY <1>1, <1>2, <1>4 DEF TaskTreeOK, TreeTypes
<1>6. SeqsOK' /\ ReadsOK'
  <2>1. \A u \in Tasks : details'[u].head <= details'[u].all
    BY <1>3, <1>4 DEF TaskTreeOK, SeqsOK
  <2> QED BY <1>1, <2>1, RestIsOK
<1>7. (\A u : Asked(u) => Asked(u)') /\ (Waits(TreeAsk) => Waits(TreeAsk)')
  BY <1>1, <1>2 DEF Asked, Waits
<1>8. /\ \A u, n : DetailComes(u, n) /\ u # m.task => DetailComes(u, n)'
      /\ \A u : DetailComes(u, told[u]) /\ u # m.task => DetailComes(u, told[u])'
  BY <1>2 DEF DetailComes
<1>9. ASSUME NEW u \in Tasks, TreeComes(u) PROVE TreeComes(u)'
  BY <1>2, <1>7, <1>9 DEF TreeComes
<1>10. reading' = "tree" => TreeAsked'
  BY <1>1, <1>2, <1>7 DEF TaskTreeOK, ReceivedOK, TreeAsked
<1>11. /\ \A e \in Coming : e.task = m.task /\ e.n > m.n => e.seq > tree.seq
       /\ m.n < told[m.task] => LastComing(m.task, 1 + 1)
  BY <1>2 DEF TaskTreeOK, ReadsOK
<1> HIDE DEF m
<1>12. ReceivedOK'
  <2>1. ASSUME NEW e \in Coming', e.seq <= tree'.seq
        PROVE  /\ e.n <= tree'.tasks[e.task]
               /\ \/ missed' \/ details'[e.task] = T!NoDetail \/ details'[e.task].all >= e.n
                  \/ Asked(e.task)'
                  \/ DetailComes(e.task, e.n)'
    <3>1. e \in Coming /\ e.seq \in Nat /\ e.task \in Tasks /\ e.n \in Nat /\ tree.seq \in Nat
      BY <1>2 DEF AllNews, TaskTreeOK, TreeTypes
    <3>2. /\ e.n <= tree.tasks[e.task]
          /\ \/ missed \/ details[e.task] = T!NoDetail \/ details[e.task].all >= e.n
             \/ Asked(e.task)
             \/ DetailComes(e.task, e.n)
      BY <1>1, <2>1, <3>1 DEF TaskTreeOK, ReceivedOK
    <3>3. CASE e.task = m.task
      <4>1. e.n <= m.n
        BY <1>1, <1>3, <1>11, <2>1, <3>1, <3>3
      <4> QED BY <1>1, <1>3, <1>4, <3>1, <3>2, <3>3, <4>1
    <3>4. CASE e.task # m.task
      BY <1>1, <1>4, <1>7, <1>8, <3>1, <3>2, <3>4
    <3> QED BY <3>3, <3>4
  <2> QED BY <1>10, <2>1 DEF ReceivedOK
<1>13. ~missed' => InformedOK'
  <2>1. SUFFICES ASSUME ~missed, NEW u \in Tasks
                 PROVE
    /\ tree'.tasks[u] >= told'[u] \/ LastComing(u, 1)' \/ TreeComes(u)'
    /\ \/ details'[u] = T!NoDetail \/ details'[u].all >= told'[u] \/ LastComing(u, 1)' \/ TreeComes(u)'
       \/ Asked(u)'
       \/ DetailComes(u, told[u])'
    BY <1>1 DEF InformedOK
  <2>2. /\ tree.tasks[u] >= told[u] \/ LastComing(u, 1) \/ TreeComes(u)
        /\ \/ details[u] = T!NoDetail \/ details[u].all >= told[u] \/ LastComing(u, 1) \/ TreeComes(u)
           \/ Asked(u)
           \/ DetailComes(u, told[u])
    BY <2>1 DEF TaskTreeOK, InformedOK
  <2>3. (LastComing(u, 1) => LastComing(u, 1)') /\ (TreeComes(u) => TreeComes(u)') /\ tree' = tree /\ told' = told
    BY <1>1, <1>2, <1>9
  <2>4. CASE u = m.task
    <3>1. told[u] \in Nat
      BY DEF TaskTreeOK, TreeTypes
    <3>2. m.n >= told[u] \/ LastComing(u, 1)'
      BY <1>2, <1>3, <1>11, <2>4, <3>1
    <3> QED BY <1>4, <2>2, <2>3, <2>4, <3>2
  <2>5. CASE u # m.task
    BY <1>4, <1>7, <1>8, <2>2, <2>3, <2>5
  <2> QED BY <2>4, <2>5
<1> QED BY <1>5, <1>6, <1>12, <1>13 DEF TaskTreeOK

\* A result only adds to the tree.
LEMMA ReceiveTaskStep ==
  ASSUME TaskTreeOK, T!ReceiveTask
  PROVE  TaskTreeOK'
<1> DEFINE m == wire[1]
<1>1. /\ T!Receives("task") /\ tree' = [tree EXCEPT !.tasks = T!Upsert(@, m)]
      /\ UNCHANGED <<asks, details, reading, reread, missed>>
  BY Rest DEF T!ReceiveTask
<1>2. /\ m \in Messages /\ m.is = "task" /\ wire' \in Seq(Messages)
      /\ UNCHANGED <<events, root, results, pending, since, calls, told>>
      /\ \A j \in 1..Len(wire) : j = 1 \/ (j - 1 \in 1..Len(wire') /\ wire'[j - 1] = wire[j])
      /\ Coming' \subseteq Coming /\ Coming \subseteq AllNews
      /\ \A u \in Tasks : LastComing(u, 1) => LastComing(u, 1)'
      /\ \A ask : Failed(ask) => Failed(ask)'
      /\ \A u, n : DetailComes(u, n) => DetailComes(u, n)'
  BY <1>1, Rest
<1>3. m.task \in Tasks /\ m.n \in Nat /\ tree \in [seq : Nat, tasks : [Tasks -> Nat]]
  BY <1>2, MessageIs DEF TaskTreeOK, TreeTypes
<1>4. tree'.seq = tree.seq /\ tree'.tasks = [tree.tasks EXCEPT ![m.task] = IF m.n > @ THEN m.n ELSE @]
      /\ tree' = [seq |-> tree.seq, tasks |-> tree'.tasks]
  BY <1>1, <1>3 DEF T!Upsert
<1> HIDE DEF m
<1>5. tree'.tasks \in [Tasks -> Nat] /\ \A u \in Tasks : tree'.tasks[u] >= tree.tasks[u]
  BY <1>3, <1>4
<1>6. TreeTypes'
  BY <1>1, <1>2, <1>3, <1>4, <1>5 DEF TaskTreeOK, TreeTypes
<1>7. SeqsOK' /\ ReadsOK'
  <2>1. \A u \in Tasks : details'[u].head <= details'[u].all
    BY <1>1 DEF TaskTreeOK, SeqsOK
  <2> QED BY <1>1, <1>4, <2>1, RestIsOK
<1>8. (\A u : Asked(u) => Asked(u)') /\ (Waits(TreeAsk) => Waits(TreeAsk)')
  BY <1>1, <1>2 DEF Asked, Waits
<1>9. \A j \in 1..Len(wire) : wire[j].is = "task" \/ \E i \in 1..Len(wire') : wire'[i] = wire[j]
  BY <1>2 DEF m
<1>10. /\ \A u, n : DetailComes(u, n) => DetailComes(u, n)'
       /\ \A u : DetailComes(u, told[u]) => DetailComes(u, told[u])'
  BY <1>2 DEF DetailComes
<1>11. ASSUME NEW u \in Tasks, TreeComes(u) PROVE TreeComes(u)'
  BY <1>1, <1>2, <1>8, <1>9, <1>11 DEF TreeComes
<1>12. reading' = "tree" => TreeAsked'
  BY <1>1, <1>8, <1>9 DEF TaskTreeOK, ReceivedOK, TreeAsked
<1>13. ReceivedOK'
  <2>1. ASSUME NEW e \in Coming', e.seq <= tree'.seq
        PROVE  /\ e.n <= tree'.tasks[e.task]
               /\ \/ missed' \/ details'[e.task] = T!NoDetail \/ details'[e.task].all >= e.n
                  \/ Asked(e.task)'
                  \/ DetailComes(e.task, e.n)'
    <3>1. e \in Coming /\ e.task \in Tasks /\ e.n \in Nat
      BY <1>2 DEF AllNews
    <3>2. /\ e.n <= tree.tasks[e.task]
          /\ \/ missed \/ details[e.task] = T!NoDetail \/ details[e.task].all >= e.n
             \/ Asked(e.task)
             \/ DetailComes(e.task, e.n)
      BY <1>4, <2>1, <3>1 DEF TaskTreeOK, ReceivedOK
    <3>3. e.n <= tree'.tasks[e.task]
      BY <1>3, <1>5, <3>1, <3>2
    <3> QED BY <1>1, <1>8, <1>10, <3>1, <3>2, <3>3
  <2> QED BY <1>12, <2>1 DEF ReceivedOK
<1>14. ~missed' => InformedOK'
  <2>1. SUFFICES ASSUME ~missed, NEW u \in Tasks
                 PROVE
    /\ tree'.tasks[u] >= told'[u] \/ LastComing(u, 1)' \/ TreeComes(u)'
    /\ \/ details'[u] = T!NoDetail \/ details'[u].all >= told'[u] \/ LastComing(u, 1)' \/ TreeComes(u)'
       \/ Asked(u)'
       \/ DetailComes(u, told[u])'
    BY <1>1 DEF InformedOK
  <2>2. /\ tree.tasks[u] >= told[u] \/ LastComing(u, 1) \/ TreeComes(u)
        /\ \/ details[u] = T!NoDetail \/ details[u].all >= told[u] \/ LastComing(u, 1) \/ TreeComes(u)
           \/ Asked(u)
           \/ DetailComes(u, told[u])
    BY <2>1 DEF TaskTreeOK, InformedOK
  <2>3. (LastComing(u, 1) => LastComing(u, 1)') /\ (TreeComes(u) => TreeComes(u)') /\ told' = told
    BY <1>2, <1>11
  <2>4. tree.tasks[u] >= told[u] => tree'.tasks[u] >= told[u]
    BY <1>3, <1>5 DEF TaskTreeOK, TreeTypes
  <2> QED BY <1>1, <1>8, <1>10, <2>2, <2>3, <2>4
<1> QED BY <1>6, <1>7, <1>13, <1>14 DEF TaskTreeOK

\* A request fails: what was told is on its way as it was, unless that was for
\* this request to bring.
LEMMA FailStep ==
  ASSUME TaskTreeOK, TreeTypes', SeqsOK', ReadsOK', Coming' = Coming,
         UNCHANGED <<events, root, told, tree, details>>, missed => missed',
         \A u \in Tasks : LastComing(u, 1) => LastComing(u, 1)',
         reading' = "tree" => reading = "tree" /\ (TreeAsked => TreeAsked'),
         ~missed' => \A u \in Tasks : /\ Asked(u) => Asked(u)'
                                      /\ TreeComes(u) => TreeComes(u)'
                                      /\ \A n : DetailComes(u, n) => DetailComes(u, n)'
                                      /\ DetailComes(u, told[u]) => DetailComes(u, told[u])'
  PROVE  TaskTreeOK'
<1>1. ASSUME NEW e \in Coming', e.seq <= tree'.seq
      PROVE  /\ e.n <= tree'.tasks[e.task]
             /\ \/ missed' \/ details'[e.task] = T!NoDetail \/ details'[e.task].all >= e.n
                \/ Asked(e.task)'
                \/ DetailComes(e.task, e.n)'
  <2>1. e \in Coming /\ e.task \in Tasks
    BY BehindType DEF TaskTreeOK, Coming, AllNews
  <2>2. /\ e.n <= tree.tasks[e.task]
        /\ \/ missed \/ details[e.task] = T!NoDetail \/ details[e.task].all >= e.n
           \/ Asked(e.task)
           \/ DetailComes(e.task, e.n)
    BY <1>1, <2>1 DEF TaskTreeOK, ReceivedOK
  <2> QED BY <2>1, <2>2
<1>2. ReceivedOK'
  BY <1>1 DEF ReceivedOK, TaskTreeOK
<1>3. ~missed' => InformedOK'
  BY DEF TaskTreeOK, InformedOK
<1> QED BY <1>2, <1>3 DEF TaskTreeOK

\* What fails says so, or is a subscribe or a read for an event.
LEMMA FailsSaysSo ==
  ASSUME TreeTypes, NEW ask, T!Fails(ask)
  PROVE  /\ tree' = tree /\ details' = details /\ (missed => missed')
         /\ reading' \in {"no", reading}
         /\ ask.is = "tree" => missed' /\ reading' = "no"
         /\ ask.by = "event" => missed'
BY DEF T!Fails

\* An error is received.
LEMMA ReceiveErrorStep ==
  ASSUME TaskTreeOK, T!ReceiveError
  PROVE  TaskTreeOK'
<1> DEFINE m == wire[1]
<1>1. T!Receives("error") /\ T!Fails(m.of) /\ asks' = asks
  BY Rest DEF T!ReceiveError
<1>2. /\ m \in Messages /\ m.is = "error" /\ wire' \in Seq(Messages)
      /\ UNCHANGED <<events, root, results, pending, since, calls, told>>
      /\ \A j \in 1..Len(wire) : j = 1 \/ (j - 1 \in 1..Len(wire') /\ wire'[j - 1] = wire[j])
      /\ \A u \in Tasks : LastComing(u, 1) => LastComing(u, 1)'
      /\ \A u, n : DetailComes(u, n) => DetailComes(u, n)'
  BY <1>1, Rest
<1>3. m.of \in {TreeAsk} \cup DetailAsks
  BY <1>2, MessageIs
<1>4. /\ tree' = tree /\ details' = details /\ (missed => missed') /\ reading' \in {"no", reading}
      /\ m.of.is = "tree" => missed' /\ reading' = "no"
      /\ m.of.by = "event" => missed'
  BY <1>1, FailsSaysSo DEF TaskTreeOK
<1>5. TreeTypes'
  BY <1>1, <1>2, <1>4 DEF TaskTreeOK, TreeTypes
<1>6. SeqsOK' /\ ReadsOK'
  BY <1>1, <1>4, RestIsOK DEF TaskTreeOK, SeqsOK
<1>7. Coming' = Coming
  BY <1>1, <1>2, HeadAndRest DEF T!Receives, TaskTreeOK
<1>8. \A ask : Failed(ask) => Failed(ask)' \/ ask = m.of
  BY <1>2 DEF Failed
<1>9. \A ask : Waits(ask) => Waits(ask)' \/ ask = m.of
  BY <1>1, <1>8 DEF Waits
<1>10. TreeAsk.is = "tree" /\ \A u : T!Asks(u, "event").by = "event"
  BY DEF TreeAsk, T!Asks
<1> HIDE DEF m
<1>11. \A j \in 1..Len(wire) : wire[j].is = "tree" => \E i \in 1..Len(wire') : wire'[i] = wire[j]
  BY <1>2 DEF m
<1>12. reading' = "tree" => reading = "tree" /\ (TreeAsked => TreeAsked')
  BY <1>4, <1>9, <1>10, <1>11 DEF TreeAsked
<1>13. \A u \in Tasks : DetailComes(u, told[u]) => DetailComes(u, told[u])'
  BY <1>2 DEF DetailComes, m
<1>14. ~missed' => \A u \in Tasks : (Asked(u) => Asked(u)') /\ (TreeComes(u) => TreeComes(u)')
  BY <1>2, <1>4, <1>9, <1>10, <1>11 DEF Asked, TreeComes
<1> QED BY <1>2, <1>4, <1>5, <1>6, <1>7, <1>12, <1>13, <1>14, FailStep

\* What is left of a sequence.
LEMMA Removed ==
  ASSUME NEW S, NEW s \in Seq(S), NEW i \in 1..Len(s)
  PROVE  /\ T!RemoveAt(s, i) \in Seq(S) /\ Len(T!RemoveAt(s, i)) = Len(s) - 1 /\ Len(s) \in Nat
         /\ \A j \in 1..(Len(s) - 1) : T!RemoveAt(s, i)[j] = IF j < i THEN s[j] ELSE s[j + 1]
<1> DEFINE before == SubSeq(s, 1, i - 1)
           after  == SubSeq(s, i + 1, Len(s))
<1>1. Len(s) \in Nat
  BY LenProperties
<1>2. before \in Seq(S) /\ Len(before) = i - 1 /\ \A j \in 1..(i - 1) : before[j] = s[j]
  BY <1>1, SubSeqProperties
<1>3. after \in Seq(S) /\ Len(after) = Len(s) - i /\ \A j \in 1..(Len(s) - i) : after[j] = s[i + j]
  BY <1>1, SubSeqProperties
<1>4. T!RemoveAt(s, i) = before \o after
  BY DEF T!RemoveAt
<1> HIDE DEF before, after
<1>5. /\ before \o after \in Seq(S) /\ Len(before \o after) = Len(s) - 1
      /\ \A j \in 1..(Len(s) - 1) : (before \o after)[j] = IF j < i THEN before[j] ELSE after[j - (i - 1)]
  <2>1. Len(before) + Len(after) = Len(s) - 1
    BY <1>1, <1>2, <1>3
  <2>2. /\ before \o after \in Seq(S) /\ Len(before \o after) = Len(s) - 1
        /\ \A j \in 1..(Len(s) - 1) : (before \o after)[j] = IF j <= i - 1 THEN before[j] ELSE after[j - (i - 1)]
    <3>1. before \in Seq(S) /\ after \in Seq(S) /\ Len(before) = i - 1
      BY <1>2, <1>3
    <3>2. /\ before \o after \in Seq(S) /\ Len(before \o after) = Len(before) + Len(after)
          /\ \A j \in 1..(Len(before) + Len(after)) :
               (before \o after)[j] = IF j <= Len(before) THEN before[j] ELSE after[j - Len(before)]
      BY <3>1, ConcatProperties, Zenon
    <3>3. before \o after \in Seq(S) /\ Len(before \o after) = Len(s) - 1
      BY <2>1, <3>2
    <3>4. \A j \in 1..(Len(s) - 1) :
            (before \o after)[j] = IF j <= i - 1 THEN before[j] ELSE after[j - (i - 1)]
      BY <2>1, <3>1, <3>2, Zenon
    <3> QED BY <3>3, <3>4
  <2>3. \A j \in 1..(Len(s) - 1) : j < i <=> j <= i - 1
    BY <1>1
  <2> QED BY <2>2, <2>3
<1>6. ASSUME NEW j \in 1..(Len(s) - 1), ~(j < i) PROVE after[j - (i - 1)] = s[j + 1]
  <2>1. j - (i - 1) \in 1..(Len(s) - i) /\ i + (j - (i - 1)) = j + 1
    BY <1>1, <1>6
  <2> QED BY <1>3, <2>1
<1>7. ASSUME NEW j \in 1..(Len(s) - 1) PROVE (before \o after)[j] = IF j < i THEN s[j] ELSE s[j + 1]
  <2>1. CASE j < i
    <3>1. j \in 1..(i - 1)
      BY <1>1, <2>1
    <3> QED BY <1>2, <1>5, <2>1, <3>1
  <2>2. CASE ~(j < i)
    BY <1>5, <1>6, <2>2
  <2> QED BY <2>1, <2>2
<1> QED BY <1>1, <1>4, <1>5, <1>7

\* A request times out.
LEMMA AskTimesOutStep ==
  ASSUME TaskTreeOK, T!AskTimesOut
  PROVE  TaskTreeOK'
<1>1. PICK i \in 1..Len(asks) :
        /\ asks[i].is # "late" /\ T!Fails(asks[i])
        /\ asks' = IF asks[i].is = "tree" THEN T!ReplaceAt(asks, i, LateAsk) ELSE T!RemoveAt(asks, i)
        /\ UNCHANGED <<events, root, results, pending, since, wire, told>>
  BY DEF T!AskTimesOut, LateAsk
<1>2. asks \in Seq(Requests) /\ Len(asks) \in Nat /\ asks[i] \in Requests
  BY ElementOfSeq, LenProperties DEF TaskTreeOK, TreeTypes
<1>3. asks' \in Seq(Requests) /\ \A j \in 1..Len(asks) : asks[j] \in T!ToSet(asks') \/ j = i
  <2>1. CASE asks' = T!ReplaceAt(asks, i, LateAsk)
    <3>1. asks' = [asks EXCEPT ![i] = LateAsk] /\ LateAsk \in Requests
      BY <2>1 DEF T!ReplaceAt, Requests
    <3>2. asks' \in Seq(Requests) /\ Len(asks') = Len(asks) /\ \A j \in 1..Len(asks) : j # i => asks'[j] = asks[j]
      BY <1>2, <3>1, ExceptSeq
    <3> QED BY <3>2 DEF T!ToSet
  <2>2. CASE asks' = T!RemoveAt(asks, i)
    <3>1. /\ asks' \in Seq(Requests) /\ Len(asks') = Len(asks) - 1
          /\ \A j \in 1..(Len(asks) - 1) : asks'[j] = IF j < i THEN asks[j] ELSE asks[j + 1]
      BY <1>2, <2>2, Removed
    <3>2. ASSUME NEW j \in 1..Len(asks), j # i PROVE \E k \in 1..Len(asks') : asks'[k] = asks[j]
      <4>1. CASE j < i
        BY <1>2, <3>1, <4>1
      <4>2. CASE j > i
        <5>1. j - 1 \in 1..(Len(asks) - 1) /\ ~(j - 1 < i) /\ (j - 1) + 1 = j
          BY <1>2, <4>2
        <5> QED BY <3>1, <5>1
      <4> QED BY <1>2, <3>2, <4>1, <4>2
    <3> QED BY <3>1, <3>2 DEF T!ToSet
  <2> QED BY <1>1, <2>1, <2>2
<1>4. \A ask : ask \in T!ToSet(asks) => ask \in T!ToSet(asks') \/ ask = asks[i]
  BY <1>3 DEF T!ToSet
<1>5. PICK gone : gone = asks[i] /\ T!Fails(gone)
  BY <1>1
<1>6. /\ tree' = tree /\ details' = details /\ (missed => missed') /\ reading' \in {"no", reading}
      /\ gone.is = "tree" => missed' /\ reading' = "no"
      /\ gone.by = "event" => missed'
  BY <1>5, FailsSaysSo DEF TaskTreeOK
<1>7. TreeTypes'
  BY <1>1, <1>3, <1>6 DEF TaskTreeOK, TreeTypes
<1>8. (\A k : Behind(k)' = Behind(k)) /\ Coming' = Coming
  BY <1>1 DEF Behind, Coming
<1>9. \A u, k : LastComing(u, k)' <=> LastComing(u, k)
  BY <1>1, <1>8 DEF LastComing
<1>10. SeqsOK'
  BY <1>1, <1>6, <1>8 DEF TaskTreeOK, SeqsOK
<1>11. ReadsOK'
  BY <1>1, <1>6, <1>8, <1>9 DEF TaskTreeOK, ReadsOK
<1>12. \A ask : Waits(ask) => Waits(ask)' \/ ask = gone
  BY <1>1, <1>4, <1>5 DEF Waits, Failed
<1>13. TreeAsk.is = "tree" /\ \A u : T!Asks(u, "event").by = "event"
  BY DEF TreeAsk, T!Asks
<1>14. reading' = "tree" => reading = "tree" /\ (TreeAsked => TreeAsked')
  BY <1>1, <1>6, <1>12, <1>13 DEF TreeAsked
<1>15. \A u \in Tasks : /\ \A n : DetailComes(u, n) => DetailComes(u, n)'
                        /\ DetailComes(u, told[u]) => DetailComes(u, told[u])'
  BY <1>1 DEF DetailComes
<1>16. ~missed' => \A u \in Tasks : (Asked(u) => Asked(u)') /\ (TreeComes(u) => TreeComes(u)')
  BY <1>1, <1>6, <1>12, <1>13 DEF Asked, TreeComes
<1> QED BY <1>1, <1>6, <1>7, <1>8, <1>9, <1>10, <1>11, <1>14, <1>15, <1>16, FailStep

\* Where message j was before message i was removed.
From(i, j) == IF j < i THEN j ELSE j + 1

\* An answer is removed from the wire: the order of the rest stays.
LEMMA Lost ==
  ASSUME TreeTypes, NEW i \in 1..Len(wire), wire' = T!RemoveAt(wire, i), wire[i].is # "event",
         pending' = pending, told' = told
  PROVE  /\ wire' \in Seq(Messages)
         /\ \A j \in 1..Len(wire') :
              /\ From(i, j) \in 1..Len(wire) /\ wire'[j] = wire[From(i, j)]
              /\ \A h \in 1..(j - 1) : From(i, h) \in 1..(From(i, j) - 1) /\ wire'[h] = wire[From(i, h)]
              /\ \A u \in Tasks : LastComing(u, From(i, j) + 1) => LastComing(u, j + 1)'
         /\ \A k \in 1..Len(wire) : k = i \/ \E j \in 1..Len(wire') : wire'[j] = wire[k]
         /\ Coming' = Coming /\ \A u \in Tasks : LastComing(u, 1) => LastComing(u, 1)'
<1>1. wire \in Seq(Messages)
  BY DEF TreeTypes
<1>2. /\ wire' \in Seq(Messages) /\ Len(wire') = Len(wire) - 1 /\ Len(wire) \in Nat
      /\ \A j \in 1..Len(wire') : wire'[j] = IF j < i THEN wire[j] ELSE wire[j + 1]
  BY <1>1, Removed
<1>3. \A j \in 1..Len(wire') : From(i, j) \in 1..Len(wire) /\ wire'[j] = wire[From(i, j)]
  BY <1>2 DEF From
<1>4. ASSUME NEW j \in 1..Len(wire'), NEW h \in 1..(j - 1)
      PROVE  From(i, h) \in 1..(From(i, j) - 1) /\ wire'[h] = wire[From(i, h)]
  <2>1. h \in 1..Len(wire')
    BY <1>2, <1>4
  <2>2. From(i, h) \in 1..(From(i, j) - 1)
    BY <1>2, <1>4 DEF From
  <2> QED BY <1>3, <2>1, <2>2
\* Where message k is now.
<1> DEFINE now(k) == IF k < i THEN k ELSE k - 1
<1>5. ASSUME NEW k \in 1..Len(wire), k # i
      PROVE  /\ now(k) \in 1..Len(wire') /\ wire'[now(k)] = wire[k]
             /\ \A j \in 0..Len(wire') : From(i, j) < k => j < now(k)
  <2>1. CASE k < i
    BY <1>2, <1>5, <2>1 DEF From
  <2>2. CASE ~(k < i)
    <3>1. k > i /\ k - 1 \in 1..Len(wire') /\ ~(k - 1 < i) /\ (k - 1) + 1 = k
      BY <1>2, <1>5, <2>2
    <3>2. wire'[k - 1] = wire[k]
      BY <1>2, <3>1
    <3>3. \A j \in 0..Len(wire') : From(i, j) < k => j < k - 1
      BY <1>2, <3>1 DEF From
    <3> QED BY <2>2, <3>1, <3>2, <3>3
  <2> QED BY <2>1, <2>2
<1> HIDE DEF now
<1>6. ASSUME NEW j \in 1..Len(wire'), NEW e, e \in Behind(From(i, j) + 1)
      PROVE  e \in Behind(j + 1)'
  <2>1. From(i, j) + 1 \in Nat /\ j + 1 \in Nat
    BY <1>2, <1>3
  <2>2. e \in Behind(j + 1)' <=>
          \/ \E p \in pending' : e = News(p)
          \/ \E h \in (j + 1)..Len(wire') : wire'[h].is = "event" /\ e = News(wire'[h])
    BY DEF Behind
  <2>3. CASE \E p \in pending : e = News(p)
    BY <2>2, <2>3
  <2>4. CASE \E k \in (From(i, j) + 1)..Len(wire) : wire[k].is = "event" /\ e = News(wire[k])
    <3>1. PICK k \in (From(i, j) + 1)..Len(wire) : wire[k].is = "event" /\ e = News(wire[k])
      BY <2>4
    <3>2. k \in 1..Len(wire) /\ k # i /\ From(i, j) < k
      BY <1>2, <1>3, <3>1
    <3>3. now(k) \in 1..Len(wire') /\ wire'[now(k)] = wire[k] /\ j < now(k)
      BY <1>2, <1>5, <3>2
    <3>4. now(k) \in (j + 1)..Len(wire')
      BY <1>2, <3>3
    <3> QED BY <2>2, <3>1, <3>3, <3>4
  <2> QED BY <1>6, <2>1, <2>3, <2>4, BehindIs
<1>7. ASSUME NEW j \in 1..Len(wire'), NEW u \in Tasks, LastComing(u, From(i, j) + 1)
      PROVE  LastComing(u, j + 1)'
  BY <1>6, <1>7 DEF LastComing
<1>8. Coming' = Coming
  <2>1. \A e : e \in Coming' <=>
          \/ \E p \in pending' : e = News(p)
          \/ \E j \in 1..Len(wire') : wire'[j].is = "event" /\ e = News(wire'[j])
    BY DEF Behind, Coming
  <2>2. \A e : e \in Coming <=>
          \/ \E p \in pending : e = News(p)
          \/ \E j \in 1..Len(wire) : wire[j].is = "event" /\ e = News(wire[j])
    BY BehindIs DEF Coming
  <2>3. \A e : e \in Coming' => e \in Coming
    BY <1>3, <2>1, <2>2
  <2>4. \A e : e \in Coming => e \in Coming'
    BY <1>5, <2>1, <2>2
  <2> QED BY <2>3, <2>4
<1>9. \A u \in Tasks : LastComing(u, 1) => LastComing(u, 1)'
  BY <1>8 DEF LastComing, Coming
<1> QED BY <1>2, <1>3, <1>4, <1>5, <1>7, <1>8, <1>9

\* What the rest says stays true.
LEMMA LostReads ==
  ASSUME TaskTreeOK, NEW i \in 1..Len(wire), wire' = T!RemoveAt(wire, i), wire[i].is # "event",
         UNCHANGED <<events, root, pending, told, tree, details>>
  PROVE  SeqsOK' /\ ReadsOK'
<1>1. /\ Coming' = Coming /\ TreeTypes /\ SeqsOK /\ ReadsOK
      /\ \A j \in 1..Len(wire') :
           /\ From(i, j) \in 1..Len(wire) /\ wire'[j] = wire[From(i, j)]
           /\ \A h \in 1..(j - 1) : From(i, h) \in 1..(From(i, j) - 1) /\ wire'[h] = wire[From(i, h)]
           /\ \A u \in Tasks : LastComing(u, From(i, j) + 1) => LastComing(u, j + 1)'
  BY Lost DEF TaskTreeOK
<1>2. SeqsOK'
  BY <1>1 DEF SeqsOK
<1>3. ASSUME NEW j \in 1..Len(wire'), wire'[j].is = "tree"
      PROVE  /\ \A e \in Coming' : e.seq <= wire'[j].seq => e.n <= wire'[j].tasks[e.task]
             /\ \A h \in 1..(j - 1) : wire'[h].is = "event" => wire'[h].seq <= wire'[j].seq
             /\ \A t \in Tasks : wire'[j].tasks[t] < told'[t] => LastComing(t, j + 1)'
  <2>1. PICK k \in 1..Len(wire) : k = From(i, j)
    BY <1>1
  <2>2. wire'[j] = wire[k] /\ wire[k].is = "tree"
    BY <1>1, <1>3, <2>1
  <2>3. /\ \A e \in Coming : e.seq <= wire[k].seq => e.n <= wire[k].tasks[e.task]
        /\ \A h \in 1..(k - 1) : wire[h].is = "event" => wire[h].seq <= wire[k].seq
        /\ \A t \in Tasks : wire[k].tasks[t] < told[t] => LastComing(t, k + 1)
    BY <1>1, <2>2 DEF ReadsOK
  <2> QED BY <1>1, <2>1, <2>2, <2>3
<1>4. ASSUME NEW j \in 1..Len(wire'), wire'[j].is = "detail"
      PROVE  /\ \A e \in Coming' : e.task = wire'[j].task /\ e.n > wire'[j].n =>
                  /\ e.seq > tree'.seq
                  /\ \A h \in 1..(j - 1) : wire'[h].is \in {"event", "tree"} => e.seq > wire'[h].seq
             /\ wire'[j].n < told'[wire'[j].task] => LastComing(wire[j].task, j + 1)'
  <2>1. PICK k \in 1..Len(wire) : k = From(i, j)
    BY <1>1
  <2>2. wire'[j] = wire[k] /\ wire[k].is = "detail"
    BY <1>1, <1>4, <2>1
  <2>3. wire[k] \in Messages
    BY <1>1, ElementOfSeq DEF TreeTypes
  <2>4. PICK u \in Tasks : u = wire[k].task /\ u = wire'[j].task
    BY <2>2, <2>3, MessageIs
  <2>5. /\ \A e \in Coming : e.task = u /\ e.n > wire[k].n =>
                  /\ e.seq > tree.seq
                  /\ \A h \in 1..(k - 1) : wire[h].is \in {"event", "tree"} => e.seq > wire[h].seq
        /\ wire[k].n < told[u] => LastComing(u, k + 1)
    BY <1>1, <2>2, <2>4 DEF ReadsOK
  <2>6. wire'[j].n < told[u] => LastComing(u, j + 1)'
    BY <1>1, <2>1, <2>2, <2>5
  <2>7. \A e \in Coming' : e.task = u /\ e.n > wire'[j].n =>
                  /\ e.seq > tree'.seq
                  /\ \A h \in 1..(j - 1) : wire'[h].is \in {"event", "tree"} => e.seq > wire'[h].seq
    BY <1>1, <2>1, <2>2, <2>5
  <2> QED BY <2>4, <2>6, <2>7 DEF LastComing
<1> QED BY <1>2, <1>3, <1>4 DEF ReadsOK

\* So does one whose answer is on its way.
LEMMA AnswerTimesOutStep ==
  ASSUME TaskTreeOK, T!AnswerTimesOut
  PROVE  TaskTreeOK'
<1>1. PICK i \in 1..Len(wire) :
        /\ \/ wire[i].is = "error" /\ T!Fails(wire[i].of)
           \/ wire[i].is \in {"tree", "detail"} /\ T!Fails(wire[i])
           \/ wire[i].is = "task" /\ UNCHANGED T!client
        /\ wire' = T!RemoveAt(wire, i)
        /\ UNCHANGED <<events, root, asks, results, pending, since, told>>
  BY DEF T!AnswerTimesOut
<1>2. PICK gone \in Messages : gone = wire[i]
  BY ElementOfSeq DEF TaskTreeOK, TreeTypes
<1>3. gone.is # "event"
  BY <1>1, <1>2
<1>4. /\ tree' = tree /\ details' = details /\ (missed => missed') /\ reading' \in {"no", reading}
      /\ gone.is = "tree" => missed' /\ reading' = "no"
      /\ gone.is = "detail" /\ gone.by = "event" => missed'
      /\ gone.is = "error" /\ gone.of.is = "tree" => missed' /\ reading' = "no"
      /\ gone.is = "error" /\ gone.of.by = "event" => missed'
  <2>1. CASE gone.is = "error" /\ T!Fails(gone.of)
    BY <2>1, FailsSaysSo DEF TaskTreeOK
  <2>2. CASE gone.is \in {"tree", "detail"} /\ T!Fails(gone)
    BY <2>2, FailsSaysSo DEF TaskTreeOK
  <2>3. CASE gone.is = "task" /\ UNCHANGED T!client
    BY <2>3 DEF T!client
  <2> QED BY <1>1, <1>2, <2>1, <2>2, <2>3
<1>5. /\ wire' \in Seq(Messages) /\ Coming' = Coming
      /\ \A k \in 1..Len(wire) : k = i \/ \E j \in 1..Len(wire') : wire'[j] = wire[k]
      /\ \A u \in Tasks : LastComing(u, 1) => LastComing(u, 1)'
  BY <1>1, <1>2, <1>3, Lost DEF TaskTreeOK
<1>6. SeqsOK' /\ ReadsOK'
  BY <1>1, <1>2, <1>3, <1>4, LostReads
<1>7. TreeTypes'
  BY <1>1, <1>4, <1>5 DEF TaskTreeOK, TreeTypes
<1>8. \A ask : Waits(ask) => Waits(ask)' \/ (gone.is = "error" /\ gone.of = ask)
  BY <1>1, <1>2, <1>5 DEF Waits, Failed
<1>9. TreeAsk.is = "tree" /\ \A u : T!Asks(u, "event").by = "event"
  BY DEF TreeAsk, T!Asks
<1>10. reading' = "tree" => reading = "tree" /\ (TreeAsked => TreeAsked')
  BY <1>2, <1>4, <1>5, <1>8, <1>9 DEF TreeAsked
<1>11. ~missed' => \A u \in Tasks :
         /\ \A n : DetailComes(u, n) => DetailComes(u, n)'
         /\ DetailComes(u, told[u]) => DetailComes(u, told[u])'
  BY <1>1, <1>2, <1>4, <1>5 DEF DetailComes
<1>12. ~missed' => \A u \in Tasks : (Asked(u) => Asked(u)') /\ (TreeComes(u) => TreeComes(u)')
  BY <1>1, <1>2, <1>4, <1>5, <1>8, <1>9 DEF Asked, TreeComes
<1> QED BY <1>1, <1>4, <1>5, <1>6, <1>7, <1>10, <1>11, <1>12, FailStep

\* No step of the client, the Server or another Server breaks it.
LEMMA TaskTreeStep == TaskTreeOK /\ T!Next => TaskTreeOK'
BY ChangeStep, ElsewhereStep, ServerStep, NextEventStep, OldEventStep, GapEventStep,
   ReceiveTreeStep, ReceiveDetailStep, ReceiveTaskStep, ReceiveErrorStep, AskTimesOutStep, AnswerTimesOutStep
   DEF T!Next

\* What a client shows that waits for nothing.
LEMMA TaskTreeShows == TaskTreeOK => T!ShowsWhatItWasTold
<1> SUFFICES ASSUME TaskTreeOK, T!Quiet, ~missed, NEW t \in Tasks
             PROVE  /\ tree.tasks[t] >= told[t]
                    /\ details[t] # T!NoDetail => details[t].all >= told[t]
  BY DEF T!ShowsWhatItWasTold, T!Informed
<1>1. Len(wire) = 0 /\ pending = {} /\ T!ToSet(asks) = {}
  BY DEF T!Quiet, T!ToSet
<1>2. Behind(1) = {}
  BY <1>1, BehindIs
<1>3. ~LastComing(t, 1) /\ ~TreeComes(t) /\ ~Asked(t)
  BY <1>1, <1>2 DEF LastComing, TreeComes, Asked, Waits, Failed
<1> QED BY <1>1, <1>3 DEF TaskTreeOK, InformedOK, DetailComes

\* Nor does a step of another component.
LEMMA TaskTreeStays == TaskTreeOK /\ UNCHANGED treeVars => TaskTreeOK'
<1> SUFFICES ASSUME TaskTreeOK, UNCHANGED treeVars PROVE TaskTreeOK'
  OBVIOUS
<1> QED BY AskStep DEF treeVars, T!client, TaskTreeOK, TreeTypes

\* What m tells has happened.
Happened(m) ==
  /\ m.is \in {"event", "tree"} => m.seq <= root
  /\ m.is \in {"event", "task", "detail"} => m.n <= events[m.task]
  /\ m.is = "tree" => \A t \in Tasks : m.tasks[t] <= events[t]

\* A snapshot or a detail that was answered after m was sent holds what m tells.
Holds(later, m) ==
  /\ later.is = "tree" =>
       /\ m.is \in {"event", "tree"} => m.seq <= later.seq
       /\ m.is \in {"event", "task"} => m.n <= later.tasks[m.task]
       /\ m.is = "tree" => \A t \in Tasks : m.tasks[t] <= later.tasks[t]
  /\ later.is = "detail" /\ m.is \in {"event", "detail"} /\ m.task = later.task => m.n <= later.n

\* It holds what the client has.
HoldsShown(later) ==
  /\ later.is = "tree" => tree.seq <= later.seq /\ \A t \in Tasks : tree.tasks[t] <= later.tasks[t]
  /\ later.is = "detail" => details[later.task].all <= later.n

\* All that the client has and that is on its way to it is as old as its place says.
TreeInOrder ==
  /\ \A t \in Tasks : tree.tasks[t] <= events[t] /\ details[t].all <= events[t]
  /\ \A m \in results : m.n <= events[m.task]
  /\ \A j \in 1..Len(wire) :
       /\ Happened(wire[j]) /\ HoldsShown(wire[j])
       /\ \A i \in 1..(j - 1) : Holds(wire[j], wire[i])

\* Nothing is lost when more happens.
LEMMA MoreHappened ==
  ASSUME TreeTypes, TreeTypes', TreeInOrder, root <= root', \A t \in Tasks : events[t] <= events'[t],
         UNCHANGED <<wire, tree, details>>, \A m \in results' : m.n <= events'[m.task]
  PROVE  TreeInOrder'
<1>1. \A t \in Tasks : tree'.tasks[t] <= events'[t] /\ details'[t].all <= events'[t]
  BY DEF TreeInOrder, TreeTypes
<1>2. ASSUME NEW j \in 1..Len(wire) PROVE Happened(wire[j])' /\ HoldsShown(wire[j])'
  <2>1. wire[j] \in Messages /\ Happened(wire[j]) /\ HoldsShown(wire[j])
    BY ElementOfSeq DEF TreeTypes, TreeInOrder
  <2>2. PICK m \in Messages : m = wire[j] /\ m = wire'[j] /\ Happened(m)
    BY <2>1
  <2>3. m.is \in {"event", "tree"} => m.seq <= root'
    <3>1. root \in Nat /\ root' \in Nat
      BY DEF TreeTypes
    <3> QED BY <2>2, <3>1, MessageIs DEF Happened
  <2>4. m.is \in {"event", "task", "detail"} => m.n <= events'[m.task]
    <3>1. \A t \in Tasks : events[t] \in Nat /\ events'[t] \in Nat
      BY DEF TreeTypes
    <3> QED BY <2>2, <3>1, MessageIs DEF Happened
  <2>5. m.is = "tree" => \A t \in Tasks : m.tasks[t] <= events'[t]
    <3>1. \A t \in Tasks : events[t] \in Nat /\ events'[t] \in Nat
      BY DEF TreeTypes
    <3> QED BY <2>2, <3>1, MessageIs DEF Happened
  <2>6. Happened(wire[j])'
    BY <2>2, <2>3, <2>4, <2>5 DEF Happened
  <2> QED BY <2>1, <2>6 DEF HoldsShown
<1> QED BY <1>1, <1>2 DEF TreeInOrder, Holds

\* A message is sent that tells what has happened, and if it is an answer, all that
\* has happened.
LEMMA SentInOrder ==
  ASSUME TreeTypes, SeqsOK, TreeInOrder, NEW m \in Messages, T!Sends(m), Happened(m),
         m.is = "tree" => m.seq = root /\ m.tasks = events,
         m.is = "detail" => m.n = events[m.task],
         UNCHANGED <<events, root, tree, details>>, results' \subseteq results
  PROVE  TreeInOrder'
<1>1. \A i \in 1..Len(wire) : wire[i] \in Messages /\ Happened(wire[i])
  BY ElementOfSeq DEF TreeTypes, TreeInOrder
<1>2. \A i \in 1..Len(wire) : Holds(m, wire[i])
  BY <1>1, MessageIs DEF Holds, Happened
<1>3. HoldsShown(m)
  BY MessageIs DEF HoldsShown, TreeInOrder, SeqsOK
<1>4. \A j \in 1..Len(wire') : Happened(wire'[j]) /\ HoldsShown(wire'[j]) /\ \A i \in 1..(j - 1) : Holds(wire'[j], wire'[i])
  <2>1. TAKE j \in 1..Len(wire')
  <2>2. CASE j \in 1..Len(wire)
    <3>1. wire'[j] = wire[j] /\ \A i \in 1..(j - 1) : wire'[i] = wire[i]
      BY <2>2, Sent
    <3> QED BY <2>2, <3>1 DEF TreeInOrder
  <2>3. CASE j = Len(wire) + 1
    <3>1. wire'[j] = m /\ \A i \in 1..(j - 1) : wire'[i] = wire[i] /\ i \in 1..Len(wire)
      BY <2>3, Sent
    <3> QED BY <1>2, <1>3, <3>1
  <2> QED BY <2>1, <2>2, <2>3, Sent
<1> QED BY <1>4 DEF TreeInOrder, Happened, HoldsShown, Holds

\* A message is received: what follows it holds what the client has of it.
LEMMA TakenInOrder ==
  ASSUME TreeTypes, TreeInOrder, wire # <<>>, wire' = Tail(wire), UNCHANGED <<events, results, root>>,
         \A t \in Tasks : tree'.tasks[t] <= events[t] /\ details'[t].all <= events[t],
         \A m \in Messages : HoldsShown(m) /\ Holds(m, wire[1]) => HoldsShown(m)'
  PROVE  TreeInOrder'
<1>1. \A j \in 1..Len(wire') :
        /\ wire'[j] = wire[j + 1] /\ j + 1 \in 1..Len(wire) /\ wire[j + 1] \in Messages
        /\ 1 \in 1..(j + 1 - 1) /\ \A i \in 1..(j - 1) : wire'[i] = wire[i + 1] /\ i + 1 \in 1..(j + 1 - 1)
  BY Taken, ElementOfSeq DEF TreeTypes
<1>2. ASSUME NEW j \in 1..Len(wire')
      PROVE  (Happened(wire[j]) /\ HoldsShown(wire[j]))' /\ \A i \in 1..(j - 1) : Holds(wire[j], wire[i])'
  <2>1. PICK m \in Messages : m = wire[j + 1]
    BY <1>1
  <2>2. Happened(m) /\ HoldsShown(m) /\ \A i \in 1..(j + 1 - 1) : Holds(m, wire[i])
    BY <1>1, <2>1 DEF TreeInOrder
  <2>3. HoldsShown(m)' /\ Happened(m)'
    BY <1>1, <2>2 DEF Happened
  <2>4. wire'[j] = m /\ \A i \in 1..(j - 1) : Holds(m, wire'[i])
    BY <1>1, <2>1, <2>2
  <2> QED BY <2>3, <2>4 DEF Happened, HoldsShown, Holds
<1>3. \A t \in Tasks : tree'.tasks[t] <= events'[t] /\ details'[t].all <= events'[t]
  OBVIOUS
<1> QED BY <1>2, <1>3 DEF TreeInOrder

\* Neither the tree nor a detail that stays loses anything.
ShownGrows ==
  /\ tree'.seq >= tree.seq
  /\ \A t \in Tasks : /\ tree'.tasks[t] >= tree.tasks[t]
                      /\ details'[t] # T!NoDetail => details'[t].all >= details[t].all

\* The steps of the Server.
LEMMA ServerInOrder ==
  ASSUME TaskTreeOK, TaskTreeOK', TreeInOrder,
         \/ \E t \in Tasks : T!Change(t) \/ T!ChangeElsewhere(t) \/ T!StopOrSteer(t) \/ T!Read(t)
         \/ \E e \in pending : T!Notify(e)
         \/ T!Answer \/ T!Refuse \/ T!Late \/ \E message \in results : T!Result(message)
  PROVE  TreeInOrder' /\ ShownGrows
<1> USE DEF T!client
<1>0. TreeTypes /\ TreeTypes' /\ SeqsOK
  BY DEF TaskTreeOK
<1>1. UNCHANGED <<tree, details>> => ShownGrows
  <2>1. tree.seq \in Nat /\ \A t \in Tasks : tree.tasks[t] \in Nat /\ details[t].all \in Nat
    BY <1>0 DEF TreeTypes
  <2> QED BY <2>1 DEF ShownGrows
<1>2. ASSUME NEW t \in Tasks, T!Change(t) \/ T!ChangeElsewhere(t) PROVE TreeInOrder' /\ ShownGrows
  <2>1. /\ root' = root + 1 /\ events' = [events EXCEPT ![t] = @ + 1]
        /\ UNCHANGED <<wire, tree, details, results>>
    BY <1>2 DEF T!Change, T!ChangeElsewhere
  <2>2. root <= root' /\ \A u \in Tasks : events[u] \in Nat /\ events'[u] \in Nat /\ events[u] <= events'[u]
    <3>1. root \in Nat /\ events \in [Tasks -> Nat]
      BY <1>0 DEF TreeTypes
    <3> QED BY <2>1, <3>1
  <2>3. \A m \in results' : m.n <= events'[m.task]
    <3>1. \A m \in results : m.n \in Nat /\ m.task \in Tasks /\ m.n <= events[m.task]
      BY <1>0 DEF TreeTypes, TreeInOrder
    <3> QED BY <2>1, <2>2, <3>1
  <2> QED BY <1>0, <1>1, <2>1, <2>2, <2>3, MoreHappened
<1>3. ASSUME NEW t \in Tasks, T!StopOrSteer(t) PROVE TreeInOrder' /\ ShownGrows
  <2>1. /\ results' = results \cup {[is |-> "task", task |-> t, n |-> events[t]]}
        /\ UNCHANGED <<events, root, wire, tree, details>>
    BY <1>3 DEF T!StopOrSteer
  <2>2. \A m \in results' : m.n <= events[m.task]
    BY <1>0, <2>1 DEF TreeTypes, TreeInOrder
  <2> QED BY <1>1, <2>1, <2>2 DEF TreeInOrder, Happened, HoldsShown, Holds
<1>4. ASSUME NEW t \in Tasks, T!Read(t) PROVE TreeInOrder' /\ ShownGrows
  <2>1. UNCHANGED <<events, root, results, wire, tree, details>>
    BY <1>4 DEF T!Read
  <2> QED BY <1>1, <2>1 DEF TreeInOrder, Happened, HoldsShown, Holds
<1>5. ASSUME NEW e \in pending, T!Notify(e) PROVE TreeInOrder' /\ ShownGrows
  <2>1. PICK m : m = [is |-> "event", seq |-> e.seq, task |-> e.task, n |-> e.n]
    OBVIOUS
  <2>2. e \in Events /\ m \in Messages
    BY <1>0, <2>1 DEF TreeTypes, Events, Messages
  <2>3. e.seq <= root /\ e.n <= events[e.task]
    <3>1. News(e) \in Coming
      BY BehindIs DEF Coming
    <3> QED BY <1>0, <3>1, NewsIs DEF SeqsOK
  <2>4. Happened(m) /\ m.is = "event"
    BY <2>1, <2>3 DEF Happened
  <2>5. T!Sends(m) /\ UNCHANGED <<events, root, results, tree, details>>
    BY <1>5, <2>1 DEF T!Notify
  <2> QED BY <1>0, <1>1, <2>2, <2>4, <2>5, SentInOrder
<1>6. ASSUME NEW m \in results, T!Result(m) PROVE TreeInOrder' /\ ShownGrows
  <2>1. m \in [is : {"task"}, task : Tasks, n : Nat]
    BY <1>0 DEF TreeTypes
  <2>2. m \in Messages /\ m.is = "task"
    BY <2>1 DEF Messages
  <2>3. Happened(m)
    BY <2>1 DEF Happened, TreeInOrder
  <2>4. T!Sends(m) /\ results' \subseteq results /\ UNCHANGED <<events, root, tree, details>>
    BY <1>6 DEF T!Result
  <2> QED BY <1>0, <1>1, <2>2, <2>3, <2>4, SentInOrder
<1>7. CASE T!Answer
  <2>1. asks # <<>> /\ UNCHANGED <<events, root, results, tree, details>>
    BY <1>7 DEF T!Answer
  <2>2. PICK ask : ask = Head(asks)
    OBVIOUS
  <2>3. ask \in {TreeAsk} \cup DetailAsks
    BY <1>0, <1>7, <2>1, <2>2, Dropped DEF Requests, LateAsk, T!Answer
  <2>4. PICK m : m = IF ask.is = "tree" THEN [is |-> "tree", seq |-> root, tasks |-> events]
                     ELSE [is |-> "detail", task |-> ask.task, n |-> events[ask.task], by |-> ask.by]
    OBVIOUS
  <2>5. T!Sends(m)
    BY <1>7, <2>2, <2>4 DEF T!Answer
  <2>6. /\ m \in Messages /\ Happened(m)
        /\ m.is = "tree" => m.seq = root /\ m.tasks = events
        /\ m.is = "detail" => m.n = events[m.task]
    <3>1. CASE ask = TreeAsk
      <4>1. m = [is |-> "tree", seq |-> root, tasks |-> events]
        BY <2>4, <3>1 DEF TreeAsk
      <4>2. root \in Nat /\ events \in [Tasks -> Nat]
        BY <1>0 DEF TreeTypes
      <4> QED BY <4>1, <4>2 DEF Messages, Happened
    <3>2. CASE ask \in DetailAsks
      <4>1. m = [is |-> "detail", task |-> ask.task, n |-> events[ask.task], by |-> ask.by]
        BY <2>4, <3>2 DEF DetailAsks
      <4>2. ask.task \in Tasks /\ ask.by \in {"user", "event", "recovery"} /\ events[ask.task] \in Nat
        BY <1>0, <3>2 DEF DetailAsks, TreeTypes
      <4> QED BY <4>1, <4>2 DEF Messages, Happened
    <3> QED BY <2>3, <3>1, <3>2
  <2> QED BY <1>0, <1>1, <2>1, <2>5, <2>6, SentInOrder
<1>8. CASE T!Refuse
  <2>1. asks # <<>> /\ UNCHANGED <<events, root, results, tree, details>>
        /\ asks' = Tail(asks) /\ Head(asks).is # "late"
    BY <1>8 DEF T!Refuse
  <2>2. PICK m : m = [is |-> "error", of |-> Head(asks)]
    OBVIOUS
  <2>3. Head(asks) \in {TreeAsk} \cup DetailAsks
    BY <1>0, <2>1, Dropped DEF Requests, LateAsk
  <2>4. m \in Messages /\ m.is = "error" /\ Happened(m)
    BY <2>2, <2>3 DEF Messages, Happened
  <2>5. T!Sends(m)
    BY <1>8, <2>2 DEF T!Refuse
  <2> QED BY <1>0, <1>1, <2>1, <2>4, <2>5, SentInOrder
<1>9. CASE T!Late
  <2>1. UNCHANGED <<events, root, results, wire, tree, details>>
    BY <1>9 DEF T!Late
  <2> QED BY <1>1, <2>1 DEF TreeInOrder, Happened, HoldsShown, Holds
<1> QED BY <1>2, <1>3, <1>4, <1>5, <1>6, <1>7, <1>8, <1>9

\* The requests that time out.
LEMMA TimedOutInOrder ==
  ASSUME TaskTreeOK, TreeInOrder, T!AskTimesOut \/ T!AnswerTimesOut
  PROVE  TreeInOrder' /\ ShownGrows
<1>1. UNCHANGED <<events, root, results, pending, told, tree, details>>
  BY DEF T!AskTimesOut, T!AnswerTimesOut, T!Fails, T!client
<1>2. ShownGrows
  BY <1>1 DEF ShownGrows, TaskTreeOK, TreeTypes
<1>3. CASE T!AskTimesOut
  <2>1. wire' = wire
    BY <1>3 DEF T!AskTimesOut
  <2> QED BY <1>1, <1>2, <2>1 DEF TreeInOrder, Happened, HoldsShown, Holds
<1>4. CASE T!AnswerTimesOut
  <2>1. PICK i \in 1..Len(wire) : wire[i].is # "event" /\ wire' = T!RemoveAt(wire, i)
    BY <1>4 DEF T!AnswerTimesOut
  <2>2. \A j \in 1..Len(wire') :
          /\ From(i, j) \in 1..Len(wire) /\ wire'[j] = wire[From(i, j)]
          /\ \A h \in 1..(j - 1) : From(i, h) \in 1..(From(i, j) - 1) /\ wire'[h] = wire[From(i, h)]
    BY <1>1, <2>1, Lost DEF TaskTreeOK
  <2>3. \A j \in 1..Len(wire') : /\ Happened(wire'[j]) /\ HoldsShown(wire'[j])
                                 /\ \A h \in 1..(j - 1) : Holds(wire'[j], wire'[h])
    BY <2>2 DEF TreeInOrder
  <2> QED BY <1>1, <1>2, <2>3 DEF TreeInOrder, Happened, HoldsShown, Holds
<1> QED BY <1>3, <1>4

\* What the client receives.
LEMMA ReceivedInOrder ==
  ASSUME TaskTreeOK, TaskTreeOK', TreeInOrder,
         \/ T!NextEvent \/ T!OldEvent \/ T!GapEvent
         \/ T!ReceiveTree \/ T!ReceiveDetail \/ T!ReceiveTask \/ T!ReceiveError
  PROVE  TreeInOrder' /\ ShownGrows
<1> USE DEF T!client
<1>0. TreeTypes /\ TreeTypes'
  BY DEF TaskTreeOK
<1>1. PICK is : T!Receives(is)
  BY DEF T!NextEvent, T!OldEvent, T!GapEvent, T!ReceiveTree, T!ReceiveDetail, T!ReceiveTask,
     T!ReceiveError
<1>2. PICK m \in Messages : m = wire[1]
  BY <1>1, Rest
<1>3. /\ m = Head(wire) /\ m.is = is /\ wire # <<>> /\ wire' = Tail(wire) /\ UNCHANGED <<events, results, root>>
  BY <1>1, <1>2, Rest DEF T!Receives
<1>4. Happened(m) /\ HoldsShown(m)
  BY <1>1, <1>2, Rest DEF TreeInOrder
<1>5. \A t \in Tasks : /\ tree.tasks[t] \in Nat /\ events[t] \in Nat /\ tree.tasks[t] <= events[t]
                       /\ details[t].all \in Nat /\ details[t].all <= events[t]
  BY <1>0 DEF TreeTypes, TreeInOrder
<1>6. SUFFICES /\ \A t \in Tasks : tree'.tasks[t] <= events[t] /\ details'[t].all <= events[t]
               /\ \A later \in Messages : HoldsShown(later) /\ Holds(later, m) => HoldsShown(later)'
               /\ ShownGrows
  BY <1>0, <1>2, <1>3, TakenInOrder
<1>7. CASE UNCHANGED <<tree, details>>
  BY <1>0, <1>5, <1>7 DEF HoldsShown, ShownGrows, TreeTypes
<1>8. \A u \in [Tasks -> Nat] :
        m.is \in {"event", "task"} =>
          /\ T!Upsert(u, m) \in [Tasks -> Nat]
          /\ \A t \in Tasks : /\ T!Upsert(u, m)[t] >= u[t]
                              /\ T!Upsert(u, m)[t] = u[t] \/ (t = m.task /\ T!Upsert(u, m)[t] = m.n)
  <2>1. TAKE u \in [Tasks -> Nat]
  <2>2. HAVE m.is \in {"event", "task"}
  <2>3. m.task \in Tasks /\ m.n \in Nat
    BY <2>2, MessageIs
  <2>4. T!Upsert(u, m) = [u EXCEPT ![m.task] = IF m.n > u[m.task] THEN m.n ELSE u[m.task]]
    BY DEF T!Upsert
  <2> QED BY <2>3, <2>4
<1>9. tree.tasks \in [Tasks -> Nat] /\ tree.seq \in Nat /\ details \in [Tasks -> [all : Nat, head : Nat]]
  BY <1>0 DEF TreeTypes
<1>10. ASSUME tree'.tasks = T!Upsert(tree.tasks, m), m.is \in {"event", "task"}
       PROVE  /\ \A t \in Tasks : tree'.tasks[t] <= events[t] /\ tree'.tasks[t] >= tree.tasks[t]
              /\ \A later \in Messages : later.is = "tree" /\ HoldsShown(later) /\ Holds(later, m) =>
                   \A t \in Tasks : tree'.tasks[t] <= later.tasks[t]
  <2>1. m.n <= events[m.task]
    BY <1>4, <1>10 DEF Happened
  <2> QED BY <1>5, <1>8, <1>9, <1>10, <2>1 DEF HoldsShown, Holds
<1>11. CASE T!NextEvent
  <2>1. /\ m.is = "event" /\ m.seq \in {tree.seq, tree.seq + 1}
        /\ tree' = [seq |-> m.seq, tasks |-> T!Upsert(tree.tasks, m)]
        /\ \/ details' = details
           \/ m.n = details[m.task].all + 1 /\ details' = [details EXCEPT ![m.task].all = m.n]
    BY <1>3, <1>11 DEF T!NextEvent, T!Receives
  <2>2. m.task \in Tasks /\ m.n \in Nat /\ m.n <= events[m.task]
    BY <1>4, <2>1, MessageIs DEF Happened
  <2>3. \A t \in Tasks : /\ details'[t].all >= details[t].all
                         /\ details'[t].all = details[t].all \/ (t = m.task /\ details'[t].all = m.n)
    <3>1. CASE details' = details
      BY <1>5, <3>1
    <3>2. CASE m.n = details[m.task].all + 1 /\ details' = [details EXCEPT ![m.task].all = m.n]
      <4>1. details'[m.task].all = m.n /\ \A t \in Tasks \ {m.task} : details'[t] = details[t]
        BY <1>9, <2>2, <3>2
      <4> QED BY <1>5, <2>2, <3>2, <4>1
    <3> QED BY <2>1, <3>1, <3>2
  <2>4. ASSUME NEW later \in Messages, HoldsShown(later), Holds(later, m) PROVE HoldsShown(later)'
    <3>1. later.is = "tree" => tree'.seq <= later.seq /\ \A t \in Tasks : tree'.tasks[t] <= later.tasks[t]
      BY <1>10, <2>1, <2>4 DEF Holds
    <3>2. later.is = "detail" => details'[later.task].all <= later.n
      BY <2>1, <2>3, <2>4, MessageIs DEF HoldsShown, Holds
    <3> QED BY <3>1, <3>2 DEF HoldsShown
  <2>5. \A t \in Tasks : details'[t].all <= events[t]
    BY <1>5, <2>2, <2>3
  <2>6. ShownGrows
    BY <1>9, <1>10, <2>1, <2>3 DEF ShownGrows
  <2> QED BY <1>10, <2>1, <2>4, <2>5, <2>6
<1>12. CASE T!OldEvent \/ T!GapEvent \/ T!ReceiveError
  BY <1>7, <1>12 DEF T!OldEvent, T!GapEvent, T!ReceiveError, T!Fails
<1>13. CASE T!ReceiveTree
  <2>1. m.is = "tree" /\ tree' = [seq |-> m.seq, tasks |-> m.tasks]
    BY <1>3, <1>13 DEF T!ReceiveTree, T!Receives
  <2>2. PICK stale \in SUBSET Tasks :
          details' = [t \in Tasks |-> IF t \in stale THEN T!NoDetail ELSE details[t]]
    BY <1>3, <1>13 DEF T!ReceiveTree, T!Outdated
  <2>3. T!NoDetail.all = 0 /\ \A t \in Tasks : details'[t] = T!NoDetail \/ details'[t] = details[t]
    BY <2>2 DEF T!NoDetail
  <2>4. ASSUME NEW later \in Messages, HoldsShown(later), Holds(later, m) PROVE HoldsShown(later)'
    <3>1. later.is = "tree" => tree'.seq <= later.seq /\ \A t \in Tasks : tree'.tasks[t] <= later.tasks[t]
      BY <2>1, <2>4 DEF Holds
    <3>2. later.is = "detail" => details'[later.task].all <= later.n
      BY <2>3, <2>4, MessageIs DEF HoldsShown
    <3> QED BY <3>1, <3>2 DEF HoldsShown
  <2>5. \A t \in Tasks : tree'.tasks[t] <= events[t] /\ details'[t].all <= events[t]
    BY <1>4, <1>5, <2>1, <2>3 DEF Happened
  <2>6. ShownGrows
    <3>1. m.seq >= tree.seq /\ \A t \in Tasks : m.tasks[t] >= tree.tasks[t]
      BY <1>4, <1>5, <1>9, <2>1, MessageIs DEF HoldsShown
    <3> QED BY <1>5, <2>1, <2>3, <3>1 DEF ShownGrows
  <2> QED BY <2>4, <2>5, <2>6
<1>14. CASE T!ReceiveDetail
  <2>1. m.is = "detail" /\ tree' = tree /\ details' = [details EXCEPT ![m.task] = [all |-> m.n, head |-> m.n]]
    BY <1>3, <1>14 DEF T!ReceiveDetail, T!Receives
  <2>2. m.task \in Tasks /\ m.n \in Nat /\ m.n <= events[m.task] /\ details[m.task].all <= m.n
    BY <1>4, <2>1, MessageIs DEF Happened, HoldsShown
  <2>3. \A t \in Tasks : IF t = m.task THEN details'[t].all = m.n ELSE details'[t] = details[t]
    BY <1>9, <2>1, <2>2
  <2>4. ASSUME NEW later \in Messages, HoldsShown(later), Holds(later, m) PROVE HoldsShown(later)'
    BY <2>1, <2>2, <2>3, <2>4, MessageIs DEF HoldsShown, Holds
  <2>5. \A t \in Tasks : details'[t].all <= events[t] /\ details'[t].all >= details[t].all
    BY <1>5, <2>2, <2>3
  <2>6. ShownGrows
    BY <1>5, <1>9, <2>1, <2>5 DEF ShownGrows
  <2> QED BY <1>5, <2>1, <2>4, <2>5, <2>6
<1>15. CASE T!ReceiveTask
  <2>1. m.is = "task" /\ tree' = [tree EXCEPT !.tasks = T!Upsert(@, m)] /\ details' = details
    BY <1>3, <1>15 DEF T!ReceiveTask, T!Receives
  <2>2. tree'.seq = tree.seq /\ tree'.tasks = T!Upsert(tree.tasks, m)
    BY <1>0, <2>1 DEF TreeTypes
  <2>3. ASSUME NEW later \in Messages, HoldsShown(later), Holds(later, m) PROVE HoldsShown(later)'
    BY <1>10, <2>1, <2>2, <2>3 DEF HoldsShown
  <2>4. ShownGrows
    BY <1>5, <1>9, <1>10, <2>1, <2>2 DEF ShownGrows
  <2> QED BY <1>5, <1>10, <2>1, <2>2, <2>3, <2>4
<1> QED BY <1>11, <1>12, <1>13, <1>14, <1>15

\* No step breaks the order, and none takes anything back.
LEMMA OrderStep ==
  ASSUME TaskTreeOK, TreeInOrder, [T!Next]_treeVars
  PROVE  TreeInOrder' /\ ShownGrows
<1>1. TaskTreeOK'
  BY TaskTreeStep, TaskTreeStays
<1>2. CASE UNCHANGED treeVars
  <2>1. UNCHANGED <<events, root, results, wire, tree, details>>
    BY <1>2 DEF treeVars
  <2>2. ShownGrows
    BY <2>1 DEF ShownGrows, TaskTreeOK, TreeTypes
  <2> QED BY <2>1, <2>2 DEF TreeInOrder, Happened, HoldsShown, Holds
<1>3. CASE T!Next
  BY <1>1, <1>3, ServerInOrder, ReceivedInOrder, TimedOutInOrder DEF T!Next
<1> QED BY <1>2, <1>3

\* Nothing has happened.
LEMMA OrderInit == T!Init => TreeInOrder
BY DEF T!Init, TreeInOrder, T!Nothing, T!NoDetail

-----------------------------------------------------------------------------
(***************************************************************************)
(* Every part by itself, and all of them                                   *)
(***************************************************************************)

\* Nobody has the lease or its file.
LEMMA LeaseInit == Init => LeaseOK
<1> SUFFICES ASSUME Init PROVE LeaseOK
  OBVIOUS
<1>1. TypeOK
  BY LockShapes DEF Init, TypeOK, Places
<1>2. \A c \in Callers : at[c] = "idle"
  BY DEF Init
<1> QED
  BY <1>1, <1>2 DEF LeaseOK, OwnsFileUnlessRaced, ReadStaysTrueUnlessRaced, OneReclaims,
     ReadSomebody, Runs

\* Nothing has been put.
LEMMA ArtifactsInit == A!Init => ArtifactsOK
BY ArtifactsAssumption DEF A!Init, ArtifactsOK, A!TypeOK, A!Putting, A!Collecting

\* Nothing has been started.
LEMMA ProcessesInit == P!Init => ProcessesOK
BY ProcessesAssumption DEF P!Init, ProcessesOK, P!TypeOK, Closing, P!Procs, P!Enders, P!Assumption

\* The bounds of the tree's counters hold, too.
LEMMA TreeTypeOK == T!TypeOK /\ TaskTreeOK /\ [T!Next]_treeVars => T!TypeOK'
<1> SUFFICES ASSUME T!TypeOK, TaskTreeOK, [T!Next]_treeVars PROVE T!TypeOK'
  OBVIOUS
<1>1. TaskTreeOK'
  BY TaskTreeStep, TaskTreeStays
<1>2. root' \in 0..MaxChanges
  <2>1. root' = root \/ (root < MaxChanges /\ root' = root + 1)
    BY DEF T!Next, treeVars, T!client, T!Change, T!ChangeElsewhere, T!StopOrSteer, T!Read, T!Notify,
       T!Answer, T!Result, T!NextEvent, T!OldEvent, T!GapEvent, T!ReceiveTree, T!ReceiveDetail, T!ReceiveTask,
       T!Receives, T!Refuse, T!Late, T!ReceiveError, T!AskTimesOut, T!AnswerTimesOut
  <2>2. root \in 0..MaxChanges /\ MaxChanges \in Nat
    BY TreeAssumption DEF T!TypeOK, T!Assumption
  <2> QED BY <2>1, <2>2
<1>3. calls' \in 0..MaxReads
  <2>1. calls' = calls \/ (calls < MaxReads /\ calls' = calls + 1)
    BY DEF T!Next, treeVars, T!client, T!Change, T!ChangeElsewhere, T!StopOrSteer, T!Read, T!Notify,
       T!Answer, T!Result, T!NextEvent, T!OldEvent, T!GapEvent, T!ReceiveTree, T!ReceiveDetail, T!ReceiveTask,
       T!Receives, T!Refuse, T!Late, T!ReceiveError, T!AskTimesOut, T!AnswerTimesOut
  <2>2. calls \in 0..MaxReads /\ MaxReads \in Nat
    BY TreeAssumption DEF T!TypeOK, T!Assumption
  <2> QED BY <2>1, <2>2
<1>4. reread' \subseteq Tasks /\ missed' \in BOOLEAN
  BY DEF T!Next, T!TypeOK, treeVars, T!Change, T!ChangeElsewhere, T!StopOrSteer, T!client, T!Outdated,
     T!Read, T!Notify, T!Answer, T!Result, T!NextEvent, T!OldEvent, T!GapEvent, T!ReceiveTree, T!ReceiveDetail,
     T!ReceiveTask, T!Receives, T!Refuse, T!Late, T!ReceiveError, T!AskTimesOut, T!AnswerTimesOut, T!Fails
<1> QED
  BY <1>1, <1>2, <1>3, <1>4 DEF T!TypeOK, TaskTreeOK, TreeTypes

\* A step is one of each part, or leaves it as it is.
LEMMA PartsMove ==
  ASSUME [PartsNext]_partsVars
  PROVE  /\ [Next]_vars /\ [G!Next]_goalVars /\ [A!Next]_artifactVars
         /\ [P!Next]_processVars /\ [T!Next]_treeVars /\ [R!Next]_repoVars
BY DEF PartsNext, partsVars, Lease, Goal, Artifact, Process_, Tree, Repository

\* The invariants of all parts.
PartsOK ==
  /\ LeaseOK /\ ArtifactsOK /\ ProcessesOK
  /\ GoalsOK /\ GoalsFollow
  /\ RepositoriesOK /\ ReadsRows /\ MirrorsOK
  /\ TaskTreeOK /\ T!TypeOK /\ TreeInOrder

\* The invariants hold in every reachable state.
THEOREM PartsInvariant == PartsSpec => []PartsOK
<1>1. PartsInit => PartsOK
  <2> SUFFICES ASSUME PartsInit PROVE PartsOK
    OBVIOUS
  <2>1. LeaseOK /\ ArtifactsOK /\ ProcessesOK
    BY LeaseInit, ArtifactsInit, ProcessesInit DEF PartsInit
  <2>2. GoalsOK /\ GoalsFollow
    BY GoalsAssumption, GoalsInit, GoalsFollowInit DEF PartsInit
  <2>3. RepositoriesOK /\ ReadsRows /\ MirrorsOK
    BY RepositoriesInit, MirrorsInit DEF PartsInit
  <2>4. TaskTreeOK /\ TreeInOrder
    BY TaskTreeInit, OrderInit DEF PartsInit
  <2>5. T!TypeOK
    <3>1. T!Init /\ MaxChanges \in Nat /\ MaxReads \in Nat
      BY TreeAssumption DEF PartsInit, T!Assumption
    <3>2. root \in 0..MaxChanges /\ calls \in 0..MaxReads
      BY <3>1 DEF T!Init
    <3> QED BY <2>4, <3>1, <3>2 DEF T!Init, T!TypeOK, TaskTreeOK, TreeTypes
  <2> QED BY <2>1, <2>2, <2>3, <2>4, <2>5 DEF PartsOK
<1>2. PartsOK /\ [PartsNext]_partsVars => PartsOK'
  <2> SUFFICES ASSUME PartsOK, [PartsNext]_partsVars PROVE PartsOK'
    OBVIOUS
  <2> USE DEF PartsOK
  <2>1. LeaseOK'
    BY PartsMove, LeaseStep
  <2>2. GoalsOK' /\ GoalsFollow'
    BY PartsMove, GoalsAssumption, GoalsStep, GoalsFollowStep
  <2>3. ArtifactsOK'
    BY PartsMove, ArtifactsStep
  <2>4. ProcessesOK'
    BY PartsMove, ProcessesStep
  <2>5. RepositoriesOK' /\ ReadsRows' /\ MirrorsOK'
    BY PartsMove, RepositoriesStep, ReadsRowsStep, MirrorsStep
  <2>6. TaskTreeOK' /\ T!TypeOK' /\ TreeInOrder'
    BY PartsMove, TaskTreeStep, TaskTreeStays, TreeTypeOK, OrderStep
  <2> QED BY <2>1, <2>2, <2>3, <2>4, <2>5, <2>6
<1> QED
  BY <1>1, <1>2, PTL DEF PartsSpec

\* The types of all parts.
THEOREM PartsTypes == PartsSpec => []TypesOK
<1>1. PartsOK => TypesOK
  BY DEF PartsOK, TypesOK, LeaseOK, GoalsOK, ArtifactsOK, ProcessesOK, RepositoriesOK
<1> QED
  BY <1>1, PartsInvariant, PTL

\* thread-lease.ts: whoever has a lease has its lock file under the name,
\* until a caller decided to remove a file while another was about to, or
\* after the file it had read was gone.
THEOREM LeaseOwnsFile == PartsSpec => []OwnsFileUnlessRaced
<1>1. PartsOK => OwnsFileUnlessRaced
  BY DEF PartsOK, LeaseOK
<1> QED
  BY <1>1, PartsInvariant, PTL

\* thread-lease.ts:68-76: the dead owner a caller read is still the file's
\* when the caller removes it, unless there was such a race.
THEOREM LeaseReadStaysTrue == PartsSpec => []ReadStaysTrueUnlessRaced
<1>1. PartsOK => ReadStaysTrueUnlessRaced
  BY DEF PartsOK, LeaseOK
<1> QED
  BY <1>1, PartsInvariant, PTL

\* So one thread has one writer: two callers hold the lease together only
\* after one of those two races.
THEOREM LeaseExclusiveUnlessRaced == PartsSpec => [](raced \/ Exclusive)
<1>1. PartsOK => raced \/ Exclusive
  BY DEF PartsOK, LeaseOK, OwnsFileUnlessRaced, Exclusive
<1> QED
  BY <1>1, PartsInvariant, PTL

\* features/thread/turns.ts:295: no goal is charged what a turn has used that
\* was begun for another one, whatever clients, the Command and the turns do.
THEOREM GoalsNoCrossCharge == PartsSpec => []NoCrossCharge
<1>1. PartsOK => NoCrossCharge
  BY DEF PartsOK, GoalsOK, WithinSpent, NoCrossCharge, G!NoCrossCharge
<1> QED
  BY <1>1, PartsInvariant, PTL

\* features/artifact/store.ts: what put has returned can be read until its
\* reference is expired, unless puts, collectors and failures have crossed.
THEOREM ArtifactsReadable == PartsSpec => []PutIsReadable
<1>1. PartsOK => PutIsReadable
  BY DEF PartsOK, ArtifactsOK, PutIsReadable, A!PutIsReadable
<1> QED
  BY <1>1, PartsInvariant, PTL

\* features/environment/processes.ts:207, local.ts:128: a close that returned
\* has left none of its processes alive, whenever they were being started.
THEOREM CloseLeavesNobody == PartsSpec => []CloseLeavesNothing
<1>1. PartsOK => CloseLeavesNothing
  BY ProcessesAssumption DEF PartsOK, ProcessesOK, Closing, CloseLeavesNothing, P!CloseLeavesNothing
<1> QED
  BY <1>1, PartsInvariant, PTL

\* features/workspace/repositories.ts: when no call is under way the row of a
\* repository is what the last call said and what git has, unless calls crossed
\* or a death cut one off.
THEOREM RowsAreAsSaid == PartsSpec => []RowIsAsSaid
<1>1. PartsOK => RowIsAsSaid
  BY RepositoriesSay DEF PartsOK, RowIsAsSaid
<1> QED
  BY <1>1, PartsInvariant, PTL

\* client/agent-task-client.ts:201: when nothing is on its way the client shows
\* all that it was notified of, whatever gaps there were and requests failed,
\* unless since its last snapshot it noticed a gap while it was reading details
\* again, or a subscribe or a read for an event failed.
THEOREM TreeShowsAll == PartsSpec => []ShowsWhatItWasTold
<1>1. PartsOK => ShowsWhatItWasTold
  BY TaskTreeShows DEF PartsOK, ShowsWhatItWasTold
<1> QED
  BY <1>1, PartsInvariant, PTL

\* features/thread/turns.ts:289: as long as clients speak between the turns, the
\* goal is the one they have set, with what its turns have cost, and a turn that
\* reaches the budget has paused it.
THEOREM GoalStaysAsSaid == PartsSpec => []GoalIsAsSaid
<1>1. PartsOK => GoalIsAsSaid
  BY DEF PartsOK, GoalsFollow, GoalIsAsSaid, G!GoalIsAsSaid
<1> QED
  BY <1>1, PartsInvariant, PTL

\* features/workspace/repositories.ts: a repository with a row has a complete
\* mirror, and its key alone, whoever adds, removes, fails or dies.
THEOREM RowsHaveMirrors == PartsSpec => []RowHasMirror
<1>1. PartsOK => RowHasMirror
  BY DEF PartsOK, MirrorsOK, RepositoriesOK, RowHasMirror, R!RowHasMirror
<1> QED
  BY <1>1, PartsInvariant, PTL

\* client/agent-task-client.ts:148-235: the tree the client shows never goes back,
\* and a detail it keeps loses no event, in whatever order messages arrive.
THEOREM TreeGrows == PartsSpec => TreeNeverGoesBack
<1>1. PartsOK /\ [PartsNext]_partsVars =>
        [/\ tree'.seq >= tree.seq
         /\ \A t \in Tasks : /\ tree'.tasks[t] >= tree.tasks[t]
                             /\ details'[t] # T!NoDetail => details'[t].all >= details[t].all]_T!treeVars
  BY PartsMove, OrderStep DEF PartsOK, ShownGrows
<1> QED
  BY <1>1, PartsInvariant, PTL DEF PartsSpec, TreeNeverGoesBack, T!TreeNeverGoesBack

-----------------------------------------------------------------------------
(***************************************************************************)
(* Workspaces: an operation changes the directory of its workspace one     *)
(* call at a time, so that between its steps the row is not what is on the *)
(* disk.  What it has made of the directory is said of the operation       *)
(* (OpStands); that no other undoes it needs a workspace that nothing has  *)
(* disturbed to be apart from the operations on all others (Apart).  The   *)
(* lemmas go stage by stage: a step goes on (GoesAs), ends (EndsAs) or     *)
(* begins an operation (BegunOn), and each of these keeps the invariant.   *)
(***************************************************************************)

\* What can be left of the plan of an operation of a kind.
Courses(kind) ==
  CASE kind = "create" -> {<<"mkdir", "attach", "insert">>, <<"attach", "insert">>, <<"insert">>}
    [] kind \in {"branch", "detached"} -> {<<"attach", "update">>, <<"update">>}
    [] kind = "remove" -> {<<"remove", "update">>, <<"update">>}
    [] kind = "rename" -> {<<"move", "repair", "update">>, <<"repair", "update">>, <<"update">>}
    [] kind = "archive" -> {<<"clean", "detach", "move", "repair", "update">>,
                            <<"detach", "move", "repair", "update">>,
                            <<"move", "repair", "update">>, <<"repair", "update">>, <<"update">>}
    [] kind = "delete" -> {<<"clean", "remove", "rm", "update">>, <<"remove", "rm", "update">>,
                           <<"rm", "update">>, <<"update">>}
    [] kind = "repair" -> {<<"check", "mkroot", "restore">>, <<"mkroot", "restore">>, <<"restore">>}
    [] OTHER -> {}

Stage(v) == Head(v.plan)
ByRow(v) == v.kind = "repair" /\ v.alone  \* a repair that nothing has met

\* The row of i, if it has one, has the directory of its selector or of its id.
RowIsSound(w, i) ==
  /\ w.status \in {"active", "archived"} => w.name \in Names /\ w.branch \in Names
  /\ w.status = "active" => w.root = w.name
  /\ w.status = "archived" => w.root = i

\* So has what an operation works on, but for a move that is to come.
OpIsSound(v) ==
  /\ v.id \in WorkspaceIds /\ v.plan \in Courses(v.kind)
  /\ v.w.root \in Names \cup {v.id} /\ v.w.name \in Names /\ v.w.branch \in Names
  /\ v.w.status \in {"active", "archived", "deleted"}
  /\ v.w.status = "active" =>
       v.w.root \in Names /\ (v.w.root = v.w.name \/ (v.kind = "rename" /\ Stage(v) = "move"))
  /\ v.w.status = "archived" => v.w.root = v.id
  /\ v.kind \in {"create", "branch", "detached", "remove", "rename"} => v.w.status = "active"
  /\ v.kind = "archive" => (v.w.status = IF Stage(v) \in {"repair", "update"} THEN "archived" ELSE "active")
  /\ v.kind = "delete" => (v.w.status = "deleted" <=> Stage(v) = "update")
  /\ v.kind = "repair" => v.w.status # "deleted"
  /\ v.kind = "create" /\ Stage(v) = "mkdir" => W!Used(v.w) = {}
  /\ Stage(v) \in {"detach", "restore"} => v.todo \subseteq W!Used(v.w)

Has(d, p, r) == d[p].checkout[r].on # Nowhere

DiskIsSound(d) ==
  /\ d \in [W!Roots -> W!Root]
  /\ \A p \in W!Roots, r \in Repos : Has(d, p, r) => d[p].exists
  /\ \A p \in W!Roots, r \in Repos : ~Has(d, p, r) => d[p].checkout[r] = W!NoCheckout

Sound ==
  /\ W!TypeOK /\ DiskIsSound(disk)
  /\ \A i \in WorkspaceIds : RowIsSound(rowOf[i], i)
  /\ \A i, j \in WorkspaceIds :
       rowOf[i].status = "active" /\ rowOf[j].status = "active" /\ rowOf[i].name = rowOf[j].name => i = j
  /\ \A o \in Ops : op[o] = W!NoOp \/ OpIsSound(op[o])
  /\ \A o \in Ops : op[o].id \in WorkspaceIds => (op[o].kind = "create" <=> rowOf[op[o].id].status = "none")
  /\ \A o, p \in Ops : op[o].kind = "create" /\ op[p].id = op[o].id => p = o

\* A workspace that nothing has disturbed, or that has never met another, or
\* that a repair works on which nothing has met, is apart: at most one
\* operation works on it, and no other in its directories.
Live(w) == w.status \in {"active", "archived"}
Clear(i) == i \notin disturbed \/ i \notin everMet \/ \E o \in Ops : op[o].id = i /\ ByRow(op[o])

IsApart(i) ==
  /\ \A o, p \in Ops : op[o].id = i /\ op[p].id = i => o = p
  /\ \A p \in Ops : op[p].id \in WorkspaceIds \ {i} /\ Live(rowOf[i]) => rowOf[i].root \notin W!Places(op[p].w)
  /\ \A o, p \in Ops : op[o].id = i /\ op[p].id \in WorkspaceIds \ {i} =>
       W!Places(op[o].w) \cap W!Places(op[p].w) = {}

ToMove(v) == v.kind \in {"rename", "archive"} /\ Stage(v) \in {"clean", "detach", "move"}

Apart ==
  /\ \A i \in WorkspaceIds : Clear(i) => IsApart(i)
  /\ \A o \in Ops : op[o].kind = "repair" /\ ~op[o].alone => op[o].id \in disturbed /\ op[o].id \in everMet
  /\ \A o \in Ops : ByRow(op[o]) => op[o].w = rowOf[op[o].id]
  /\ \A o \in Ops : op[o].id \in WorkspaceIds \ everMet /\ ToMove(op[o]) => op[o].w.root = rowOf[op[o].id].root

\* The directories are as the row w of workspace i says, but for checkouts that
\* its last repair has overlooked, if i is in os.
FitsRow(d, os, i, w) ==
  /\ d[w.root].exists
  /\ \A r \in W!Used(w) : d[w.root].checkout[r].on = W!On(w, r)
  /\ i \notin os => \A r \in Repos \ W!Used(w) : d[w.root].checkout[r].on = Nowhere

\* The checkouts but those of rs are registered where they are, or nowhere else.
AtHome(d, w, rs) == \A r \in W!Used(w) \ rs : d[w.root].checkout[r].at = w.root
NotElsewhere(d, w, rs) == \A r \in W!Used(w) \ rs : d[w.root].checkout[r].at \in {w.root, Nowhere}

\* What an operation that nothing disturbs has made of the directories.
Content(d, os, v) ==
  /\ v.kind \in {"create", "branch", "detached", "remove", "rename", "archive"} =>
       Stage(v) = "mkdir" \/ FitsRow(d, os, v.id, v.w)
  /\ v.kind = "delete" =>
       /\ Stage(v) = "remove" => \A r \in W!Used(v.w) \ v.todo : ~Has(d, v.w.root, r)
       /\ Stage(v) = "rm" => \A r \in W!Used(v.w) : ~Has(d, v.w.root, r)
  /\ v.kind = "repair" =>
       /\ Stage(v) \in {"mkroot", "restore"} /\ ~v.over =>
            \A r \in Repos : Has(d, v.w.root, r) => r \in W!Used(v.w)
       /\ Stage(v) = "restore" =>
            /\ d[v.w.root].exists
            /\ \A r \in W!Used(v.w) \ v.todo : d[v.w.root].checkout[r].on = W!On(v.w, r)

Unmoved(v) == IF Stage(v) = "repair" THEN v.todo ELSE {}

OpStands(d, ds, ms, os, v) ==
  /\ v.id \notin ds \/ ByRow(v) => Content(d, os, v)
  /\ v.id \notin ms /\ v.kind # "delete" => NotElsewhere(d, v.w, Unmoved(v))
  /\ v.id \notin ms /\ v.id \notin ds /\ v.kind \notin {"delete", "repair"} => AtHome(d, v.w, Unmoved(v))
  /\ v.id \notin ms /\ v.kind = "repair" /\ Stage(v) = "restore" => AtHome(d, v.w, v.todo)

Idle(i) == \A o \in Ops : op[o].id # i

RowStands(i) ==
  Live(rowOf[i]) =>
    /\ i \notin disturbed /\ Idle(i) => FitsRow(disk, overlooked, i, rowOf[i])
    /\ i \notin everMet => NotElsewhere(disk, rowOf[i], {})
    /\ i \notin disturbed /\ i \notin everMet /\ Idle(i) => AtHome(disk, rowOf[i], {})

Stands ==
  /\ \A o \in Ops : op[o].id \in WorkspaceIds => OpStands(disk, disturbed, everMet, overlooked, op[o])
  /\ \A i \in WorkspaceIds : RowStands(i)

WorkspacesOK == Sound /\ Apart /\ Stands

-----------------------------------------------------------------------------
\* The stages of a kind, and what follows on each.
HasStage(kind, stage) ==
  /\ kind \in {"create", "branch", "detached", "remove", "rename", "archive", "delete", "repair"}
  /\ kind = "create" => stage \in {"mkdir", "attach", "insert"}
  /\ kind \in {"branch", "detached"} => stage \in {"attach", "update"}
  /\ kind = "remove" => stage \in {"remove", "update"}
  /\ kind = "rename" => stage \in {"move", "repair", "update"}
  /\ kind = "archive" => stage \in {"clean", "detach", "move", "repair", "update"}
  /\ kind = "delete" => stage \in {"clean", "remove", "rm", "update"}
  /\ kind = "repair" => stage \in {"check", "mkroot", "restore"}

Follows(kind, stage, next) ==
  /\ stage = "mkdir" => next = "attach"
  /\ stage = "attach" => next \in {"insert", "update"}
  /\ stage = "remove" /\ kind = "delete" => next = "rm"
  /\ stage = "remove" /\ kind # "delete" => next = "update"
  /\ stage = "move" => next = "repair"
  /\ stage = "repair" => next = "update"
  /\ stage = "clean" /\ kind = "delete" => next = "remove"
  /\ stage = "clean" /\ kind # "delete" => next = "detach"
  /\ stage = "detach" => next = "move"
  /\ stage = "rm" => next = "update"
  /\ stage = "check" => next = "mkroot"
  /\ stage = "mkroot" => next = "restore"

IsLast(stage) == stage \in {"insert", "update", "restore"}

\* What is left of a plan says what the next stage is, and whether there is
\* one.
LEMMA CourseIs ==
  ASSUME NEW kind, NEW plan \in Courses(kind)
  PROVE  /\ plan \in Seq(W!Stages) /\ plan # <<>> /\ Len(plan) \in Nat
         /\ HasStage(kind, Head(plan))
         /\ Len(plan) = 1 <=> IsLast(Head(plan))
         /\ Len(plan) # 1 => Tail(plan) \in Courses(kind) /\ Follows(kind, Head(plan), Head(Tail(plan)))
<1>1. CASE kind = "create"
  <2> DEFINE p1 == <<"mkdir", "attach", "insert">>
  <2> DEFINE p2 == <<"attach", "insert">>
  <2> DEFINE p3 == <<"insert">>
  <2>1. Courses(kind) = {p1, p2, p3}
    BY <1>1 DEF Courses
  <2>2. p1 \in Seq(W!Stages)
    BY DEF W!Stages
  <2>3. p1 # <<>> /\ Len(p1) = 3 /\ Head(p1) = "mkdir" /\ Tail(p1) = p2
    OBVIOUS
  <2>4. p2 \in Seq(W!Stages)
    BY DEF W!Stages
  <2>5. p2 # <<>> /\ Len(p2) = 2 /\ Head(p2) = "attach" /\ Tail(p2) = p3
    OBVIOUS
  <2>6. p3 \in Seq(W!Stages)
    BY DEF W!Stages
  <2>7. p3 # <<>> /\ Len(p3) = 1 /\ Head(p3) = "insert"
    OBVIOUS
  <2> HIDE DEF p1, p2, p3
  <2>8. CASE plan = p1
    <3>1. plan \in Seq(W!Stages) /\ plan # <<>> /\ Len(plan) \in Nat /\ Len(plan) # 1 /\ Head(plan) = "mkdir"
      BY <2>2, <2>3, <2>8
    <3>2. Tail(plan) \in Courses(kind) /\ Head(Tail(plan)) = "attach"
      BY <2>1, <2>2, <2>3, <2>4, <2>5, <2>8
    <3>3. HasStage(kind, "mkdir") /\ ~IsLast("mkdir")
      BY <1>1 DEF HasStage, IsLast
    <3>4. Follows(kind, "mkdir", "attach")
      BY <1>1 DEF Follows
    <3> QED
      BY <3>1, <3>2, <3>3, <3>4, Zenon
  <2>9. CASE plan = p2
    <3>1. plan \in Seq(W!Stages) /\ plan # <<>> /\ Len(plan) \in Nat /\ Len(plan) # 1 /\ Head(plan) = "attach"
      BY <2>4, <2>5, <2>9
    <3>2. Tail(plan) \in Courses(kind) /\ Head(Tail(plan)) = "insert"
      BY <2>1, <2>4, <2>5, <2>6, <2>7, <2>9
    <3>3. HasStage(kind, "attach") /\ ~IsLast("attach")
      BY <1>1 DEF HasStage, IsLast
    <3>4. Follows(kind, "attach", "insert")
      BY <1>1 DEF Follows
    <3> QED
      BY <3>1, <3>2, <3>3, <3>4, Zenon
  <2>10. CASE plan = p3
    <3>1. plan \in Seq(W!Stages) /\ plan # <<>> /\ Len(plan) \in Nat /\ Len(plan) = 1 /\ Head(plan) = "insert"
      BY <2>6, <2>7, <2>10
    <3>2. HasStage(kind, "insert") /\ IsLast("insert")
      BY <1>1 DEF HasStage, IsLast
    <3> QED
      BY <3>1, <3>2
  <2> QED
    BY <2>1, <2>8, <2>9, <2>10
<1>2. CASE kind \in {"branch", "detached"}
  <2> DEFINE p1 == <<"attach", "update">>
  <2> DEFINE p2 == <<"update">>
  <2>1. Courses(kind) = {p1, p2}
    BY <1>2 DEF Courses
  <2>2. p1 \in Seq(W!Stages)
    BY DEF W!Stages
  <2>3. p1 # <<>> /\ Len(p1) = 2 /\ Head(p1) = "attach" /\ Tail(p1) = p2
    OBVIOUS
  <2>4. p2 \in Seq(W!Stages)
    BY DEF W!Stages
  <2>5. p2 # <<>> /\ Len(p2) = 1 /\ Head(p2) = "update"
    OBVIOUS
  <2> HIDE DEF p1, p2
  <2>6. CASE plan = p1
    <3>1. plan \in Seq(W!Stages) /\ plan # <<>> /\ Len(plan) \in Nat /\ Len(plan) # 1 /\ Head(plan) = "attach"
      BY <2>2, <2>3, <2>6
    <3>2. Tail(plan) \in Courses(kind) /\ Head(Tail(plan)) = "update"
      BY <2>1, <2>2, <2>3, <2>4, <2>5, <2>6
    <3>3. HasStage(kind, "attach") /\ ~IsLast("attach")
      BY <1>2 DEF HasStage, IsLast
    <3>4. Follows(kind, "attach", "update")
      BY <1>2 DEF Follows
    <3> QED
      BY <3>1, <3>2, <3>3, <3>4, Zenon
  <2>7. CASE plan = p2
    <3>1. plan \in Seq(W!Stages) /\ plan # <<>> /\ Len(plan) \in Nat /\ Len(plan) = 1 /\ Head(plan) = "update"
      BY <2>4, <2>5, <2>7
    <3>2. HasStage(kind, "update") /\ IsLast("update")
      BY <1>2 DEF HasStage, IsLast
    <3> QED
      BY <3>1, <3>2
  <2> QED
    BY <2>1, <2>6, <2>7
<1>3. CASE kind = "remove"
  <2> DEFINE p1 == <<"remove", "update">>
  <2> DEFINE p2 == <<"update">>
  <2>1. Courses(kind) = {p1, p2}
    BY <1>3 DEF Courses
  <2>2. p1 \in Seq(W!Stages)
    BY DEF W!Stages
  <2>3. p1 # <<>> /\ Len(p1) = 2 /\ Head(p1) = "remove" /\ Tail(p1) = p2
    OBVIOUS
  <2>4. p2 \in Seq(W!Stages)
    BY DEF W!Stages
  <2>5. p2 # <<>> /\ Len(p2) = 1 /\ Head(p2) = "update"
    OBVIOUS
  <2> HIDE DEF p1, p2
  <2>6. CASE plan = p1
    <3>1. plan \in Seq(W!Stages) /\ plan # <<>> /\ Len(plan) \in Nat /\ Len(plan) # 1 /\ Head(plan) = "remove"
      BY <2>2, <2>3, <2>6
    <3>2. Tail(plan) \in Courses(kind) /\ Head(Tail(plan)) = "update"
      BY <2>1, <2>2, <2>3, <2>4, <2>5, <2>6
    <3>3. HasStage(kind, "remove") /\ ~IsLast("remove")
      BY <1>3 DEF HasStage, IsLast
    <3>4. Follows(kind, "remove", "update")
      BY <1>3 DEF Follows
    <3> QED
      BY <3>1, <3>2, <3>3, <3>4, Zenon
  <2>7. CASE plan = p2
    <3>1. plan \in Seq(W!Stages) /\ plan # <<>> /\ Len(plan) \in Nat /\ Len(plan) = 1 /\ Head(plan) = "update"
      BY <2>4, <2>5, <2>7
    <3>2. HasStage(kind, "update") /\ IsLast("update")
      BY <1>3 DEF HasStage, IsLast
    <3> QED
      BY <3>1, <3>2
  <2> QED
    BY <2>1, <2>6, <2>7
<1>4. CASE kind = "rename"
  <2> DEFINE p1 == <<"move", "repair", "update">>
  <2> DEFINE p2 == <<"repair", "update">>
  <2> DEFINE p3 == <<"update">>
  <2>1. Courses(kind) = {p1, p2, p3}
    BY <1>4 DEF Courses
  <2>2. p1 \in Seq(W!Stages)
    BY DEF W!Stages
  <2>3. p1 # <<>> /\ Len(p1) = 3 /\ Head(p1) = "move" /\ Tail(p1) = p2
    OBVIOUS
  <2>4. p2 \in Seq(W!Stages)
    BY DEF W!Stages
  <2>5. p2 # <<>> /\ Len(p2) = 2 /\ Head(p2) = "repair" /\ Tail(p2) = p3
    OBVIOUS
  <2>6. p3 \in Seq(W!Stages)
    BY DEF W!Stages
  <2>7. p3 # <<>> /\ Len(p3) = 1 /\ Head(p3) = "update"
    OBVIOUS
  <2> HIDE DEF p1, p2, p3
  <2>8. CASE plan = p1
    <3>1. plan \in Seq(W!Stages) /\ plan # <<>> /\ Len(plan) \in Nat /\ Len(plan) # 1 /\ Head(plan) = "move"
      BY <2>2, <2>3, <2>8
    <3>2. Tail(plan) \in Courses(kind) /\ Head(Tail(plan)) = "repair"
      BY <2>1, <2>2, <2>3, <2>4, <2>5, <2>8
    <3>3. HasStage(kind, "move") /\ ~IsLast("move")
      BY <1>4 DEF HasStage, IsLast
    <3>4. Follows(kind, "move", "repair")
      BY <1>4 DEF Follows
    <3> QED
      BY <3>1, <3>2, <3>3, <3>4, Zenon
  <2>9. CASE plan = p2
    <3>1. plan \in Seq(W!Stages) /\ plan # <<>> /\ Len(plan) \in Nat /\ Len(plan) # 1 /\ Head(plan) = "repair"
      BY <2>4, <2>5, <2>9
    <3>2. Tail(plan) \in Courses(kind) /\ Head(Tail(plan)) = "update"
      BY <2>1, <2>4, <2>5, <2>6, <2>7, <2>9
    <3>3. HasStage(kind, "repair") /\ ~IsLast("repair")
      BY <1>4 DEF HasStage, IsLast
    <3>4. Follows(kind, "repair", "update")
      BY <1>4 DEF Follows
    <3> QED
      BY <3>1, <3>2, <3>3, <3>4, Zenon
  <2>10. CASE plan = p3
    <3>1. plan \in Seq(W!Stages) /\ plan # <<>> /\ Len(plan) \in Nat /\ Len(plan) = 1 /\ Head(plan) = "update"
      BY <2>6, <2>7, <2>10
    <3>2. HasStage(kind, "update") /\ IsLast("update")
      BY <1>4 DEF HasStage, IsLast
    <3> QED
      BY <3>1, <3>2
  <2> QED
    BY <2>1, <2>8, <2>9, <2>10
<1>5. CASE kind = "archive"
  <2> DEFINE p1 == <<"clean", "detach", "move", "repair", "update">>
  <2> DEFINE p2 == <<"detach", "move", "repair", "update">>
  <2> DEFINE p3 == <<"move", "repair", "update">>
  <2> DEFINE p4 == <<"repair", "update">>
  <2> DEFINE p5 == <<"update">>
  <2>1. Courses(kind) = {p1, p2, p3, p4, p5}
    BY <1>5 DEF Courses
  <2>2. p1 \in Seq(W!Stages)
    BY DEF W!Stages
  <2>3. p1 # <<>> /\ Len(p1) = 5 /\ Head(p1) = "clean" /\ Tail(p1) = p2
    OBVIOUS
  <2>4. p2 \in Seq(W!Stages)
    BY DEF W!Stages
  <2>5. p2 # <<>> /\ Len(p2) = 4 /\ Head(p2) = "detach" /\ Tail(p2) = p3
    OBVIOUS
  <2>6. p3 \in Seq(W!Stages)
    BY DEF W!Stages
  <2>7. p3 # <<>> /\ Len(p3) = 3 /\ Head(p3) = "move" /\ Tail(p3) = p4
    OBVIOUS
  <2>8. p4 \in Seq(W!Stages)
    BY DEF W!Stages
  <2>9. p4 # <<>> /\ Len(p4) = 2 /\ Head(p4) = "repair" /\ Tail(p4) = p5
    OBVIOUS
  <2>10. p5 \in Seq(W!Stages)
    BY DEF W!Stages
  <2>11. p5 # <<>> /\ Len(p5) = 1 /\ Head(p5) = "update"
    OBVIOUS
  <2> HIDE DEF p1, p2, p3, p4, p5
  <2>12. CASE plan = p1
    <3>1. plan \in Seq(W!Stages) /\ plan # <<>> /\ Len(plan) \in Nat /\ Len(plan) # 1 /\ Head(plan) = "clean"
      BY <2>2, <2>3, <2>12
    <3>2. Tail(plan) \in Courses(kind) /\ Head(Tail(plan)) = "detach"
      BY <2>1, <2>2, <2>3, <2>4, <2>5, <2>12
    <3>3. HasStage(kind, "clean") /\ ~IsLast("clean")
      BY <1>5 DEF HasStage, IsLast
    <3>4. Follows(kind, "clean", "detach")
      BY <1>5 DEF Follows
    <3> QED
      BY <3>1, <3>2, <3>3, <3>4, Zenon
  <2>13. CASE plan = p2
    <3>1. plan \in Seq(W!Stages) /\ plan # <<>> /\ Len(plan) \in Nat /\ Len(plan) # 1 /\ Head(plan) = "detach"
      BY <2>4, <2>5, <2>13
    <3>2. Tail(plan) \in Courses(kind) /\ Head(Tail(plan)) = "move"
      BY <2>1, <2>4, <2>5, <2>6, <2>7, <2>13
    <3>3. HasStage(kind, "detach") /\ ~IsLast("detach")
      BY <1>5 DEF HasStage, IsLast
    <3>4. Follows(kind, "detach", "move")
      BY <1>5 DEF Follows
    <3> QED
      BY <3>1, <3>2, <3>3, <3>4, Zenon
  <2>14. CASE plan = p3
    <3>1. plan \in Seq(W!Stages) /\ plan # <<>> /\ Len(plan) \in Nat /\ Len(plan) # 1 /\ Head(plan) = "move"
      BY <2>6, <2>7, <2>14
    <3>2. Tail(plan) \in Courses(kind) /\ Head(Tail(plan)) = "repair"
      BY <2>1, <2>6, <2>7, <2>8, <2>9, <2>14
    <3>3. HasStage(kind, "move") /\ ~IsLast("move")
      BY <1>5 DEF HasStage, IsLast
    <3>4. Follows(kind, "move", "repair")
      BY <1>5 DEF Follows
    <3> QED
      BY <3>1, <3>2, <3>3, <3>4, Zenon
  <2>15. CASE plan = p4
    <3>1. plan \in Seq(W!Stages) /\ plan # <<>> /\ Len(plan) \in Nat /\ Len(plan) # 1 /\ Head(plan) = "repair"
      BY <2>8, <2>9, <2>15
    <3>2. Tail(plan) \in Courses(kind) /\ Head(Tail(plan)) = "update"
      BY <2>1, <2>8, <2>9, <2>10, <2>11, <2>15
    <3>3. HasStage(kind, "repair") /\ ~IsLast("repair")
      BY <1>5 DEF HasStage, IsLast
    <3>4. Follows(kind, "repair", "update")
      BY <1>5 DEF Follows
    <3> QED
      BY <3>1, <3>2, <3>3, <3>4, Zenon
  <2>16. CASE plan = p5
    <3>1. plan \in Seq(W!Stages) /\ plan # <<>> /\ Len(plan) \in Nat /\ Len(plan) = 1 /\ Head(plan) = "update"
      BY <2>10, <2>11, <2>16
    <3>2. HasStage(kind, "update") /\ IsLast("update")
      BY <1>5 DEF HasStage, IsLast
    <3> QED
      BY <3>1, <3>2
  <2> QED
    BY <2>1, <2>12, <2>13, <2>14, <2>15, <2>16
<1>6. CASE kind = "delete"
  <2> DEFINE p1 == <<"clean", "remove", "rm", "update">>
  <2> DEFINE p2 == <<"remove", "rm", "update">>
  <2> DEFINE p3 == <<"rm", "update">>
  <2> DEFINE p4 == <<"update">>
  <2>1. Courses(kind) = {p1, p2, p3, p4}
    BY <1>6 DEF Courses
  <2>2. p1 \in Seq(W!Stages)
    BY DEF W!Stages
  <2>3. p1 # <<>> /\ Len(p1) = 4 /\ Head(p1) = "clean" /\ Tail(p1) = p2
    OBVIOUS
  <2>4. p2 \in Seq(W!Stages)
    BY DEF W!Stages
  <2>5. p2 # <<>> /\ Len(p2) = 3 /\ Head(p2) = "remove" /\ Tail(p2) = p3
    OBVIOUS
  <2>6. p3 \in Seq(W!Stages)
    BY DEF W!Stages
  <2>7. p3 # <<>> /\ Len(p3) = 2 /\ Head(p3) = "rm" /\ Tail(p3) = p4
    OBVIOUS
  <2>8. p4 \in Seq(W!Stages)
    BY DEF W!Stages
  <2>9. p4 # <<>> /\ Len(p4) = 1 /\ Head(p4) = "update"
    OBVIOUS
  <2> HIDE DEF p1, p2, p3, p4
  <2>10. CASE plan = p1
    <3>1. plan \in Seq(W!Stages) /\ plan # <<>> /\ Len(plan) \in Nat /\ Len(plan) # 1 /\ Head(plan) = "clean"
      BY <2>2, <2>3, <2>10
    <3>2. Tail(plan) \in Courses(kind) /\ Head(Tail(plan)) = "remove"
      BY <2>1, <2>2, <2>3, <2>4, <2>5, <2>10
    <3>3. HasStage(kind, "clean") /\ ~IsLast("clean")
      BY <1>6 DEF HasStage, IsLast
    <3>4. Follows(kind, "clean", "remove")
      BY <1>6 DEF Follows
    <3> QED
      BY <3>1, <3>2, <3>3, <3>4, Zenon
  <2>11. CASE plan = p2
    <3>1. plan \in Seq(W!Stages) /\ plan # <<>> /\ Len(plan) \in Nat /\ Len(plan) # 1 /\ Head(plan) = "remove"
      BY <2>4, <2>5, <2>11
    <3>2. Tail(plan) \in Courses(kind) /\ Head(Tail(plan)) = "rm"
      BY <2>1, <2>4, <2>5, <2>6, <2>7, <2>11
    <3>3. HasStage(kind, "remove") /\ ~IsLast("remove")
      BY <1>6 DEF HasStage, IsLast
    <3>4. Follows(kind, "remove", "rm")
      BY <1>6 DEF Follows
    <3> QED
      BY <3>1, <3>2, <3>3, <3>4, Zenon
  <2>12. CASE plan = p3
    <3>1. plan \in Seq(W!Stages) /\ plan # <<>> /\ Len(plan) \in Nat /\ Len(plan) # 1 /\ Head(plan) = "rm"
      BY <2>6, <2>7, <2>12
    <3>2. Tail(plan) \in Courses(kind) /\ Head(Tail(plan)) = "update"
      BY <2>1, <2>6, <2>7, <2>8, <2>9, <2>12
    <3>3. HasStage(kind, "rm") /\ ~IsLast("rm")
      BY <1>6 DEF HasStage, IsLast
    <3>4. Follows(kind, "rm", "update")
      BY <1>6 DEF Follows
    <3> QED
      BY <3>1, <3>2, <3>3, <3>4, Zenon
  <2>13. CASE plan = p4
    <3>1. plan \in Seq(W!Stages) /\ plan # <<>> /\ Len(plan) \in Nat /\ Len(plan) = 1 /\ Head(plan) = "update"
      BY <2>8, <2>9, <2>13
    <3>2. HasStage(kind, "update") /\ IsLast("update")
      BY <1>6 DEF HasStage, IsLast
    <3> QED
      BY <3>1, <3>2
  <2> QED
    BY <2>1, <2>10, <2>11, <2>12, <2>13
<1>7. CASE kind = "repair"
  <2> DEFINE p1 == <<"check", "mkroot", "restore">>
  <2> DEFINE p2 == <<"mkroot", "restore">>
  <2> DEFINE p3 == <<"restore">>
  <2>1. Courses(kind) = {p1, p2, p3}
    BY <1>7 DEF Courses
  <2>2. p1 \in Seq(W!Stages)
    BY DEF W!Stages
  <2>3. p1 # <<>> /\ Len(p1) = 3 /\ Head(p1) = "check" /\ Tail(p1) = p2
    OBVIOUS
  <2>4. p2 \in Seq(W!Stages)
    BY DEF W!Stages
  <2>5. p2 # <<>> /\ Len(p2) = 2 /\ Head(p2) = "mkroot" /\ Tail(p2) = p3
    OBVIOUS
  <2>6. p3 \in Seq(W!Stages)
    BY DEF W!Stages
  <2>7. p3 # <<>> /\ Len(p3) = 1 /\ Head(p3) = "restore"
    OBVIOUS
  <2> HIDE DEF p1, p2, p3
  <2>8. CASE plan = p1
    <3>1. plan \in Seq(W!Stages) /\ plan # <<>> /\ Len(plan) \in Nat /\ Len(plan) # 1 /\ Head(plan) = "check"
      BY <2>2, <2>3, <2>8
    <3>2. Tail(plan) \in Courses(kind) /\ Head(Tail(plan)) = "mkroot"
      BY <2>1, <2>2, <2>3, <2>4, <2>5, <2>8
    <3>3. HasStage(kind, "check") /\ ~IsLast("check")
      BY <1>7 DEF HasStage, IsLast
    <3>4. Follows(kind, "check", "mkroot")
      BY <1>7 DEF Follows
    <3> QED
      BY <3>1, <3>2, <3>3, <3>4, Zenon
  <2>9. CASE plan = p2
    <3>1. plan \in Seq(W!Stages) /\ plan # <<>> /\ Len(plan) \in Nat /\ Len(plan) # 1 /\ Head(plan) = "mkroot"
      BY <2>4, <2>5, <2>9
    <3>2. Tail(plan) \in Courses(kind) /\ Head(Tail(plan)) = "restore"
      BY <2>1, <2>4, <2>5, <2>6, <2>7, <2>9
    <3>3. HasStage(kind, "mkroot") /\ ~IsLast("mkroot")
      BY <1>7 DEF HasStage, IsLast
    <3>4. Follows(kind, "mkroot", "restore")
      BY <1>7 DEF Follows
    <3> QED
      BY <3>1, <3>2, <3>3, <3>4, Zenon
  <2>10. CASE plan = p3
    <3>1. plan \in Seq(W!Stages) /\ plan # <<>> /\ Len(plan) \in Nat /\ Len(plan) = 1 /\ Head(plan) = "restore"
      BY <2>6, <2>7, <2>10
    <3>2. HasStage(kind, "restore") /\ IsLast("restore")
      BY <1>7 DEF HasStage, IsLast
    <3> QED
      BY <3>1, <3>2
  <2> QED
    BY <2>1, <2>8, <2>9, <2>10
<1>8. CASE kind \notin {"create", "branch", "detached", "remove", "rename", "archive", "delete", "repair"}
  BY <1>8 DEF Courses
<1> QED
  BY <1>1, <1>2, <1>3, <1>4, <1>5, <1>6, <1>7, <1>8

\* The kinds that have a stage.
LEMMA StageIs ==
  ASSUME NEW v, v.plan \in Courses(v.kind)
  PROVE  /\ v.kind \in {"create", "branch", "detached", "remove", "rename", "archive", "delete", "repair"}
         /\ Stage(v) \in {"mkdir", "insert"} => v.kind = "create"
         /\ Stage(v) = "attach" => v.kind \in {"create", "branch", "detached"}
         /\ Stage(v) = "remove" => v.kind \in {"remove", "delete"}
         /\ Stage(v) = "clean" => v.kind \in {"archive", "delete"}
         /\ Stage(v) = "detach" => v.kind = "archive"
         /\ Stage(v) \in {"move", "repair"} => v.kind \in {"rename", "archive"}
         /\ Stage(v) = "rm" => v.kind = "delete"
         /\ Stage(v) = "update" => v.kind \in {"branch", "detached", "remove", "rename", "archive", "delete"}
         /\ Stage(v) \in {"check", "mkroot", "restore"} => v.kind = "repair"
         /\ Stage(v) \in {"insert", "update", "restore"} <=> Len(v.plan) = 1
<1> DEFINE kind == v.kind
<1> DEFINE plan == v.plan
<1>1. plan \in Courses(kind)
  OBVIOUS
<1> HIDE DEF kind, plan
<1>2. HasStage(kind, Head(plan)) /\ (Len(plan) = 1 <=> IsLast(Head(plan)))
  BY <1>1, CourseIs
<1> DEFINE stage == Head(plan)
<1>3. Stage(v) = stage
  BY DEF Stage, plan
<1> HIDE DEF stage
<1>4. /\ stage \in {"mkdir", "insert"} => kind = "create"
      /\ stage = "attach" => kind \in {"create", "branch", "detached"}
      /\ stage = "remove" => kind \in {"remove", "delete"}
      /\ stage = "clean" => kind \in {"archive", "delete"}
      /\ stage = "detach" => kind = "archive"
      /\ stage \in {"move", "repair"} => kind \in {"rename", "archive"}
      /\ stage = "rm" => kind = "delete"
      /\ stage = "update" => kind \in {"branch", "detached", "remove", "rename", "archive", "delete"}
      /\ stage \in {"check", "mkroot", "restore"} => kind = "repair"
  BY <1>2 DEF stage, HasStage
<1> QED
  BY <1>2, <1>3, <1>4 DEF kind, plan, stage, HasStage, IsLast

\* Directories, and what is none.
LEMMA NothingIs ==
  /\ W!Roots = Names \cup WorkspaceIds /\ Nowhere \notin W!Roots /\ Names \cap WorkspaceIds = {}
  /\ \A n : W!ActiveRoot(n) = n /\ W!ArchiveRoot(n) = n
  /\ W!NoCheckout \in W!Checkout
  /\ W!NoCheckout.at = Nowhere /\ W!NoCheckout.on = Nowhere /\ W!NoCheckout.dirty = FALSE
  /\ W!NoRoot \in W!Root /\ W!NoRoot.exists = FALSE /\ \A r \in Repos : W!NoRoot.checkout[r] = W!NoCheckout
  /\ W!NoRow \in W!Row /\ W!NoRow.status = "none" /\ W!NoRow.root = Nowhere
  /\ W!Gone \in W!Row /\ W!Gone.status = "deleted"
<1>1. W!NoCheckout \in W!Checkout
  <2> DEFINE no == FALSE
  <2>1. no \in BOOLEAN
    OBVIOUS
  <2>2. [at |-> Nowhere, on |-> Nowhere, dirty |-> no] \in W!Checkout
    <3> HIDE DEF no
    <3> QED
      BY <2>1 DEF W!Checkout, W!Paths
  <2> QED
    BY <2>2 DEF W!NoCheckout
<1>2. W!NoRoot \in W!Root
  <2> DEFINE no == FALSE
  <2>1. no \in BOOLEAN
    OBVIOUS
  <2>2. [exists |-> no, checkout |-> [r \in Repos |-> W!NoCheckout]] \in W!Root
    <3> HIDE DEF no
    <3> QED
      BY <2>1, <1>1 DEF W!Root
  <2> QED
    BY <2>2 DEF W!NoRoot
<1>3. W!NoRow \in W!Row
  BY DEF W!NoRow, W!Row, W!Paths
<1>4. W!Gone \in W!Row /\ W!Gone.status = "deleted"
  BY <1>3 DEF W!Gone, W!Row, W!NoRow
<1>5. W!NoCheckout.at = Nowhere /\ W!NoCheckout.on = Nowhere /\ W!NoCheckout.dirty = FALSE
  BY Zenon DEF W!NoCheckout
<1>6. W!NoRoot.exists = FALSE /\ \A r \in Repos : W!NoRoot.checkout[r] = W!NoCheckout
  BY Zenon DEF W!NoRoot
<1>7. W!NoRow.status = "none" /\ W!NoRow.root = Nowhere
  BY DEF W!NoRow
<1> QED
  BY <1>1, <1>2, <1>3, <1>4, <1>5, <1>6, <1>7, WorkspacesAssumption DEF W!Roots, W!ActiveRoot, W!ArchiveRoot

\* No operation, and one of some kind.
LEMMA NoOpIs ==
  /\ W!NoOp \in W!Operation
  /\ W!NoOp.kind = "none" /\ W!NoOp.id = Nowhere /\ W!NoOp.id \notin WorkspaceIds
  /\ ~ByRow(W!NoOp)
<1> DEFINE no == FALSE
<1> DEFINE yes == TRUE
<1> DEFINE none == <<>>
<1>1. no \in BOOLEAN /\ yes \in BOOLEAN /\ none \in Seq(W!Stages)
  OBVIOUS
<1>2. W!NoOp = [kind |-> "none", id |-> Nowhere, w |-> W!NoRow, plan |-> none, todo |-> {},
              force |-> no, alone |-> yes, over |-> no]
  BY DEF W!NoOp
<1> HIDE DEF no, yes, none
<1> QED
  BY <1>1, <1>2, NothingIs, WorkspacesAssumption DEF W!Operation, W!Kinds, ByRow

\* The mode of one repository in a row.
WithMode(w, r, m) == [w EXCEPT !.mode[r] = m]
OneMode(n, w, r, m) ==
  /\ n \in W!Row
  /\ n.status = w.status /\ n.name = w.name /\ n.root = w.root /\ n.branch = w.branch
  /\ n.mode[r] = m
  /\ \A s \in Repos : s # r => W!On(n, s) = W!On(w, s) /\ (s \in W!Used(n) <=> s \in W!Used(w))
  /\ r \in W!Used(n) <=> m # "no"

\* Setting the mode of one repository changes the row in nothing else.
LEMMA ModeSet ==
  ASSUME NEW w \in W!Row, NEW r \in Repos, NEW m \in {"no", "branch", "detached"}
  PROVE  OneMode(WithMode(w, r, m), w, r, m)
<1> DEFINE n == [w EXCEPT !.mode[r] = m]
<1>1. /\ n \in W!Row
      /\ n.status = w.status /\ n.name = w.name /\ n.root = w.root /\ n.branch = w.branch
      /\ n.mode[r] = m /\ \A s \in Repos : s # r => n.mode[s] = w.mode[s]
  BY DEF W!Row
<1> HIDE DEF n
<1>2. /\ \A s \in Repos : s # r => W!On(n, s) = W!On(w, s) /\ (s \in W!Used(n) <=> s \in W!Used(w))
      /\ r \in W!Used(n) <=> m # "no"
  BY <1>1 DEF W!On, W!Used
<1>3. OneMode(n, w, r, m)
  BY <1>1, <1>2 DEF OneMode
<1> QED
  BY <1>3 DEF n, WithMode

-----------------------------------------------------------------------------
\* A directory with one checkout set, or added, and one that is made.
WithCheckout(d, p, r, c) == [d EXCEPT ![p].checkout[r] = c]
WithAdded(d, p, r, c) == [d EXCEPT ![p].exists = TRUE, ![p].checkout[r] = c]
WithDirectory(d, p) == [d EXCEPT ![p].exists = TRUE]

\* Setting one checkout leaves the other checkouts and which directories exist.
LEMMA CheckoutSet ==
  ASSUME NEW d \in [W!Roots -> W!Root], NEW p \in W!Roots, NEW r \in Repos, NEW c \in W!Checkout
  PROVE  LET e == WithCheckout(d, p, r, c)
         IN  /\ e \in [W!Roots -> W!Root]
             /\ e[p].checkout[r] = c
             /\ \A q \in W!Roots : e[q].exists = d[q].exists
             /\ \A q \in W!Roots, s \in Repos : q # p \/ s # r => e[q].checkout[s] = d[q].checkout[s]
  BY DEF W!Root, WithCheckout

\* So does adding one, but that its directory exists from then on.
LEMMA CheckoutAdded ==
  ASSUME NEW d \in [W!Roots -> W!Root], NEW p \in W!Roots, NEW r \in Repos, NEW c \in W!Checkout
  PROVE  LET e == WithAdded(d, p, r, c)
         IN  /\ e \in [W!Roots -> W!Root]
             /\ e[p].exists
             /\ e[p].checkout[r] = c
             /\ \A q \in W!Roots : q # p => e[q].exists = d[q].exists
             /\ \A q \in W!Roots, s \in Repos : q # p \/ s # r => e[q].checkout[s] = d[q].checkout[s]
<1> DEFINE yes == TRUE
<1>1. yes \in BOOLEAN /\ yes
  OBVIOUS
<1> HIDE DEF yes
<1> DEFINE f == [d EXCEPT ![p].exists = yes]
<1>2. /\ f \in [W!Roots -> W!Root]
      /\ f[p].exists
      /\ \A q \in W!Roots : q # p => f[q].exists = d[q].exists
      /\ \A q \in W!Roots, s \in Repos : f[q].checkout[s] = d[q].checkout[s]
  BY <1>1 DEF W!Root
<1>3. [d EXCEPT ![p].exists = TRUE, ![p].checkout[r] = c] = [f EXCEPT ![p].checkout[r] = c]
  BY DEF yes
<1> HIDE DEF f
<1> DEFINE g == [f EXCEPT ![p].checkout[r] = c]
<1>4. /\ g \in [W!Roots -> W!Root]
      /\ g[p].checkout[r] = c
      /\ \A q \in W!Roots : g[q].exists = f[q].exists
      /\ \A q \in W!Roots, s \in Repos : q # p \/ s # r => g[q].checkout[s] = f[q].checkout[s]
  BY <1>2 DEF W!Root
<1>5. [d EXCEPT ![p].exists = TRUE, ![p].checkout[r] = c] = g
  BY <1>3
<1> HIDE DEF g
<1>6. /\ g \in [W!Roots -> W!Root]
      /\ g[p].exists
      /\ g[p].checkout[r] = c
      /\ \A q \in W!Roots : q # p => g[q].exists = d[q].exists
      /\ \A q \in W!Roots, s \in Repos : q # p \/ s # r => g[q].checkout[s] = d[q].checkout[s]
  BY <1>2, <1>4
<1> QED
  BY <1>5, <1>6, Zenon DEF WithAdded

\* Making a directory leaves the checkouts as they are.
LEMMA DirectoryMade ==
  ASSUME NEW d \in [W!Roots -> W!Root], NEW p \in W!Roots
  PROVE  LET e == WithDirectory(d, p)
         IN  /\ e \in [W!Roots -> W!Root]
             /\ e[p].exists
             /\ \A q \in W!Roots : q # p => e[q].exists = d[q].exists
             /\ \A q \in W!Roots, s \in Repos : e[q].checkout[s] = d[q].checkout[s]
<1> DEFINE yes == TRUE
<1>1. yes \in BOOLEAN /\ yes
  OBVIOUS
<1> HIDE DEF yes
<1> DEFINE f == [d EXCEPT ![p].exists = yes]
<1>2. /\ f \in [W!Roots -> W!Root]
      /\ f[p].exists
      /\ \A q \in W!Roots : q # p => f[q].exists = d[q].exists
      /\ \A q \in W!Roots, s \in Repos : f[q].checkout[s] = d[q].checkout[s]
  BY <1>1 DEF W!Root
<1> QED
  BY <1>2 DEF yes, WithDirectory

\* The registrations that a mirror forgets.
LEMMA Forgotten ==
  ASSUME NEW d \in [W!Roots -> W!Root], NEW r \in Repos, NEW ps
  PROVE  LET e == W!Forget(d, r, ps)
         IN  /\ e \in [W!Roots -> W!Root]
             /\ \A q \in W!Roots : e[q].exists = d[q].exists
             /\ \A q \in W!Roots, s \in Repos :
                  /\ e[q].checkout[s].on = d[q].checkout[s].on /\ e[q].checkout[s].dirty = d[q].checkout[s].dirty
                  /\ e[q].checkout[s].at \in {d[q].checkout[s].at, Nowhere}
                  /\ d[q].checkout[s].at = q => e[q].checkout[s].at = q
                  /\ d[q].checkout[s].at \notin ps => e[q].checkout[s] = d[q].checkout[s]
                  /\ s # r => e[q].checkout[s] = d[q].checkout[s]
<1> DEFINE e == W!Forget(d, r, ps)
<1>1. \A q \in W!Roots :
        e[q] = IF d[q].checkout[r].at \in ps \ {q} THEN [d[q] EXCEPT !.checkout[r].at = Nowhere] ELSE d[q]
  BY DEF W!Forget
<1>2. \A q \in W!Roots :
        LET f == [d[q] EXCEPT !.checkout[r].at = Nowhere]
        IN  /\ f \in W!Root /\ f.exists = d[q].exists
            /\ f.checkout[r].on = d[q].checkout[r].on /\ f.checkout[r].dirty = d[q].checkout[r].dirty
            /\ f.checkout[r].at = Nowhere
            /\ \A s \in Repos : s # r => f.checkout[s] = d[q].checkout[s]
  <2> SUFFICES ASSUME NEW q \in W!Roots
               PROVE  LET f == [d[q] EXCEPT !.checkout[r].at = Nowhere]
                      IN  /\ f \in W!Root /\ f.exists = d[q].exists
                          /\ f.checkout[r].on = d[q].checkout[r].on /\ f.checkout[r].dirty = d[q].checkout[r].dirty
                          /\ f.checkout[r].at = Nowhere
                          /\ \A s \in Repos : s # r => f.checkout[s] = d[q].checkout[s]
    OBVIOUS
  <2> DEFINE c == [d[q].checkout[r] EXCEPT !.at = Nowhere]
  <2>1. d[q] \in W!Root /\ d[q].checkout[r] \in W!Checkout
    BY DEF W!Root
  <2>2. /\ c \in W!Checkout
        /\ c.on = d[q].checkout[r].on /\ c.dirty = d[q].checkout[r].dirty /\ c.at = Nowhere
    BY <2>1 DEF W!Checkout, W!Paths
  <2>3. [d[q] EXCEPT !.checkout[r].at = Nowhere] = [d[q] EXCEPT !.checkout[r] = c]
    BY <2>1 DEF W!Root
  <2> HIDE DEF c
  <2> DEFINE f == [d[q] EXCEPT !.checkout[r] = c]
  <2>4. /\ f \in W!Root /\ f.exists = d[q].exists /\ f.checkout[r] = c
        /\ \A s \in Repos : s # r => f.checkout[s] = d[q].checkout[s]
    BY <2>1, <2>2 DEF W!Root
  <2> HIDE DEF f
  <2>5. [d[q] EXCEPT !.checkout[r].at = Nowhere] = f
    BY <2>3 DEF f
  <2> QED
    BY <2>2, <2>4, <2>5
<1>3. \A q \in W!Roots : e[q] \in W!Root
  BY <1>1, <1>2
<1>4. e = [q \in W!Roots |-> e[q]]
  BY DEF W!Forget
<1>5. e \in [W!Roots -> W!Root]
  BY <1>3, <1>4
<1> HIDE DEF e
<1> QED
  <2>1. ASSUME NEW q \in W!Roots
        PROVE  /\ e[q].exists = d[q].exists
               /\ \A s \in Repos :
                    /\ e[q].checkout[s].on = d[q].checkout[s].on /\ e[q].checkout[s].dirty = d[q].checkout[s].dirty
                    /\ e[q].checkout[s].at \in {d[q].checkout[s].at, Nowhere}
                    /\ d[q].checkout[s].at = q => e[q].checkout[s].at = q
                    /\ d[q].checkout[s].at \notin ps => e[q].checkout[s] = d[q].checkout[s]
                    /\ s # r => e[q].checkout[s] = d[q].checkout[s]
    <3>1. CASE d[q].checkout[r].at \in ps \ {q}
      <4> DEFINE f == [d[q] EXCEPT !.checkout[r].at = Nowhere]
      <4>1. e[q] = f
        BY <3>1, <1>1
      <4>2. /\ f.exists = d[q].exists
            /\ f.checkout[r].on = d[q].checkout[r].on /\ f.checkout[r].dirty = d[q].checkout[r].dirty
            /\ f.checkout[r].at = Nowhere
            /\ \A s \in Repos : s # r => f.checkout[s] = d[q].checkout[s]
        BY <1>2
      <4> HIDE DEF f
      <4> QED
        BY <3>1, <4>1, <4>2
    <3>2. CASE d[q].checkout[r].at \notin ps \ {q}
      <4>1. e[q] = d[q]
        BY <3>2, <1>1
      <4> QED
        BY <4>1
    <3> QED
      BY <3>1, <3>2
  <2> QED
    BY <1>5, <2>1 DEF e

-----------------------------------------------------------------------------
\* What a directory keeps while others work elsewhere: a mirror may forget a
\* checkout that was registered in another place.
Still(d, e, q) ==
  /\ e[q].exists = d[q].exists
  /\ \A s \in Repos : /\ e[q].checkout[s].on = d[q].checkout[s].on
                      /\ e[q].checkout[s].at \in {d[q].checkout[s].at, Nowhere}
                      /\ d[q].checkout[s].at = q => e[q].checkout[s].at = q

\* What it keeps while someone works in it, but moves nothing there.
Homeward(d, e, q) ==
  \A s \in Repos : e[q].checkout[s].at \in {d[q].checkout[s].at, Nowhere, q}

\* What a row says of its directory stays true while the directory keeps what
\* it has.
LEMMA RowStaysWhere ==
  ASSUME NEW d, NEW e, NEW w
  PROVE  /\ \A i, os, os2 : Still(d, e, w.root) /\ FitsRow(d, os, i, w) /\ (i \in os => i \in os2) =>
              FitsRow(e, os2, i, w)
         /\ \A rs : Still(d, e, w.root) /\ AtHome(d, w, rs) => AtHome(e, w, rs)
         /\ \A rs : Still(d, e, w.root) /\ NotElsewhere(d, w, rs) => NotElsewhere(e, w, rs)
         /\ \A rs : Homeward(d, e, w.root) /\ NotElsewhere(d, w, rs) => NotElsewhere(e, w, rs)
<1>1. W!Used(w) \subseteq Repos
  BY DEF W!Used
<1> QED
  BY <1>1 DEF Still, Homeward, FitsRow, AtHome, NotElsewhere

\* So does what an operation has made of its own, and a workspace more that is
\* disturbed asks less.
LEMMA OpStandsStill ==
  ASSUME NEW d, NEW e, NEW ds, NEW ms, NEW os, NEW ds2, NEW ms2, NEW os2, NEW v,
         Still(d, e, v.w.root), OpStands(d, ds, ms, os, v),
         v.id \in ds => v.id \in ds2, v.id \in ms => v.id \in ms2, v.id \in os => v.id \in os2
  PROVE  OpStands(e, ds2, ms2, os2, v)
<1>1. W!Used(v.w) \subseteq Repos
  BY DEF W!Used
<1>2. Content(d, os, v) => Content(e, os2, v)
  <2>1. FitsRow(d, os, v.id, v.w) => FitsRow(e, os2, v.id, v.w)
    BY RowStaysWhere
  <2>2. \A r \in Repos : Has(e, v.w.root, r) <=> Has(d, v.w.root, r)
    BY DEF Still, Has
  <2>3. d[v.w.root].exists => e[v.w.root].exists
    BY DEF Still
  <2>4. \A r \in Repos : e[v.w.root].checkout[r].on = d[v.w.root].checkout[r].on
    BY DEF Still
  <2> QED
    BY <1>1, <2>1, <2>2, <2>3, <2>4 DEF Content
<1> QED
  BY <1>2, RowStaysWhere DEF OpStands

\* The directories of an operation are its workspace's or have names.
LEMMA PlacesAre ==
  ASSUME NEW v, OpIsSound(v)
  PROVE  /\ W!Places(v.w) \subseteq Names \cup {v.id} /\ v.w.root \in W!Places(v.w)
         /\ v.w.root \in W!Roots /\ W!Places(v.w) \subseteq W!Roots
         /\ v.w.status = "active" => v.w.name \in W!Places(v.w)
  BY NothingIs DEF OpIsSound, W!Places, W!Roots, W!ActiveRoot

\* A live row has a directory of its own name or of its id.
LEMMA RootIs ==
  ASSUME NEW w, NEW i \in WorkspaceIds, RowIsSound(w, i), Live(w)
  PROVE  w.root \in Names \cup {i} /\ w.root \in W!Roots
  BY NothingIs DEF RowIsSound, Live, W!Roots

\* Operation o goes on in directories that are its own.
GoesAs(o) ==
  LET v == op[o]
      n == op'[o]
  IN /\ v # W!NoOp
     /\ op' \in [Ops -> W!Operation] /\ \A p \in Ops : p # o => op'[p] = op[p]
     /\ missing' \in [Repos -> SUBSET [at : W!Roots, on : Names \cup {Detached}]]
     /\ rowOf' = rowOf /\ everMet' = everMet /\ disturbed' = disturbed /\ overlooked' = overlooked
     /\ DiskIsSound(disk')
     /\ n.kind = v.kind /\ n.id = v.id /\ n.alone = v.alone
     /\ OpIsSound(n)
     /\ W!Places(n.w) \subseteq W!Places(v.w) \cup {v.id}
     /\ v.kind = "repair" => n.w = v.w
     /\ ToMove(n) => ToMove(v) /\ n.w.root = v.w.root
     /\ \A q \in W!Roots \ (W!Places(v.w) \cup {v.id}) : Still(disk, disk', q)
     /\ v.id \notin everMet /\ Live(rowOf[v.id]) => Homeward(disk, disk', rowOf[v.id].root)
     /\ OpStands(disk', disturbed, everMet, overlooked, n)

\* An operation that goes on in its own directories keeps the invariant: those
\* of a workspace that is apart from it are not among them.
LEMMA Goes ==
  ASSUME NEW o \in Ops, WorkspacesOK, GoesAs(o)
  PROVE  WorkspacesOK'
<1> DEFINE v == op[o]
<1> DEFINE n == op'[o]
<1>1. /\ W!TypeOK /\ op \in [Ops -> W!Operation]
      /\ OpIsSound(v) /\ v.id \in WorkspaceIds
      /\ \A p \in Ops : op[p].id \in WorkspaceIds => OpIsSound(op[p])
  <2>1. W!TypeOK /\ op \in [Ops -> W!Operation] /\ v # W!NoOp
    BY DEF WorkspacesOK, Sound, W!TypeOK, GoesAs
  <2>2. OpIsSound(v) /\ v.id \in WorkspaceIds
    BY <2>1 DEF WorkspacesOK, Sound, OpIsSound
  <2>3. \A p \in Ops : op[p].id \in WorkspaceIds => OpIsSound(op[p])
    BY NoOpIs DEF WorkspacesOK, Sound
  <2> QED
    BY <2>1, <2>2, <2>3
<1>2. \A p \in Ops : op'[p].id = op[p].id /\ op'[p].kind = op[p].kind /\ op'[p].alone = op[p].alone
  BY DEF GoesAs
<1>3. /\ \A i \in WorkspaceIds : RowIsSound(rowOf[i], i)
      /\ \A i \in WorkspaceIds : Clear(i) => IsApart(i)
  BY DEF WorkspacesOK, Sound, Apart
<1>4. rowOf' = rowOf /\ everMet' = everMet /\ disturbed' = disturbed /\ overlooked' = overlooked
  BY DEF GoesAs
<1>5. Sound'
  <2>1. W!TypeOK'
    BY <1>1 DEF GoesAs, W!TypeOK, DiskIsSound
  <2>2. \A p \in Ops : op'[p] = W!NoOp \/ OpIsSound(op'[p])
    BY DEF GoesAs, WorkspacesOK, Sound
  <2>3. DiskIsSound(disk')
    BY DEF GoesAs
  <2>4. /\ \A i \in WorkspaceIds : RowIsSound(rowOf[i], i)'
        /\ \A i, j \in WorkspaceIds :
             rowOf'[i].status = "active" /\ rowOf'[j].status = "active" /\ rowOf'[i].name = rowOf'[j].name => i = j
    BY <1>4 DEF WorkspacesOK, Sound
  <2>5. /\ \A p \in Ops : op'[p].id \in WorkspaceIds => (op'[p].kind = "create" <=> rowOf'[op'[p].id].status = "none")
        /\ \A p, q \in Ops : op'[p].kind = "create" /\ op'[q].id = op'[p].id => q = p
    BY <1>2, <1>4 DEF WorkspacesOK, Sound
  <2>6. (W!NoOp)' = W!NoOp
    BY DEF W!NoOp, W!NoRow
  <2> QED
    BY <2>1, <2>2, <2>3, <2>4, <2>5, <2>6, Zenon DEF Sound, OpIsSound, RowIsSound, DiskIsSound, Has
<1>6. \A i \in WorkspaceIds : Clear(i)' => Clear(i)
  BY <1>2, <1>4 DEF Clear, ByRow
<1>7. ASSUME NEW i \in WorkspaceIds, Clear(i)'
      PROVE  IsApart(i)'
  <2>1. IsApart(i) /\ RowIsSound(rowOf[i], i)
    BY <1>3, <1>6, <1>7
  <2>2. /\ W!Places(n.w) \subseteq W!Places(v.w) \cup {v.id}
        /\ n.id = v.id /\ v.id \in WorkspaceIds
    BY <1>1 DEF GoesAs
  <2>3. \A p, q \in Ops : op'[p].id = i /\ op'[q].id = i => p = q
    BY <2>1, <1>2 DEF IsApart
  <2>4. \A p \in Ops : op'[p].id \in WorkspaceIds \ {i} /\ Live(rowOf[i]) => rowOf[i].root \notin W!Places(op'[p].w)
    <3> SUFFICES ASSUME NEW p \in Ops, op'[p].id \in WorkspaceIds \ {i}, Live(rowOf[i])
                 PROVE  rowOf[i].root \notin W!Places(op'[p].w)
      OBVIOUS
    <3>1. rowOf[i].root \notin W!Places(op[p].w) /\ op[p].id # i
      BY <1>2, <2>1 DEF IsApart
    <3>2. rowOf[i].root \in Names \cup {i}
      BY <2>1, RootIs
    <3>3. CASE p = o
      BY <3>1, <3>2, <3>3, <2>2, NothingIs
    <3>4. CASE p # o
      BY <3>1, <3>4 DEF GoesAs
    <3> QED
      BY <3>3, <3>4
  <2>5. \A p, q \in Ops : op'[p].id = i /\ op'[q].id \in WorkspaceIds \ {i} =>
          W!Places(op'[p].w) \cap W!Places(op'[q].w) = {}
    <3> SUFFICES ASSUME NEW p \in Ops, NEW q \in Ops, op'[p].id = i, op'[q].id \in WorkspaceIds \ {i}
                 PROVE  W!Places(op'[p].w) \cap W!Places(op'[q].w) = {}
      OBVIOUS
    <3>1. /\ op[p].id = i /\ op[q].id \in WorkspaceIds \ {i} /\ p # q
          /\ W!Places(op[p].w) \cap W!Places(op[q].w) = {}
      BY <1>2, <2>1 DEF IsApart
    <3>2. W!Places(op[p].w) \subseteq Names \cup {i} /\ W!Places(op[q].w) \subseteq Names \cup {op[q].id}
      BY <3>1, <1>1, PlacesAre
    <3>3. CASE p = o
      <4>1. op'[q] = op[q]
        BY <3>1, <3>3 DEF GoesAs
      <4> QED
        BY <4>1, <3>1, <3>2, <3>3, <2>2, NothingIs
    <3>4. CASE q = o
      <4>1. op'[p] = op[p]
        BY <3>1, <3>4 DEF GoesAs
      <4> QED
        BY <4>1, <3>1, <3>2, <3>4, <2>2, NothingIs
    <3>5. CASE p # o /\ q # o
      BY <3>1, <3>5 DEF GoesAs
    <3> QED
      BY <3>3, <3>4, <3>5
  <2> QED
    BY <2>3, <2>4, <2>5, <1>4 DEF IsApart, W!Places, Live, W!ActiveRoot
<1>8. Apart'
  <2>1. \A p \in Ops : op'[p].kind = "repair" /\ ~op'[p].alone => op'[p].id \in disturbed' /\ op'[p].id \in everMet'
    BY <1>2, <1>4 DEF WorkspacesOK, Apart
  <2>2. \A p \in Ops : ByRow(op'[p]) => op'[p].w = rowOf'[op'[p].id]
    <3> SUFFICES ASSUME NEW p \in Ops, ByRow(op'[p])
                 PROVE  op'[p].w = rowOf'[op'[p].id]
      OBVIOUS
    <3>1. ByRow(op[p]) /\ op[p].w = rowOf[op[p].id]
      BY <1>2 DEF ByRow, WorkspacesOK, Apart
    <3>2. op'[p].w = op[p].w
      BY <3>1 DEF GoesAs, ByRow
    <3> QED
      BY <3>1, <3>2, <1>2, <1>4
  <2>3. \A p \in Ops : op'[p].id \in WorkspaceIds \ everMet' /\ ToMove(op'[p]) => op'[p].w.root = rowOf'[op'[p].id].root
    <3> SUFFICES ASSUME NEW p \in Ops, op'[p].id \in WorkspaceIds \ everMet', ToMove(op'[p])
                 PROVE  op'[p].w.root = rowOf'[op'[p].id].root
      OBVIOUS
    <3>1. ToMove(op[p]) /\ op'[p].w.root = op[p].w.root
      BY DEF GoesAs
    <3> QED
      BY <3>1, <1>2, <1>4 DEF WorkspacesOK, Apart
  <2> QED
    BY <1>7, <2>1, <2>2, <2>3 DEF Apart, ByRow, ToMove, Stage
\* The directories of those that are apart are not among the operation's.
<1>9. \A q \in W!Roots : q \notin W!Places(v.w) /\ q # v.id => Still(disk, disk', q)
  BY DEF GoesAs
<1>10. Stands'
  <2>1. ASSUME NEW p \in Ops, op'[p].id \in WorkspaceIds
        PROVE  OpStands(disk', disturbed, everMet, overlooked, op'[p])
    <3>1. CASE p = o
      BY <3>1 DEF GoesAs
    <3>2. CASE p # o
      <4> DEFINE m == op[p]
      <4>1. op'[p] = m /\ m.id \in WorkspaceIds /\ OpIsSound(m) /\ OpStands(disk, disturbed, everMet, overlooked, m)
        BY <3>2, <2>1, <1>1 DEF GoesAs, WorkspacesOK, Stands
      <4>2. CASE m.id \in disturbed /\ m.id \in everMet /\ ~ByRow(m)
        BY <4>1, <4>2 DEF OpStands
      <4>3. CASE ~(m.id \in disturbed /\ m.id \in everMet /\ ~ByRow(m))
        <5>1. IsApart(m.id)
          BY <4>1, <4>3, <1>3 DEF Clear
        <5>2. v.id # m.id /\ W!Places(m.w) \cap W!Places(v.w) = {}
          BY <5>1, <4>1, <3>2, <1>1 DEF IsApart
        <5>3. m.w.root \in W!Roots /\ m.w.root \notin W!Places(v.w) /\ m.w.root # v.id
          BY <5>2, <4>1, <1>1, PlacesAre, NothingIs
        <5>4. Still(disk, disk', m.w.root)
          BY <5>3, <1>9
        <5> QED
          BY <5>4, <4>1, OpStandsStill
      <4> QED
        BY <4>2, <4>3
    <3> QED
      BY <3>1, <3>2
  <2>2. ASSUME NEW i \in WorkspaceIds
        PROVE  RowStands(i)'
    <3>1. RowStands(i) /\ (Idle(i)' <=> Idle(i))
      BY <1>2 DEF WorkspacesOK, Stands, Idle
    <3> SUFFICES ASSUME Live(rowOf[i])
                 PROVE  /\ i \notin disturbed /\ Idle(i) => FitsRow(disk', overlooked, i, rowOf[i])
                        /\ i \notin everMet => NotElsewhere(disk', rowOf[i], {})
                        /\ i \notin disturbed /\ i \notin everMet /\ Idle(i) => AtHome(disk', rowOf[i], {})
      BY <3>1, <1>4 DEF RowStands, Live, FitsRow, NotElsewhere, AtHome, W!Used, W!On
    <3>2. CASE i = v.id
      <4>1. ~Idle(i)
        BY <3>2 DEF Idle
      <4>2. i \notin everMet => Homeward(disk, disk', rowOf[i].root)
        BY <3>2 DEF GoesAs
      <4> QED
        BY <4>1, <4>2, <3>1, RowStaysWhere DEF RowStands
    <3>3. CASE i # v.id /\ i \in disturbed /\ i \in everMet
      BY <3>3
    <3>4. CASE i # v.id /\ ~(i \in disturbed /\ i \in everMet)
      <4>1. IsApart(i) /\ RowIsSound(rowOf[i], i)
        BY <3>4, <1>3 DEF Clear
      <4>2. rowOf[i].root \in W!Roots /\ rowOf[i].root \notin W!Places(v.w) /\ rowOf[i].root # v.id
        BY <4>1, <3>4, <1>1, RootIs, NothingIs DEF IsApart
      <4>3. Still(disk, disk', rowOf[i].root)
        BY <4>2, <1>9
      <4> QED
        BY <4>3, <3>1, RowStaysWhere DEF RowStands
    <3> QED
      BY <3>2, <3>3, <3>4
  <2> QED
    BY <2>1, <2>2, <1>4 DEF Stands, OpStands, Content, FitsRow, AtHome, NotElsewhere, Has, W!Used, W!On, ByRow, Stage, Unmoved
<1> QED
  BY <1>5, <1>8, <1>10 DEF WorkspacesOK

-----------------------------------------------------------------------------
\* What Proceed makes of an operation.
LEMMA ProceedIs ==
  ASSUME NEW o \in Ops, op \in [Ops -> W!Operation], op[o].plan \in Courses(op[o].kind),
         NEW w \in W!Row, NEW todo \in SUBSET Repos, W!Proceed(o, w, todo)
  PROVE  /\ op' \in [Ops -> W!Operation] /\ \A p \in Ops : p # o => op'[p] = op[p]
         /\ todo # {} \/ Len(op[o].plan) # 1 =>
              /\ op'[o].kind = op[o].kind /\ op'[o].id = op[o].id /\ op'[o].alone = op[o].alone
              /\ op'[o].w = w /\ op'[o].force = op[o].force /\ op'[o].over = op[o].over
         /\ todo # {} => op'[o].plan = op[o].plan /\ op'[o].todo = todo
         /\ todo = {} /\ Len(op[o].plan) # 1 => op'[o].plan = Tail(op[o].plan) /\ op'[o].todo = W!Used(w)
         /\ todo = {} /\ Len(op[o].plan) = 1 => op'[o] = W!NoOp
<1> DEFINE v == op[o]
<1> DEFINE n == IF todo # {} THEN [v EXCEPT !.w = w, !.todo = todo]
                ELSE IF Len(v.plan) = 1 THEN W!NoOp
                ELSE [v EXCEPT !.w = w, !.todo = W!Used(w), !.plan = Tail(v.plan)]
<1>1. v \in W!Operation
  OBVIOUS
<1>2. op' = [op EXCEPT ![o] = n]
  BY DEF W!Proceed
<1>3. /\ todo # {} => n = [v EXCEPT !.w = w, !.todo = todo]
      /\ todo = {} /\ Len(v.plan) = 1 => n = W!NoOp
      /\ todo = {} /\ Len(v.plan) # 1 => n = [v EXCEPT !.w = w, !.todo = W!Used(w), !.plan = Tail(v.plan)]
  BY Zenon
<1> HIDE DEF n
<1>4. op'[o] = n /\ (n \in W!Operation => op' \in [Ops -> W!Operation]) /\ \A p \in Ops : p # o => op'[p] = op[p]
  BY <1>2
<1>5. CASE todo # {}
  <2>1. /\ n \in W!Operation /\ n.kind = v.kind /\ n.id = v.id /\ n.alone = v.alone /\ n.plan = v.plan
        /\ n.w = w /\ n.todo = todo /\ n.force = v.force /\ n.over = v.over
    <3>1. n = [v EXCEPT !.w = w, !.todo = todo]
      BY <1>3, <1>5
    <3> HIDE DEF v
    <3> QED
      BY <1>1, <3>1 DEF W!Operation
  <2> QED
    BY <1>5, <1>4, <2>1
<1>6. CASE todo = {} /\ Len(v.plan) # 1
  <2> DEFINE plan == Tail(v.plan)
  <2> DEFINE all == W!Used(w)
  <2>1. n = [v EXCEPT !.w = w, !.todo = all, !.plan = plan]
    BY <1>3, <1>6
  <2>2. all \in SUBSET Repos
    BY DEF W!Used
  <2>3. plan \in Seq(W!Stages)
    BY <1>6, CourseIs
  <2> HIDE DEF plan, all
  <2>4. /\ n \in W!Operation /\ n.kind = v.kind /\ n.id = v.id /\ n.alone = v.alone /\ n.plan = plan
        /\ n.w = w /\ n.todo = all /\ n.force = v.force /\ n.over = v.over
    <3> HIDE DEF v
    <3> QED
      BY <1>1, <2>1, <2>2, <2>3 DEF W!Operation
  <2> QED
    BY <1>6, <1>4, <2>4 DEF plan, all
<1>7. CASE todo = {} /\ Len(v.plan) = 1
  BY <1>7, <1>3, <1>4, NoOpIs
<1> QED
  BY <1>5, <1>6, <1>7

\* A stage for each repository goes on, or the next begins: what stands of the
\* operation with what is left to do stands of it then.
LEMMA StageDone ==
  ASSUME NEW o \in Ops, op \in [Ops -> W!Operation], OpIsSound(op[o]),
         NEW w \in W!Row, NEW todo \in SUBSET Repos, W!Proceed(o, w, todo),
         w.root = op[o].w.root, w.status = op[o].w.status, w.name = op[o].w.name, w.branch = op[o].w.branch,
         Stage(op[o]) \in {"attach", "remove", "detach", "repair"},
         Stage(op[o]) = "detach" => todo \subseteq W!Used(w),
         NEW m, m.kind = op[o].kind, m.id = op[o].id, m.plan = op[o].plan, m.alone = op[o].alone,
         m.w = w, m.todo = todo, OpStands(disk', disturbed, everMet, overlooked, m)
  PROVE  /\ op' \in [Ops -> W!Operation] /\ \A p \in Ops : p # o => op'[p] = op[p]
         /\ op'[o].kind = op[o].kind /\ op'[o].id = op[o].id /\ op'[o].alone = op[o].alone
         /\ op'[o].w = w /\ OpIsSound(op'[o])
         /\ W!Places(op'[o].w) \subseteq W!Places(op[o].w)
         /\ op[o].kind # "repair"
         /\ ToMove(op'[o]) => ToMove(op[o])
         /\ OpStands(disk', disturbed, everMet, overlooked, op'[o])
<1> DEFINE v == op[o]
<1> DEFINE n == op'[o]
<1>1. v \in W!Operation /\ v.plan \in Courses(v.kind)
  BY DEF OpIsSound
<1>2. /\ v.kind \in {"create", "branch", "detached", "remove", "rename", "archive", "delete", "repair"}
      /\ v.kind # "repair" /\ Len(v.plan) # 1
      /\ Stage(v) = "attach" => v.kind \in {"create", "branch", "detached"}
      /\ Stage(v) = "remove" => v.kind \in {"remove", "delete"}
      /\ Stage(v) = "detach" => v.kind = "archive"
      /\ Stage(v) = "repair" => v.kind \in {"rename", "archive"}
  <2> HIDE DEF v
  <2>1. Stage(v) \in {"attach", "remove", "detach", "repair"}
    BY DEF v
  <2> QED
    BY <1>1, <2>1, StageIs
<1>3. /\ Tail(v.plan) \in Courses(v.kind)
      /\ Stage(v) = "attach" => Head(Tail(v.plan)) \in {"insert", "update"}
      /\ Stage(v) = "remove" /\ v.kind = "delete" => Head(Tail(v.plan)) = "rm"
      /\ Stage(v) = "remove" /\ v.kind # "delete" => Head(Tail(v.plan)) = "update"
      /\ Stage(v) = "detach" => Head(Tail(v.plan)) = "move"
      /\ Stage(v) = "repair" => Head(Tail(v.plan)) = "update"
  <2> HIDE DEF v
  <2> QED
    BY <1>1, <1>2, CourseIs DEF Stage, Follows
<1>4. /\ op' \in [Ops -> W!Operation] /\ \A p \in Ops : p # o => op'[p] = op[p]
      /\ n.kind = v.kind /\ n.id = v.id /\ n.alone = v.alone /\ n.w = w
      /\ todo # {} => n.plan = v.plan /\ n.todo = todo
      /\ todo = {} => n.plan = Tail(v.plan) /\ n.todo = W!Used(w)
  BY <1>1, <1>2, ProceedIs
<1>5. W!Places(n.w) \subseteq W!Places(v.w)
  BY <1>4 DEF W!Places
<1>6. Stage(m) = Stage(v) /\ (ByRow(m) <=> ByRow(v)) /\ ~ByRow(v) /\ ~ByRow(n)
  BY <1>2, <1>4 DEF Stage, ByRow
<1> HIDE DEF n
<1>7. CASE todo # {}
  <2>1. OpIsSound(n)
    BY <1>4, <1>7 DEF OpIsSound, Stage
  <2>2. OpStands(disk', disturbed, everMet, overlooked, n)
    <3>1. Stage(n) = Stage(m) /\ n.kind = m.kind /\ n.w = m.w /\ n.todo = m.todo /\ n.id = m.id
      BY <1>4, <1>7 DEF Stage
    <3>2. Unmoved(n) = Unmoved(m)
      BY <3>1 DEF Unmoved
    <3>3. Content(disk', overlooked, m) => Content(disk', overlooked, n)
      BY <1>2, <3>1 DEF Content
    <3> QED
      BY <1>6, <3>1, <3>2, <3>3 DEF OpStands
  <2>3. ToMove(n) => ToMove(v)
    BY <1>4, <1>7 DEF ToMove, Stage
  <2> QED
    BY <1>2, <1>4, <1>5, <2>1, <2>2, <2>3 DEF n
<1>8. CASE todo = {}
  <2>1. n.plan = Tail(v.plan) /\ Stage(n) = Head(Tail(v.plan))
    BY <1>4, <1>8 DEF Stage
  <2>2. OpIsSound(n)
    BY <1>2, <1>3, <1>4, <2>1 DEF OpIsSound
  <2>3. ToMove(n) => ToMove(v)
    BY <1>2, <1>3, <1>4, <2>1 DEF ToMove
  <2>4. Unmoved(m) = {} /\ Unmoved(n) = {}
    BY <1>3, <1>2, <1>8, <2>1 DEF Unmoved
  <2>5. Content(disk', overlooked, m) => Content(disk', overlooked, n)
    BY <1>2, <1>3, <1>4, <1>6, <1>8, <2>1 DEF Content
  <2>6. OpStands(disk', disturbed, everMet, overlooked, n)
    BY <1>2, <1>4, <1>6, <2>4, <2>5 DEF OpStands
  <2> QED
    BY <1>2, <1>4, <1>5, <2>2, <2>3, <2>6 DEF n
<1> QED
  BY <1>7, <1>8

-----------------------------------------------------------------------------
\* An operation that runs.
LEMMA OpRuns ==
  ASSUME NEW o \in Ops, WorkspacesOK, op[o] # W!NoOp
  PROVE  /\ W!TypeOK /\ op \in [Ops -> W!Operation] /\ disk \in [W!Roots -> W!Root] /\ DiskIsSound(disk)
         /\ missing \in [Repos -> SUBSET [at : W!Roots, on : Names \cup {Detached}]]
         /\ op[o] \in W!Operation /\ OpIsSound(op[o]) /\ OpStands(disk, disturbed, everMet, overlooked, op[o])
         /\ op[o].plan \in Courses(op[o].kind) /\ op[o].id \in WorkspaceIds
         /\ op[o].w \in W!Row /\ op[o].todo \in SUBSET Repos
         /\ op[o].w.root \in W!Roots /\ op[o].w.root \in W!Places(op[o].w)
         /\ op[o].w.root # Nowhere /\ op[o].w.name \in Names
         /\ Live(rowOf[op[o].id]) => rowOf[op[o].id].root \in W!Roots
<1>1. /\ W!TypeOK /\ op \in [Ops -> W!Operation] /\ DiskIsSound(disk) /\ OpIsSound(op[o])
      /\ missing \in [Repos -> SUBSET [at : W!Roots, on : Names \cup {Detached}]]
  BY DEF WorkspacesOK, Sound, W!TypeOK
<1>2. op[o] \in W!Operation /\ op[o].w \in W!Row /\ op[o].todo \in SUBSET Repos /\ disk \in [W!Roots -> W!Root]
  BY <1>1 DEF W!Operation, DiskIsSound
<1>3. op[o].plan \in Courses(op[o].kind) /\ op[o].id \in WorkspaceIds /\ op[o].w.name \in Names
  BY <1>1 DEF OpIsSound
<1>4. op[o].w.root \in W!Roots /\ op[o].w.root \in W!Places(op[o].w) /\ op[o].w.root # Nowhere
  BY <1>1, PlacesAre, NothingIs
<1>5. OpStands(disk, disturbed, everMet, overlooked, op[o])
  BY <1>3 DEF WorkspacesOK, Stands
<1>6. Live(rowOf[op[o].id]) => rowOf[op[o].id].root \in W!Roots
  BY <1>3, RootIs DEF WorkspacesOK, Sound
<1> QED
  BY <1>1, <1>2, <1>3, <1>4, <1>5, <1>6

\* The repositories of a row are registered.
LEMMA UsedIs ==
  ASSUME NEW w
  PROVE  W!Used(w) \subseteq Repos
BY DEF W!Used

\* One checkout of a directory is set: what the others are, and what stands of
\* a row that differs in its repository only.
LEMMA OneCheckout ==
  ASSUME NEW d, DiskIsSound(d), NEW e \in [W!Roots -> W!Root], NEW p \in W!Roots, NEW r \in Repos,
         e[p].exists, Has(e, p, r) \/ e[p].checkout[r] = W!NoCheckout,
         \A q \in W!Roots : q # p => e[q].exists = d[q].exists,
         \A q \in W!Roots, s \in Repos : q # p \/ s # r => e[q].checkout[s] = d[q].checkout[s],
         e[p].checkout[r].at \in {d[p].checkout[r].at, Nowhere, p}
  PROVE  /\ DiskIsSound(e)
         /\ \A q \in W!Roots : q # p => Still(d, e, q)
         /\ \A q \in W!Roots : Homeward(d, e, q)
<1>1. DiskIsSound(e)
  <2>1. \A q \in W!Roots, s \in Repos : Has(e, q, s) => e[q].exists
    BY DEF DiskIsSound, Has
  <2>2. \A q \in W!Roots, s \in Repos : ~Has(e, q, s) => e[q].checkout[s] = W!NoCheckout
    BY DEF DiskIsSound, Has
  <2> QED
    BY <2>1, <2>2 DEF DiskIsSound
<1>2. \A q \in W!Roots : q # p => Still(d, e, q)
  BY DEF Still
<1>3. \A q \in W!Roots : Homeward(d, e, q)
  BY DEF Homeward
<1> QED
  BY <1>1, <1>2, <1>3

\* The end of a step in a stage for each repository.
LEMMA StageGoes ==
  ASSUME NEW o \in Ops, WorkspacesOK, op[o] # W!NoOp,
         NEW w \in W!Row, NEW todo \in SUBSET Repos, W!Proceed(o, w, todo),
         w.root = op[o].w.root, w.status = op[o].w.status, w.name = op[o].w.name, w.branch = op[o].w.branch,
         Stage(op[o]) \in {"attach", "remove", "detach", "repair"},
         Stage(op[o]) = "detach" => todo \subseteq W!Used(w),
         NEW m, m.kind = op[o].kind, m.id = op[o].id, m.plan = op[o].plan, m.alone = op[o].alone,
         m.w = w, m.todo = todo, OpStands(disk', disturbed, everMet, overlooked, m),
         DiskIsSound(disk'), \A q \in W!Roots : q # w.root => Still(disk, disk', q),
         \A q \in W!Roots : Homeward(disk, disk', q),
         missing' \in [Repos -> SUBSET [at : W!Roots, on : Names \cup {Detached}]],
         UNCHANGED <<rowOf, disturbed, everMet, overlooked>>
  PROVE  GoesAs(o)
<1>1. /\ op \in [Ops -> W!Operation] /\ OpIsSound(op[o]) /\ op[o].w.root \in W!Places(op[o].w)
      /\ Live(rowOf[op[o].id]) => rowOf[op[o].id].root \in W!Roots
  BY OpRuns
<1>2. /\ op' \in [Ops -> W!Operation] /\ \A p \in Ops : p # o => op'[p] = op[p]
      /\ op'[o].kind = op[o].kind /\ op'[o].id = op[o].id /\ op'[o].alone = op[o].alone
      /\ op'[o].w = w /\ OpIsSound(op'[o])
      /\ W!Places(op'[o].w) \subseteq W!Places(op[o].w)
      /\ op[o].kind # "repair"
      /\ ToMove(op'[o]) => ToMove(op[o])
      /\ OpStands(disk', disturbed, everMet, overlooked, op'[o])
  BY <1>1, StageDone
<1> QED
  BY <1>1, <1>2 DEF GoesAs

\* A worktree that was added is where it is registered, on the branch of the
\* workspace or detached.
LEMMA AttachGoes ==
  ASSUME NEW o \in Ops, WorkspacesOK, op[o] # W!NoOp, W!Attach(o)
  PROVE  GoesAs(o)
<1> DEFINE v == op[o]
<1> DEFINE p == v.w.root
<1> DEFINE mode == IF v.kind = "detached" THEN "detached" ELSE "branch"
<1>1. PICK r \in v.todo :
        LET w == [v.w EXCEPT !.mode[r] = mode] IN
        /\ W!Running(o, "attach") /\ W!Addable(w.root, r, W!On(w, r))
        /\ W!Added(w.root, r, W!On(w, r)) /\ W!Done(o, r, w)
        /\ UNCHANGED <<rowOf, missing, disturbed, everMet, overlooked, troubles>>
  BY DEF W!Attach
<1>2. /\ DiskIsSound(disk) /\ disk \in [W!Roots -> W!Root] /\ v \in W!Operation /\ OpIsSound(v)
      /\ OpStands(disk, disturbed, everMet, overlooked, v) /\ v.w \in W!Row /\ r \in Repos
      /\ v.todo \in SUBSET Repos /\ p \in W!Roots /\ p # Nowhere
      /\ v.plan \in Courses(v.kind)
      /\ missing \in [Repos -> SUBSET [at : W!Roots, on : Names \cup {Detached}]]
  BY OpRuns
<1>3. Stage(v) = "attach" /\ v.kind \in {"create", "branch", "detached"} /\ ~ByRow(v) /\ Unmoved(v) = {}
  BY <1>1, <1>2, StageIs DEF W!Running, Stage, ByRow, Unmoved
<1> DEFINE w == [v.w EXCEPT !.mode[r] = mode]
<1> DEFINE todo == v.todo \ {r}
<1>4. /\ w \in W!Row /\ w.status = v.w.status /\ w.name = v.w.name /\ w.root = p /\ w.branch = v.w.branch
      /\ \A s \in Repos : s # r => W!On(w, s) = W!On(v.w, s) /\ (s \in W!Used(w) <=> s \in W!Used(v.w))
      /\ r \in W!Used(w)
  <2>1. w = WithMode(v.w, r, mode)
    BY DEF WithMode
  <2>2. v.w \in W!Row /\ r \in Repos /\ mode \in {"no", "branch", "detached"} /\ mode # "no"
    BY <1>2
  <2> HIDE DEF mode, w, v
  <2>3. OneMode(w, v.w, r, mode)
    BY <2>1, <2>2, ModeSet
  <2> QED
    BY <2>2, <2>3 DEF OneMode
<1> DEFINE on == W!On(w, r)
<1> DEFINE no == FALSE
<1>5. no \in BOOLEAN
  OBVIOUS
<1>6. /\ W!Added(p, r, on) /\ W!Proceed(o, w, todo) /\ todo \in SUBSET Repos
      /\ UNCHANGED <<rowOf, missing, disturbed, everMet, overlooked, troubles>>
  BY <1>1, <1>2, <1>4 DEF W!Done
<1> HIDE DEF w
<1>7. on \in Names \cup {Detached, Nowhere}
  BY <1>4 DEF W!On, W!Row
<1> HIDE DEF on, no, todo
<1> DEFINE c == [at |-> p, on |-> on, dirty |-> no]
<1>8. c \in W!Checkout /\ c.at = p /\ c.on = on
  BY <1>2, <1>5, <1>7 DEF W!Checkout, W!Paths
<1>9. disk' = WithAdded(disk, p, r, c)
  BY <1>6 DEF W!Added, WithAdded, no
<1> HIDE DEF c
<1>10. /\ disk' \in [W!Roots -> W!Root] /\ disk'[p].exists /\ disk'[p].checkout[r] = c
       /\ \A q \in W!Roots : q # p => disk'[q].exists = disk[q].exists
       /\ \A q \in W!Roots, s \in Repos : q # p \/ s # r => disk'[q].checkout[s] = disk[q].checkout[s]
  BY <1>2, <1>8, <1>9, CheckoutAdded
<1>11. /\ DiskIsSound(disk')
       /\ \A q \in W!Roots : q # p => Still(disk, disk', q)
       /\ \A q \in W!Roots : Homeward(disk, disk', q)
  <2>1. disk'[p].checkout[r].at = p /\ (Has(disk', p, r) \/ on = Nowhere)
    BY <1>8, <1>10 DEF Has
  <2>2. on # Nowhere
    BY <1>2, <1>4, WorkspacesAssumption DEF on, W!On, OpIsSound
  <2> QED
    BY <1>2, <1>10, <2>1, <2>2, OneCheckout
<1> DEFINE m == [kind |-> v.kind, id |-> v.id, plan |-> v.plan, alone |-> v.alone, w |-> w, todo |-> todo]
<1>12. OpStands(disk', disturbed, everMet, overlooked, m)
  <2>1. /\ m.kind = v.kind /\ m.id = v.id /\ m.w = w /\ Stage(m) = "attach" /\ Unmoved(m) = {} /\ ~ByRow(m)
    BY <1>3 DEF Stage, Unmoved, ByRow
  <2> HIDE DEF m
  <2>2. W!Used(w) \subseteq Repos
    BY DEF W!Used
  <2>3. v.id \notin disturbed => FitsRow(disk, overlooked, v.id, v.w)
    BY <1>2, <1>3 DEF OpStands, Content
  <2>4. FitsRow(disk, overlooked, v.id, v.w) => FitsRow(disk', overlooked, v.id, w)
    BY UsedIs, <1>2, <1>4, <1>8, <1>10 DEF FitsRow, on
  <2>5. NotElsewhere(disk, v.w, {}) => NotElsewhere(disk', w, {})
    BY <1>2, <1>4, <1>8, <1>10, <2>2 DEF NotElsewhere
  <2>6. AtHome(disk, v.w, {}) => AtHome(disk', w, {})
    BY <1>2, <1>4, <1>8, <1>10, <2>2 DEF AtHome
  <2> QED
    BY <1>2, <1>3, <2>1, <2>3, <2>4, <2>5, <2>6 DEF OpStands, Content
<1> HIDE DEF m
<1> QED
  BY <1>2, <1>3, <1>4, <1>6, <1>11, <1>12, StageGoes DEF m

\* A checkout whose HEAD, or whose registration, is set.
WithHead(d, p, r, x) == [d EXCEPT ![p].checkout[r].on = x]
WithPath(d, p, r, x) == [d EXCEPT ![p].checkout[r].at = x]

OneChanged(d, e, p, r) ==
  /\ e \in [W!Roots -> W!Root]
  /\ \A q \in W!Roots : e[q].exists = d[q].exists
  /\ \A q \in W!Roots, s \in Repos : q # p \/ s # r => e[q].checkout[s] = d[q].checkout[s]
  /\ e[p].checkout[r].dirty = d[p].checkout[r].dirty

\* Setting the HEAD of one checkout changes nothing else.
LEMMA HeadSet ==
  ASSUME NEW d \in [W!Roots -> W!Root], NEW p \in W!Roots, NEW r \in Repos, NEW x \in Names \cup {Detached, Nowhere}
  PROVE  LET e == WithHead(d, p, r, x)
         IN  OneChanged(d, e, p, r) /\ e[p].checkout[r].on = x /\ e[p].checkout[r].at = d[p].checkout[r].at
<1> DEFINE c == [d[p].checkout[r] EXCEPT !.on = x]
<1> DEFINE e == WithHead(d, p, r, x)
<1>1. d[p] \in W!Root /\ d[p].checkout[r] \in W!Checkout
  BY DEF W!Root
<1>2. c \in W!Checkout /\ c.on = x /\ c.at = d[p].checkout[r].at /\ c.dirty = d[p].checkout[r].dirty
  BY <1>1 DEF W!Checkout
<1>3. e = WithCheckout(d, p, r, c)
  BY <1>1 DEF WithHead, WithCheckout, W!Root
<1> HIDE DEF c, e
<1>4. /\ e \in [W!Roots -> W!Root] /\ e[p].checkout[r] = c
      /\ \A q \in W!Roots : e[q].exists = d[q].exists
      /\ \A q \in W!Roots, s \in Repos : q # p \/ s # r => e[q].checkout[s] = d[q].checkout[s]
  BY <1>2, <1>3, CheckoutSet
<1> QED
  BY <1>2, <1>4 DEF e, OneChanged

\* Nor does setting where one is registered.
LEMMA PathSet ==
  ASSUME NEW d \in [W!Roots -> W!Root], NEW p \in W!Roots, NEW r \in Repos, NEW x \in W!Paths
  PROVE  LET e == WithPath(d, p, r, x)
         IN  OneChanged(d, e, p, r) /\ e[p].checkout[r].at = x /\ e[p].checkout[r].on = d[p].checkout[r].on
<1> DEFINE c == [d[p].checkout[r] EXCEPT !.at = x]
<1> DEFINE e == WithPath(d, p, r, x)
<1>1. d[p] \in W!Root /\ d[p].checkout[r] \in W!Checkout
  BY DEF W!Root
<1>2. c \in W!Checkout /\ c.at = x /\ c.on = d[p].checkout[r].on /\ c.dirty = d[p].checkout[r].dirty
  BY <1>1 DEF W!Checkout
<1>3. e = WithCheckout(d, p, r, c)
  BY <1>1 DEF WithPath, WithCheckout, W!Root
<1> HIDE DEF c, e
<1>4. /\ e \in [W!Roots -> W!Root] /\ e[p].checkout[r] = c
      /\ \A q \in W!Roots : e[q].exists = d[q].exists
      /\ \A q \in W!Roots, s \in Repos : q # p \/ s # r => e[q].checkout[s] = d[q].checkout[s]
  BY <1>2, <1>3, CheckoutSet
<1> QED
  BY <1>2, <1>4 DEF e, OneChanged

\* The registrations without checkout that a mirror keeps, and those of a
\* directory that goes.
LEMMA KeptIs ==
  ASSUME NEW r \in Repos, NEW ps, missing \in [Repos -> SUBSET [at : W!Roots, on : Names \cup {Detached}]]
  PROVE  W!Kept(r, ps) \in [Repos -> SUBSET [at : W!Roots, on : Names \cup {Detached}]]
<1> DEFINE all == [at : W!Roots, on : Names \cup {Detached}]
<1> DEFINE kept == {t \in missing[r] : t.at \notin ps}
<1>1. missing \in [Repos -> SUBSET all]
  OBVIOUS
<1>2. W!Kept(r, ps) = [missing EXCEPT ![r] = kept]
  BY DEF W!Kept
<1> HIDE DEF all
<1>3. kept \in SUBSET all
  BY <1>1
<1> HIDE DEF kept
<1>4. W!Kept(r, ps) \in [Repos -> SUBSET all]
  BY <1>1, <1>2, <1>3
<1> QED
  BY <1>4 DEF all

\* The registrations that a lost directory leaves are registrations.
LEMMA OrphanedIs ==
  ASSUME NEW p \in W!Roots, DiskIsSound(disk), missing \in [Repos -> SUBSET [at : W!Roots, on : Names \cup {Detached}]]
  PROVE  W!Orphaned(p) \in [Repos -> SUBSET [at : W!Roots, on : Names \cup {Detached}]]
<1> DEFINE all == [at : W!Roots, on : Names \cup {Detached}]
<1>1. missing \in [Repos -> SUBSET all]
  OBVIOUS
<1>2. ASSUME NEW r \in Repos, W!Usable(p, r)
      PROVE  [at |-> disk[p].checkout[r].at, on |-> disk[p].checkout[r].on] \in all
  <2>1. disk[p].checkout[r] \in W!Checkout
    BY DEF DiskIsSound, W!Root
  <2>2. disk[p].checkout[r].at \in W!Roots /\ disk[p].checkout[r].on \in Names \cup {Detached}
    BY <1>2, <2>1 DEF W!Usable, W!There, W!Checkout, W!Paths
  <2> QED
    BY <2>2
<1> HIDE DEF all
<1>3. ASSUME NEW r \in Repos
      PROVE  W!Orphaned(p)[r] \in SUBSET all
  BY <1>1, <1>2, <1>3 DEF W!Orphaned
<1>4. W!Orphaned(p) = [r \in Repos |-> W!Orphaned(p)[r]]
  BY DEF W!Orphaned
<1>5. W!Orphaned(p) \in [Repos -> SUBSET all]
  BY <1>3, <1>4
<1> QED
  BY <1>5 DEF all

\* A checkout that was detached is as the row with its new mode says.
LEMMA DetachGoes ==
  ASSUME NEW o \in Ops, WorkspacesOK, op[o] # W!NoOp, W!Detach(o)
  PROVE  GoesAs(o)
<1> DEFINE v == op[o]
<1> DEFINE p == v.w.root
<1>1. PICK r \in v.todo :
        /\ W!Running(o, "detach") /\ W!Usable(p, r)
        /\ disk' = [disk EXCEPT ![p].checkout[r].on = Detached]
        /\ W!Done(o, r, [v.w EXCEPT !.mode[r] = "detached"])
        /\ UNCHANGED <<rowOf, missing, disturbed, everMet, overlooked, troubles>>
  BY DEF W!Detach
<1>2. /\ DiskIsSound(disk) /\ disk \in [W!Roots -> W!Root] /\ v \in W!Operation /\ OpIsSound(v)
      /\ OpStands(disk, disturbed, everMet, overlooked, v) /\ v.w \in W!Row /\ r \in Repos
      /\ v.todo \in SUBSET Repos /\ p \in W!Roots /\ p # Nowhere
      /\ v.plan \in Courses(v.kind)
      /\ missing \in [Repos -> SUBSET [at : W!Roots, on : Names \cup {Detached}]]
  BY OpRuns
<1>3. Stage(v) = "detach" /\ v.kind = "archive" /\ ~ByRow(v) /\ Unmoved(v) = {}
  BY <1>1, <1>2, StageIs DEF W!Running, Stage, ByRow, Unmoved
<1> DEFINE w == WithMode(v.w, r, "detached")
<1> DEFINE todo == v.todo \ {r}
<1>4. OneMode(w, v.w, r, "detached")
  <2> HIDE DEF v, w
  <2>1. w = WithMode(v.w, r, "detached")
    BY DEF w
  <2> QED
    BY <1>2, <2>1, ModeSet
<1>5. W!Proceed(o, w, todo) /\ todo \in SUBSET Repos
  BY <1>1, <1>2 DEF W!Done, WithMode
<1> HIDE DEF w, todo
<1>6. /\ OneChanged(disk, disk', p, r)
      /\ disk'[p].checkout[r].on = Detached /\ disk'[p].checkout[r].at = disk[p].checkout[r].at
  <2>1. disk' = WithHead(disk, p, r, Detached)
    BY <1>1 DEF WithHead
  <2> QED
    BY <1>2, <2>1, HeadSet
<1>7. disk[p].exists /\ Has(disk', p, r)
  BY <1>1, <1>2, <1>6, WorkspacesAssumption DEF W!Usable, W!There, DiskIsSound, Has
<1>8. /\ DiskIsSound(disk')
      /\ \A q \in W!Roots : q # p => Still(disk, disk', q)
      /\ \A q \in W!Roots : Homeward(disk, disk', q)
  BY <1>2, <1>6, <1>7, OneCheckout DEF OneChanged
<1>9. r \in W!Used(v.w) /\ todo \subseteq W!Used(w)
  BY <1>2, <1>3, <1>4 DEF OpIsSound, todo, OneMode
<1>10. /\ w \in W!Row /\ w.root = p /\ w.status = v.w.status /\ w.name = v.w.name /\ w.branch = v.w.branch
       /\ W!On(w, r) = Detached /\ W!Used(w) = W!Used(v.w) /\ W!Used(w) \subseteq Repos
       /\ \A s \in Repos : s # r => W!On(w, s) = W!On(v.w, s)
  <2>1. \A s \in Repos : s \in W!Used(w) <=> s \in W!Used(v.w)
    BY <1>4, <1>9 DEF OneMode
  <2>2. W!Used(w) \subseteq Repos /\ W!Used(v.w) \subseteq Repos
    BY DEF W!Used
  <2>3. w.mode[r] = "detached"
    BY <1>4 DEF OneMode
  <2>4. W!On(w, r) = Detached
    BY <2>3 DEF W!On
  <2> QED
    BY <1>4, <2>1, <2>2, <2>4 DEF OneMode
<1> DEFINE m == [kind |-> v.kind, id |-> v.id, plan |-> v.plan, alone |-> v.alone, w |-> w, todo |-> todo]
<1>11. /\ m.kind = v.kind /\ m.id = v.id /\ m.plan = v.plan /\ m.alone = v.alone /\ m.w = w /\ m.todo = todo
       /\ Stage(m) = "detach" /\ Unmoved(m) = {} /\ ~ByRow(m)
  BY <1>3 DEF Stage, Unmoved, ByRow
<1> HIDE DEF m
<1>12. OpStands(disk', disturbed, everMet, overlooked, m)
  <2>1. v.id \notin disturbed => FitsRow(disk, overlooked, v.id, v.w)
    BY <1>2, <1>3 DEF OpStands, Content
  <2>2. FitsRow(disk, overlooked, v.id, v.w) => FitsRow(disk', overlooked, v.id, w)
    <3>1. p \in W!Roots /\ v.w.root = p /\ W!Used(v.w) \subseteq Repos
      BY UsedIs, <1>2
    <3>2. \A s \in W!Used(v.w) : s # r => disk'[p].checkout[s].on = disk[p].checkout[s].on /\ W!On(w, s) = W!On(v.w, s)
      BY <3>1, <1>6, <1>10 DEF OneChanged
    <3>3. \A s \in Repos \ W!Used(v.w) : disk'[p].checkout[s].on = disk[p].checkout[s].on
      BY <3>1, <1>6, <1>9 DEF OneChanged
    <3>4. disk'[p].checkout[r].on = W!On(w, r) /\ w.root = p /\ W!Used(w) = W!Used(v.w)
      BY <1>6, <1>10
    <3>5. disk'[p].exists <=> disk[p].exists
      BY <3>1, <1>6 DEF OneChanged
    <3> QED
      BY <3>1, <3>2, <3>3, <3>4, <3>5 DEF FitsRow
  <2>3. NotElsewhere(disk, v.w, {}) => NotElsewhere(disk', w, {})
    BY <1>2, <1>6, <1>9, <1>10 DEF NotElsewhere, OneChanged
  <2>4. AtHome(disk, v.w, {}) => AtHome(disk', w, {})
    BY <1>2, <1>6, <1>9, <1>10 DEF AtHome, OneChanged
  <2> QED
    BY <1>2, <1>3, <1>11, <2>1, <2>2, <2>3, <2>4 DEF OpStands, Content
<1> QED
  BY <1>1, <1>2, <1>3, <1>5, <1>8, <1>9, <1>10, <1>11, <1>12, StageGoes

\* A checkout whose path was repaired is registered where it is.
LEMMA RepairPathGoes ==
  ASSUME NEW o \in Ops, WorkspacesOK, op[o] # W!NoOp, W!RepairPath(o)
  PROVE  GoesAs(o)
<1> DEFINE v == op[o]
<1> DEFINE p == v.w.root
<1>1. PICK r \in v.todo :
        /\ W!Running(o, "repair") /\ W!Usable(p, r)
        /\ disk' = [disk EXCEPT ![p].checkout[r].at = p]
        /\ W!Done(o, r, v.w)
        /\ UNCHANGED <<rowOf, missing, disturbed, everMet, overlooked, troubles>>
  BY DEF W!RepairPath
<1>2. /\ DiskIsSound(disk) /\ disk \in [W!Roots -> W!Root] /\ v \in W!Operation /\ OpIsSound(v)
      /\ OpStands(disk, disturbed, everMet, overlooked, v) /\ v.w \in W!Row /\ r \in Repos
      /\ v.todo \in SUBSET Repos /\ p \in W!Roots /\ p # Nowhere /\ v.w.root = p
      /\ v.plan \in Courses(v.kind)
      /\ missing \in [Repos -> SUBSET [at : W!Roots, on : Names \cup {Detached}]]
  BY OpRuns
<1> HIDE DEF p
<1>3. Stage(v) = "repair" /\ v.kind \in {"rename", "archive"} /\ ~ByRow(v) /\ Unmoved(v) = v.todo
  BY <1>1, <1>2, StageIs DEF W!Running, Stage, ByRow, Unmoved
<1> DEFINE todo == v.todo \ {r}
<1>4. W!Proceed(o, v.w, todo) /\ todo \in SUBSET Repos
  BY <1>1, <1>2 DEF W!Done
<1> HIDE DEF todo
<1>5. /\ OneChanged(disk, disk', p, r)
      /\ disk'[p].checkout[r].at = p /\ disk'[p].checkout[r].on = disk[p].checkout[r].on
  <2>1. disk' = WithPath(disk, p, r, p)
    BY <1>1 DEF WithPath
  <2>2. p \in W!Paths
    BY <1>2 DEF W!Paths
  <2> QED
    BY <1>2, <2>1, <2>2, PathSet
<1>6. disk[p].exists /\ Has(disk', p, r)
  BY <1>1, <1>2, <1>5 DEF W!Usable, W!There, DiskIsSound, Has
<1>7. /\ DiskIsSound(disk')
      /\ \A q \in W!Roots : q # p => Still(disk, disk', q)
      /\ \A q \in W!Roots : Homeward(disk, disk', q)
  BY <1>2, <1>5, <1>6, OneCheckout DEF OneChanged
<1> DEFINE m == [kind |-> v.kind, id |-> v.id, plan |-> v.plan, alone |-> v.alone, w |-> v.w, todo |-> todo]
<1>8. /\ m.kind = v.kind /\ m.id = v.id /\ m.plan = v.plan /\ m.alone = v.alone /\ m.w = v.w /\ m.todo = todo
      /\ Stage(m) = "repair" /\ Unmoved(m) = v.todo \ {r} /\ ~ByRow(m)
  BY <1>3 DEF Stage, Unmoved, ByRow, todo
<1> HIDE DEF m
<1>9. OpStands(disk', disturbed, everMet, overlooked, m)
  <2>1. v.id \notin disturbed => FitsRow(disk, overlooked, v.id, v.w)
    BY <1>2, <1>3 DEF OpStands, Content
  <2>2. FitsRow(disk, overlooked, v.id, v.w) => FitsRow(disk', overlooked, v.id, v.w)
    BY UsedIs, <1>2, <1>5 DEF FitsRow, OneChanged
  <2>3. W!Used(v.w) \subseteq Repos
    BY DEF W!Used
  <2>4. NotElsewhere(disk, v.w, v.todo) => NotElsewhere(disk', v.w, v.todo \ {r})
    BY <1>2, <1>5, <2>3 DEF NotElsewhere, OneChanged
  <2>5. AtHome(disk, v.w, v.todo) => AtHome(disk', v.w, v.todo \ {r})
    BY <1>2, <1>5, <2>3 DEF AtHome, OneChanged
  <2> QED
    BY <1>2, <1>3, <1>8, <2>1, <2>2, <2>4, <2>5 DEF OpStands, Content
<1> QED
  BY <1>1, <1>2, <1>3, <1>4, <1>7, <1>8, <1>9, StageGoes

\* A worktree that was removed is neither in the directory nor in the row that
\* is to be.
LEMMA RemoveGoes ==
  ASSUME NEW o \in Ops, WorkspacesOK, op[o] # W!NoOp, W!Remove(o)
  PROVE  GoesAs(o)
<1> DEFINE v == op[o]
<1> DEFINE p == v.w.root
<1> DEFINE lessOf(r) == IF v.kind = "remove" THEN [v.w EXCEPT !.mode[r] = "no"] ELSE v.w
<1>1. PICK r \in v.todo :
        /\ W!Running(o, "remove")
        /\ disk' = W!Forget([disk EXCEPT ![p].checkout[r] = W!NoCheckout], r, {p})
        /\ missing' = W!Kept(r, {p})
        /\ W!Done(o, r, lessOf(r))
        /\ UNCHANGED <<rowOf, disturbed, everMet, overlooked, troubles>>
  BY DEF W!Remove
<1>2. /\ DiskIsSound(disk) /\ disk \in [W!Roots -> W!Root] /\ v \in W!Operation /\ OpIsSound(v)
      /\ OpStands(disk, disturbed, everMet, overlooked, v) /\ v.w \in W!Row /\ r \in Repos
      /\ v.todo \in SUBSET Repos /\ p \in W!Roots /\ p # Nowhere /\ v.w.root = p
      /\ v.plan \in Courses(v.kind)
      /\ missing \in [Repos -> SUBSET [at : W!Roots, on : Names \cup {Detached}]]
  BY OpRuns
<1> HIDE DEF p
<1>3. Stage(v) = "remove" /\ v.kind \in {"remove", "delete"} /\ ~ByRow(v) /\ Unmoved(v) = {}
  BY <1>1, <1>2, StageIs DEF W!Running, Stage, ByRow, Unmoved
<1> DEFINE w == lessOf(r)
<1> DEFINE todo == v.todo \ {r}
<1>4. v.kind = "remove" => OneMode(w, v.w, r, "no")
  <2>1. v.kind = "remove" => w = WithMode(v.w, r, "no")
    BY DEF WithMode
  <2> HIDE DEF v, w
  <2> QED
    BY <1>2, <2>1, ModeSet
<1>5. v.kind = "delete" => w = v.w
  OBVIOUS
<1>6. W!Proceed(o, w, todo) /\ todo \in SUBSET Repos
  BY <1>1, <1>2 DEF W!Done
<1> HIDE DEF w, lessOf
<1>7. /\ w \in W!Row /\ w.root = p /\ w.status = v.w.status /\ w.name = v.w.name /\ w.branch = v.w.branch
      /\ W!Used(w) \subseteq W!Used(v.w) /\ W!Used(w) \subseteq Repos
      /\ v.kind = "remove" => W!Used(w) = W!Used(v.w) \ {r}
      /\ \A s \in Repos : s # r => W!On(w, s) = W!On(v.w, s)
  <2>1. W!Used(w) \subseteq Repos /\ W!Used(v.w) \subseteq Repos
    BY DEF W!Used
  <2> QED
    BY <1>2, <1>3, <1>4, <1>5, <2>1 DEF OneMode
<1> DEFINE d == WithCheckout(disk, p, r, W!NoCheckout)
<1>8. /\ d \in [W!Roots -> W!Root] /\ d[p].checkout[r] = W!NoCheckout
      /\ \A q \in W!Roots : d[q].exists = disk[q].exists
      /\ \A q \in W!Roots, s \in Repos : q # p \/ s # r => d[q].checkout[s] = disk[q].checkout[s]
  <2>1. W!NoCheckout \in W!Checkout
    BY NothingIs
  <2> QED
    BY <1>2, <2>1, CheckoutSet
<1>9. disk' = W!Forget(d, r, {p})
  BY <1>1 DEF WithCheckout
<1> HIDE DEF d
<1>10. /\ disk' \in [W!Roots -> W!Root]
       /\ \A q \in W!Roots : disk'[q].exists = disk[q].exists
       /\ \A q \in W!Roots, s \in Repos :
            /\ disk'[q].checkout[s].on = d[q].checkout[s].on
            /\ disk'[q].checkout[s].at \in {d[q].checkout[s].at, Nowhere}
            /\ d[q].checkout[s].at = q => disk'[q].checkout[s].at = q
            /\ d[q].checkout[s].at = Nowhere => disk'[q].checkout[s] = d[q].checkout[s]
  BY <1>2, <1>8, <1>9, Forgotten
<1>11. DiskIsSound(disk')
  <2>1. \A q \in W!Roots, s \in Repos : Has(disk', q, s) => Has(disk, q, s)
    BY <1>8, <1>10, NothingIs DEF Has
  <2>2. ASSUME NEW q \in W!Roots, NEW s \in Repos, ~Has(disk', q, s)
        PROVE  disk'[q].checkout[s] = W!NoCheckout
    <3>1. d[q].checkout[s] = W!NoCheckout
      BY <1>2, <1>8, <1>10, <2>2 DEF Has, DiskIsSound
    <3> QED
      BY <3>1, <1>10, NothingIs
  <2> QED
    BY <1>2, <1>10, <2>1, <2>2 DEF DiskIsSound
<1>12. /\ \A q \in W!Roots : q # p => Still(disk, disk', q)
       /\ \A q \in W!Roots : Homeward(disk, disk', q)
  BY <1>8, <1>10, NothingIs DEF Still, Homeward
<1>13. missing' \in [Repos -> SUBSET [at : W!Roots, on : Names \cup {Detached}]]
  BY <1>1, <1>2, KeptIs
<1>14. ~Has(disk', p, r)
  BY <1>2, <1>8, <1>10, NothingIs DEF Has
<1> DEFINE m == [kind |-> v.kind, id |-> v.id, plan |-> v.plan, alone |-> v.alone, w |-> w, todo |-> todo]
<1>15. /\ m.kind = v.kind /\ m.id = v.id /\ m.plan = v.plan /\ m.alone = v.alone /\ m.w = w /\ m.todo = todo
       /\ Stage(m) = "remove" /\ Unmoved(m) = {} /\ ~ByRow(m)
  BY <1>3 DEF Stage, Unmoved, ByRow
<1> HIDE DEF m
<1>16. OpStands(disk', disturbed, everMet, overlooked, m)
  <2>1. v.id \notin disturbed => Content(disk, overlooked, v)
    BY <1>2 DEF OpStands
  <2>2. CASE v.kind = "remove"
    <3>1. FitsRow(disk, overlooked, v.id, v.w) => FitsRow(disk', overlooked, v.id, w)
      BY UsedIs, <2>2, <1>2, <1>7, <1>8, <1>10, NothingIs DEF FitsRow
    <3>2. NotElsewhere(disk, v.w, {}) => NotElsewhere(disk', w, {})
      BY <2>2, <1>2, <1>7, <1>8, <1>10 DEF NotElsewhere
    <3>3. AtHome(disk, v.w, {}) => AtHome(disk', w, {})
      BY <2>2, <1>2, <1>7, <1>8, <1>10 DEF AtHome
    <3> QED
      BY <1>2, <1>3, <1>15, <2>1, <2>2, <3>1, <3>2, <3>3 DEF OpStands, Content
  <2>3. CASE v.kind = "delete"
    <3>1. Content(disk, overlooked, v) => \A s \in W!Used(w) \ todo : ~Has(disk', p, s)
      <4>1. Content(disk, overlooked, v) => \A s \in W!Used(w) \ v.todo : ~Has(disk, p, s)
        BY <1>2, <1>3, <1>5, <2>3 DEF Content
      <4>2. \A s \in Repos : Has(disk', p, s) => Has(disk, p, s)
        BY <1>2, <1>8, <1>10, NothingIs DEF Has
      <4> QED
        BY <4>1, <4>2, <1>7, <1>14
    <3> QED
      BY <1>2, <1>3, <1>7, <1>15, <2>1, <2>3, <3>1 DEF OpStands, Content
  <2> QED
    BY <1>3, <2>2, <2>3
<1> HIDE DEF todo
<1> QED
  BY <1>1, <1>2, <1>3, <1>6, <1>7, <1>11, <1>12, <1>13, <1>15, <1>16, StageGoes

\* There is no repository to do.
LEMMA NoneGoes ==
  ASSUME NEW o \in Ops, WorkspacesOK, op[o] # W!NoOp, W!NoneToDo(o), Stage(op[o]) # "restore"
  PROVE  GoesAs(o)
<1> DEFINE v == op[o]
<1>1. /\ v.todo = {} /\ Stage(v) \in {"attach", "remove", "detach", "repair"}
      /\ W!Proceed(o, v.w, {}) /\ W!Healed(o, {})
      /\ UNCHANGED <<rowOf, disk, missing, everMet, troubles>>
  BY DEF W!NoneToDo, Stage
<1>2. /\ DiskIsSound(disk) /\ disk \in [W!Roots -> W!Root] /\ v \in W!Operation /\ OpIsSound(v)
      /\ OpStands(disk, disturbed, everMet, overlooked, v) /\ v.w \in W!Row
      /\ v.plan \in Courses(v.kind)
      /\ missing \in [Repos -> SUBSET [at : W!Roots, on : Names \cup {Detached}]]
  BY OpRuns
<1>3. v.kind # "repair" /\ ~ByRow(v)
  <2> HIDE DEF v
  <2> QED
    BY <1>1, <1>2, StageIs DEF ByRow
<1>4. disturbed' = disturbed /\ overlooked' = overlooked
  BY <1>1, <1>3 DEF W!Healed
<1>5. OpStands(disk', disturbed, everMet, overlooked, v)
  BY <1>1, <1>2
<1>6. \A q \in W!Roots : Still(disk, disk', q) /\ Homeward(disk, disk', q)
  BY <1>1 DEF Still, Homeward
<1>7. DiskIsSound(disk')
  BY <1>1, <1>2
<1> QED
  BY <1>1, <1>2, <1>4, <1>5, <1>6, <1>7, StageGoes

\* A stage that is one step, of which others follow.
LEMMA NextIs ==
  ASSUME NEW o \in Ops, WorkspacesOK, op[o] # W!NoOp,
         NEW w \in W!Row, W!Proceed(o, w, {}), ~IsLast(Stage(op[o]))
  PROVE  /\ op' \in [Ops -> W!Operation] /\ \A p \in Ops : p # o => op'[p] = op[p]
         /\ op'[o].kind = op[o].kind /\ op'[o].id = op[o].id /\ op'[o].alone = op[o].alone
         /\ op'[o].w = w /\ op'[o].todo = W!Used(w) /\ op'[o].over = op[o].over
         /\ op'[o].plan \in Courses(op[o].kind) /\ Follows(op[o].kind, Stage(op[o]), Stage(op'[o]))
<1>1. op \in [Ops -> W!Operation] /\ op[o].plan \in Courses(op[o].kind)
  BY OpRuns
<1>2. /\ Len(op[o].plan) # 1 /\ Tail(op[o].plan) \in Courses(op[o].kind)
      /\ Follows(op[o].kind, Stage(op[o]), Head(Tail(op[o].plan)))
  BY <1>1, CourseIs DEF Stage
<1>3. /\ op' \in [Ops -> W!Operation] /\ \A p \in Ops : p # o => op'[p] = op[p]
      /\ op'[o].kind = op[o].kind /\ op'[o].id = op[o].id /\ op'[o].alone = op[o].alone
      /\ op'[o].w = w /\ op'[o].todo = W!Used(w) /\ op'[o].plan = Tail(op[o].plan) /\ op'[o].over = op[o].over
  BY <1>1, <1>2, ProceedIs
<1> QED
  BY <1>2, <1>3 DEF Stage

\* Finding the checkouts clean changes no directory.
LEMMA CleanGoes ==
  ASSUME NEW o \in Ops, WorkspacesOK, op[o] # W!NoOp, W!Clean(o)
  PROVE  GoesAs(o)
<1> DEFINE v == op[o]
<1> DEFINE n == op'[o]
<1>1. /\ Stage(v) = "clean" /\ W!Proceed(o, v.w, {})
      /\ UNCHANGED <<rowOf, disk, missing, disturbed, everMet, overlooked, troubles>>
  BY DEF W!Clean, W!Running, Stage
<1>2. /\ DiskIsSound(disk) /\ v \in W!Operation /\ OpIsSound(v)
      /\ OpStands(disk, disturbed, everMet, overlooked, v) /\ v.w \in W!Row
      /\ v.plan \in Courses(v.kind)
      /\ missing \in [Repos -> SUBSET [at : W!Roots, on : Names \cup {Detached}]]
  BY OpRuns
<1>3. v.kind \in {"archive", "delete"} /\ ~ByRow(v)
  <2> HIDE DEF v
  <2> QED
    BY <1>1, <1>2, StageIs DEF ByRow
<1>4. /\ op' \in [Ops -> W!Operation] /\ \A p \in Ops : p # o => op'[p] = op[p]
      /\ n.kind = v.kind /\ n.id = v.id /\ n.alone = v.alone /\ n.w = v.w /\ n.todo = W!Used(v.w)
      /\ n.plan \in Courses(v.kind)
      /\ v.kind = "delete" => Stage(n) = "remove"
      /\ v.kind = "archive" => Stage(n) = "detach"
  BY <1>1, <1>2, <1>3, NextIs DEF Follows, IsLast
<1>5. v # W!NoOp
  OBVIOUS
<1> HIDE DEF n, v
<1>6. OpIsSound(n)
  BY <1>1, <1>2, <1>3, <1>4 DEF OpIsSound
<1>7. OpStands(disk, disturbed, everMet, overlooked, n)
  BY <1>1, <1>2, <1>3, <1>4 DEF OpStands, Content, Unmoved, ByRow
<1>8. \A q \in W!Roots : Still(disk, disk', q) /\ Homeward(disk, disk', q)
  BY <1>1 DEF Still, Homeward
<1>9. DiskIsSound(disk') /\ OpStands(disk', disturbed, everMet, overlooked, n)
  BY <1>1, <1>2, <1>7
<1>10. ToMove(n) => ToMove(v)
  BY <1>1, <1>4 DEF ToMove
<1>11. Live(rowOf[v.id]) => rowOf[v.id].root \in W!Roots
  BY OpRuns DEF v
<1> QED
  BY <1>1, <1>2, <1>3, <1>4, <1>5, <1>6, <1>8, <1>9, <1>10, <1>11 DEF GoesAs, n, v

\* A repair goes on where each checkout that it found is in its row, or has
\* passed over one.
LEMMA CheckGoes ==
  ASSUME NEW o \in Ops, WorkspacesOK, op[o] # W!NoOp, W!Check(o)
  PROVE  GoesAs(o)
<1> DEFINE v == op[o]
<1> DEFINE n == op'[o]
<1> DEFINE unmanaged == {r \in Repos : W!There(v.w.root, r)} \ W!Used(v.w)
<1> DEFINE over == unmanaged # {}
<1>1. /\ Stage(v) = "check"
      /\ op' = [op EXCEPT ![o].plan = Tail(@), ![o].todo = W!Used(v.w), ![o].over = over]
      /\ UNCHANGED <<rowOf, disk, missing, disturbed, everMet, overlooked, troubles>>
  BY DEF W!Check, W!Running, Stage
<1>2. /\ DiskIsSound(disk) /\ v \in W!Operation /\ OpIsSound(v) /\ op \in [Ops -> W!Operation]
      /\ OpStands(disk, disturbed, everMet, overlooked, v) /\ v.w \in W!Row
      /\ v.plan \in Courses(v.kind)
      /\ missing \in [Repos -> SUBSET [at : W!Roots, on : Names \cup {Detached}]]
  BY OpRuns
<1>3. /\ v.kind = "repair" /\ Tail(v.plan) \in Courses(v.kind) /\ Head(Tail(v.plan)) = "mkroot"
      /\ Tail(v.plan) \in Seq(W!Stages)
  <2>1. Stage(v) = "check"
    BY <1>1
  <2> HIDE DEF v
  <2>2. v.kind = "repair"
    BY <1>2, <2>1, StageIs
  <2>3. Len(v.plan) # 1
    BY <1>2, <2>1, CourseIs DEF Stage, IsLast
  <2> QED
    BY <1>2, <2>1, <2>2, <2>3, CourseIs DEF Stage, Follows
<1>4. /\ op' \in [Ops -> W!Operation] /\ \A p \in Ops : p # o => op'[p] = op[p]
      /\ n.kind = v.kind /\ n.id = v.id /\ n.alone = v.alone /\ n.w = v.w /\ n.todo = W!Used(v.w)
      /\ n.over = over /\ n.plan \in Courses(v.kind) /\ Stage(n) = "mkroot"
  <2> DEFINE all == W!Used(v.w)
  <2> DEFINE plan == Tail(v.plan)
  <2> DEFINE new == [v EXCEPT !.plan = plan, !.todo = all, !.over = over]
  <2>1. all \in SUBSET Repos /\ over \in BOOLEAN /\ plan \in Seq(W!Stages)
    BY <1>3 DEF W!Used
  <2>2. op' = [op EXCEPT ![o] = new]
    BY <1>1
  <2> HIDE DEF all, plan, over
  <2>3. /\ new \in W!Operation /\ new.kind = v.kind /\ new.id = v.id /\ new.alone = v.alone /\ new.w = v.w
        /\ new.todo = all /\ new.over = over /\ new.plan = plan
    <3>1. v \in W!Operation
      BY <1>2
    <3> HIDE DEF v
    <3> QED
      BY <2>1, <3>1 DEF W!Operation
  <2> HIDE DEF new
  <2>4. op' \in [Ops -> W!Operation] /\ n = new /\ \A p \in Ops : p # o => op'[p] = op[p]
    BY <1>2, <2>2, <2>3
  <2> QED
    BY <1>3, <2>3, <2>4 DEF Stage, all, plan
<1>5. v # W!NoOp /\ (~over => \A r \in Repos : Has(disk, v.w.root, r) => r \in W!Used(v.w))
  BY DEF W!There, Has
<1> HIDE DEF over, unmanaged
<1> HIDE DEF n, v
<1>6. OpIsSound(n)
  BY <1>1, <1>2, <1>3, <1>4 DEF OpIsSound
<1>7. OpStands(disk, disturbed, everMet, overlooked, n)
  BY <1>1, <1>2, <1>3, <1>4, <1>5 DEF OpStands, Content, Unmoved, ByRow
<1>8. \A q \in W!Roots : Still(disk, disk', q) /\ Homeward(disk, disk', q)
  BY <1>1 DEF Still, Homeward
<1>9. DiskIsSound(disk') /\ OpStands(disk', disturbed, everMet, overlooked, n)
  BY <1>1, <1>2, <1>7
<1>10. ~ToMove(n)
  BY <1>3, <1>4 DEF ToMove
<1>11. Live(rowOf[v.id]) => rowOf[v.id].root \in W!Roots
  BY OpRuns DEF v
<1> QED
  BY <1>1, <1>2, <1>3, <1>4, <1>5, <1>6, <1>8, <1>9, <1>10, <1>11 DEF GoesAs, n, v

\* It makes the directory and nothing in it.
LEMMA MkRootGoes ==
  ASSUME NEW o \in Ops, WorkspacesOK, op[o] # W!NoOp, W!MkRoot(o)
  PROVE  GoesAs(o)
<1> DEFINE v == op[o]
<1> DEFINE n == op'[o]
<1> DEFINE p == v.w.root
<1>1. /\ Stage(v) = "mkroot" /\ W!Proceed(o, v.w, {})
      /\ disk' = WithDirectory(disk, p)
      /\ UNCHANGED <<rowOf, missing, disturbed, everMet, overlooked, troubles>>
  BY DEF W!MkRoot, W!Running, Stage, WithDirectory
<1>2. /\ DiskIsSound(disk) /\ disk \in [W!Roots -> W!Root] /\ v \in W!Operation /\ OpIsSound(v)
      /\ OpStands(disk, disturbed, everMet, overlooked, v) /\ v.w \in W!Row
      /\ v.plan \in Courses(v.kind) /\ p = v.w.root /\ p \in W!Roots /\ p \in W!Places(v.w)
      /\ missing \in [Repos -> SUBSET [at : W!Roots, on : Names \cup {Detached}]]
  BY OpRuns
<1>3. v.kind = "repair"
  <2> HIDE DEF v
  <2> QED
    BY <1>1, <1>2, StageIs
<1>4. /\ op' \in [Ops -> W!Operation] /\ \A q \in Ops : q # o => op'[q] = op[q]
      /\ n.kind = v.kind /\ n.id = v.id /\ n.alone = v.alone /\ n.w = v.w /\ n.todo = W!Used(v.w)
      /\ n.over = v.over /\ n.plan \in Courses(v.kind) /\ Stage(n) = "restore"
  BY <1>1, <1>2, <1>3, NextIs DEF Follows, IsLast
<1>5. v # W!NoOp
  OBVIOUS
<1> HIDE DEF n, p
<1>6. /\ disk' \in [W!Roots -> W!Root] /\ disk'[p].exists
      /\ \A q \in W!Roots : q # p => disk'[q].exists = disk[q].exists
      /\ \A q \in W!Roots, s \in Repos : disk'[q].checkout[s] = disk[q].checkout[s]
  BY <1>1, <1>2, DirectoryMade
<1> HIDE DEF v
<1>7. DiskIsSound(disk')
  BY <1>2, <1>6 DEF DiskIsSound, Has
<1>8. OpIsSound(n)
  BY <1>1, <1>2, <1>3, <1>4 DEF OpIsSound
<1>9. OpStands(disk', disturbed, everMet, overlooked, n)
  <2>1. W!Used(v.w) \subseteq Repos
    BY DEF W!Used
  <2>2. Content(disk, overlooked, v) /\ ~v.over => \A r \in Repos : Has(disk', p, r) => r \in W!Used(v.w)
    BY <1>1, <1>2, <1>3, <1>6 DEF Content, Has
  <2>3. NotElsewhere(disk, v.w, {}) => NotElsewhere(disk', v.w, {})
    BY <1>2, <1>6, <2>1 DEF NotElsewhere
  <2> QED
    BY <1>1, <1>2, <1>3, <1>4, <1>6, <2>1, <2>2, <2>3 DEF OpStands, Content, Unmoved, ByRow, AtHome
<1>10. /\ \A q \in W!Roots : q # p => Still(disk, disk', q)
       /\ \A q \in W!Roots : Homeward(disk, disk', q)
  BY <1>6 DEF Still, Homeward
<1>11. ~ToMove(n)
  BY <1>3, <1>4 DEF ToMove
<1>12. Live(rowOf[v.id]) => rowOf[v.id].root \in W!Roots
  BY OpRuns DEF v
<1> QED
  BY <1>1, <1>2, <1>3, <1>4, <1>5, <1>7, <1>8, <1>9, <1>10, <1>11, <1>12 DEF GoesAs, n, v

\* A create makes a directory without checkouts for a row without repositories.
LEMMA MkdirGoes ==
  ASSUME NEW o \in Ops, WorkspacesOK, op[o] # W!NoOp, W!Mkdir(o)
  PROVE  GoesAs(o)
<1> DEFINE v == op[o]
<1> DEFINE n == op'[o]
<1> DEFINE p == v.w.root
<1>1. /\ Stage(v) = "mkdir" /\ ~disk[p].exists
      /\ disk' = WithDirectory(disk, p)
      /\ op' = [op EXCEPT ![o].plan = Tail(op[o].plan)]
      /\ UNCHANGED <<rowOf, missing, disturbed, everMet, overlooked, troubles>>
  BY DEF W!Mkdir, W!Running, Stage, WithDirectory
<1>2. /\ DiskIsSound(disk) /\ disk \in [W!Roots -> W!Root] /\ v \in W!Operation /\ OpIsSound(v)
      /\ op \in [Ops -> W!Operation]
      /\ OpStands(disk, disturbed, everMet, overlooked, v) /\ v.w \in W!Row
      /\ v.plan \in Courses(v.kind) /\ p = v.w.root /\ p \in W!Roots /\ p \in W!Places(v.w)
      /\ missing \in [Repos -> SUBSET [at : W!Roots, on : Names \cup {Detached}]]
  BY OpRuns
<1>3. v.kind = "create" /\ Tail(v.plan) \in Courses(v.kind) /\ Head(Tail(v.plan)) = "attach" /\ Tail(v.plan) \in Seq(W!Stages)
  <2> HIDE DEF v
  <2>1. v.kind = "create"
    BY <1>1, <1>2, StageIs
  <2>2. ~IsLast(Stage(v))
    BY <1>1 DEF IsLast
  <2>3. Tail(v.plan) \in Courses(v.kind) /\ Follows(v.kind, Stage(v), Head(Tail(v.plan)))
    BY <1>2, <2>2, CourseIs DEF Stage
  <2>4. Tail(v.plan) \in Seq(W!Stages)
    BY <2>3, CourseIs
  <2> QED
    BY <1>1, <2>1, <2>3, <2>4 DEF Follows
<1>4. /\ op' \in [Ops -> W!Operation] /\ \A q \in Ops : q # o => op'[q] = op[q]
      /\ n.kind = v.kind /\ n.id = v.id /\ n.alone = v.alone /\ n.w = v.w
      /\ n.plan \in Courses(v.kind) /\ Stage(n) = "attach"
  <2> DEFINE plan == Tail(op[o].plan)
  <2>1. plan \in Seq(W!Stages) /\ plan \in Courses(v.kind) /\ Head(plan) = "attach"
    BY <1>3
  <2>2. op' = [op EXCEPT ![o].plan = plan]
    BY <1>1
  <2> HIDE DEF plan
  <2>3. n = [v EXCEPT !.plan = plan]
    BY <1>2, <2>2
  <2>4. n \in W!Operation /\ n.kind = v.kind /\ n.id = v.id /\ n.alone = v.alone /\ n.w = v.w /\ n.plan = plan
    <3> HIDE DEF n, v
    <3> QED
      BY <1>2, <2>1, <2>3 DEF W!Operation
  <2>5. op' \in [Ops -> W!Operation] /\ \A q \in Ops : q # o => op'[q] = op[q]
    BY <1>2, <2>2, <2>4
  <2> QED
    BY <2>1, <2>4, <2>5 DEF Stage
<1>5. v # W!NoOp
  OBVIOUS
<1> HIDE DEF n, p
<1>6. /\ disk' \in [W!Roots -> W!Root] /\ disk'[p].exists
      /\ \A q \in W!Roots : q # p => disk'[q].exists = disk[q].exists
      /\ \A q \in W!Roots, s \in Repos : disk'[q].checkout[s] = disk[q].checkout[s]
  BY <1>1, <1>2, DirectoryMade
<1> HIDE DEF v
<1>7. DiskIsSound(disk')
  BY <1>2, <1>6 DEF DiskIsSound, Has
<1>8. OpIsSound(n)
  BY <1>1, <1>2, <1>3, <1>4 DEF OpIsSound
<1>9. OpStands(disk', disturbed, everMet, overlooked, n)
  <2>1. W!Used(v.w) = {}
    BY <1>1, <1>2, <1>3 DEF OpIsSound
  <2>2. FitsRow(disk', overlooked, v.id, v.w)
    BY <1>1, <1>2, <1>6, <2>1 DEF FitsRow, DiskIsSound, Has
  <2>3. NotElsewhere(disk', v.w, {}) /\ AtHome(disk', v.w, {})
    BY <2>1 DEF NotElsewhere, AtHome
  <2> QED
    BY <1>3, <1>4, <2>2, <2>3 DEF OpStands, Content, Unmoved, ByRow
<1>10. /\ \A q \in W!Roots : q # p => Still(disk, disk', q)
       /\ \A q \in W!Roots : Homeward(disk, disk', q)
  BY <1>6 DEF Still, Homeward
<1>11. ~ToMove(n)
  BY <1>3, <1>4 DEF ToMove
<1>12. Live(rowOf[v.id]) => rowOf[v.id].root \in W!Roots
  BY OpRuns DEF v
<1> QED
  BY <1>1, <1>2, <1>3, <1>4, <1>5, <1>7, <1>8, <1>9, <1>10, <1>11, <1>12 DEF GoesAs, n, v

\* A directory that goes, and one that is moved.
WithNone(d, p) == [d EXCEPT ![p] = W!NoRoot]

\* A directory that is removed has no checkouts and takes none from another.
LEMMA NoneSet ==
  ASSUME NEW d, DiskIsSound(d), NEW p \in W!Roots
  PROVE  LET e == WithNone(d, p)
         IN  /\ DiskIsSound(e) /\ ~e[p].exists
             /\ \A r \in Repos : ~Has(e, p, r) /\ e[p].checkout[r].at = Nowhere
             /\ \A q \in W!Roots : q # p => e[q] = d[q]
<1> DEFINE e == WithNone(d, p)
<1>1. d \in [W!Roots -> W!Root]
  BY DEF DiskIsSound
<1>2. e \in [W!Roots -> W!Root] /\ e[p] = W!NoRoot /\ \A q \in W!Roots : q # p => e[q] = d[q]
  BY <1>1, NothingIs DEF WithNone
<1> HIDE DEF e
<1>3. /\ ~e[p].exists
      /\ \A r \in Repos : e[p].checkout[r] = W!NoCheckout /\ ~Has(e, p, r) /\ e[p].checkout[r].at = Nowhere
  BY <1>2, NothingIs DEF Has
<1>4. DiskIsSound(e)
  BY <1>2, <1>3 DEF DiskIsSound, Has
<1> QED
  BY <1>2, <1>3, <1>4 DEF e

\* A delete takes the directory, and its workspace is deleted from then on.
LEMMA RmGoes ==
  ASSUME NEW o \in Ops, WorkspacesOK, op[o] # W!NoOp, W!Rm(o)
  PROVE  GoesAs(o)
<1> DEFINE v == op[o]
<1> DEFINE n == op'[o]
<1> DEFINE p == v.w.root
<1> DEFINE w == [v.w EXCEPT !.status = "deleted"]
<1>1. /\ Stage(v) = "rm" /\ W!Proceed(o, w, {})
      /\ missing' = W!Orphaned(p) /\ disk' = WithNone(disk, p)
      /\ UNCHANGED <<rowOf, disturbed, everMet, overlooked, troubles>>
  BY DEF W!Rm, W!Running, Stage, WithNone
<1>2. /\ DiskIsSound(disk) /\ disk \in [W!Roots -> W!Root] /\ v \in W!Operation /\ OpIsSound(v)
      /\ OpStands(disk, disturbed, everMet, overlooked, v) /\ v.w \in W!Row
      /\ v.plan \in Courses(v.kind) /\ p = v.w.root /\ p \in W!Roots /\ p \in W!Places(v.w)
      /\ missing \in [Repos -> SUBSET [at : W!Roots, on : Names \cup {Detached}]]
  BY OpRuns
<1>3. v.kind = "delete"
  <2> HIDE DEF v
  <2> QED
    BY <1>1, <1>2, StageIs
<1>4. w \in W!Row /\ w.status = "deleted" /\ w.root = v.w.root /\ w.name = v.w.name /\ w.branch = v.w.branch
  <2> HIDE DEF v
  <2> QED
    BY <1>2 DEF W!Row
<1> HIDE DEF w
<1>5. /\ op' \in [Ops -> W!Operation] /\ \A q \in Ops : q # o => op'[q] = op[q]
      /\ n.kind = v.kind /\ n.id = v.id /\ n.alone = v.alone /\ n.w = w /\ n.todo = W!Used(w)
      /\ n.plan \in Courses(v.kind) /\ Stage(n) = "update"
  BY <1>1, <1>3, <1>4, NextIs DEF Follows, IsLast
<1>6. v # W!NoOp
  OBVIOUS
<1> HIDE DEF n, p
<1>7. /\ DiskIsSound(disk') /\ \A r \in Repos : disk'[p].checkout[r].at = Nowhere
      /\ \A q \in W!Roots : q # p => disk'[q] = disk[q]
  BY <1>1, <1>2, NoneSet
<1>8. missing' \in [Repos -> SUBSET [at : W!Roots, on : Names \cup {Detached}]]
  BY <1>1, <1>2, OrphanedIs
<1> HIDE DEF v
<1>9. OpIsSound(n)
  BY <1>1, <1>2, <1>3, <1>4, <1>5 DEF OpIsSound
<1>10. OpStands(disk', disturbed, everMet, overlooked, n)
  BY <1>3, <1>5 DEF OpStands, Content, ByRow
<1>11. /\ \A q \in W!Roots : q # p => Still(disk, disk', q)
       /\ \A q \in W!Roots : Homeward(disk, disk', q)
  BY <1>7 DEF Still, Homeward
<1>12. ~ToMove(n)
  BY <1>3, <1>5 DEF ToMove
<1>13. Live(rowOf[v.id]) => rowOf[v.id].root \in W!Roots
  BY OpRuns DEF v
<1>14. W!Places(n.w) \subseteq W!Places(v.w)
  BY <1>4, <1>5 DEF W!Places
<1> QED
  BY <1>1, <1>2, <1>3, <1>5, <1>6, <1>7, <1>8, <1>9, <1>10, <1>11, <1>12, <1>13, <1>14 DEF GoesAs, n, v

\* A directory that was moved has the checkouts that it had; where they are
\* registered is yet to be repaired.
LEMMA MoveGoes ==
  ASSUME NEW o \in Ops, WorkspacesOK, op[o] # W!NoOp, W!Move(o)
  PROVE  GoesAs(o)
<1> DEFINE v == op[o]
<1> DEFINE n == op'[o]
<1> DEFINE from == v.w.root
<1> DEFINE to == IF v.kind = "archive" THEN v.id ELSE v.w.name
<1> DEFINE status == IF v.kind = "archive" THEN "archived" ELSE v.w.status
<1> DEFINE w == [v.w EXCEPT !.root = to, !.status = status]
<1>1. /\ Stage(v) = "move" /\ W!Proceed(o, w, {})
      /\ disk[from].exists /\ ~disk[to].exists
      /\ disk' = [disk EXCEPT ![to] = disk[from], ![from] = W!NoRoot]
      /\ UNCHANGED <<rowOf, missing, disturbed, everMet, overlooked, troubles>>
  BY NothingIs DEF W!Move, W!Running, Stage, W!ArchiveRoot, W!ActiveRoot
<1>2. /\ DiskIsSound(disk) /\ disk \in [W!Roots -> W!Root] /\ v \in W!Operation /\ OpIsSound(v)
      /\ OpStands(disk, disturbed, everMet, overlooked, v) /\ v.w \in W!Row
      /\ v.plan \in Courses(v.kind) /\ from = v.w.root /\ from \in W!Roots /\ from \in W!Places(v.w)
      /\ missing \in [Repos -> SUBSET [at : W!Roots, on : Names \cup {Detached}]]
      /\ v.id \in WorkspaceIds /\ v.w.name \in Names
  BY OpRuns
<1>3. v.kind \in {"rename", "archive"} /\ ~ByRow(v)
  <2> HIDE DEF v
  <2> QED
    BY <1>1, <1>2, StageIs DEF ByRow
<1>4. /\ to \in Names \cup {v.id} /\ to \in W!Roots
      /\ v.kind = "rename" => to = v.w.name /\ status = "active"
      /\ v.kind = "archive" => to = v.id /\ status = "archived"
  <2>1. v.w.status = "active"
    <3> HIDE DEF v
    <3> QED
      BY <1>1, <1>2, <1>3 DEF OpIsSound
  <2> QED
    BY <1>2, <1>3, <2>1, NothingIs
<1> HIDE DEF to, status
<1>5. /\ w \in W!Row /\ w.status = status /\ w.root = to /\ w.name = v.w.name /\ w.branch = v.w.branch
      /\ w.mode = v.w.mode
  <2>1. status \in {"active", "archived"} /\ to \in W!Paths
    BY <1>3, <1>4 DEF W!Paths
  <2> HIDE DEF v
  <2> QED
    BY <1>2, <2>1 DEF W!Row
<1> HIDE DEF w
<1>6. /\ op' \in [Ops -> W!Operation] /\ \A q \in Ops : q # o => op'[q] = op[q]
      /\ n.kind = v.kind /\ n.id = v.id /\ n.alone = v.alone /\ n.w = w /\ n.todo = W!Used(w)
      /\ n.plan \in Courses(v.kind) /\ Stage(n) = "repair"
  BY <1>1, <1>5, NextIs DEF Follows, IsLast
<1>7. v # W!NoOp /\ to # from
  BY <1>1
<1>8. v.id \notin everMet => from = rowOf[v.id].root
  BY <1>1, <1>2, <1>3 DEF WorkspacesOK, Apart, ToMove
<1> HIDE DEF n, from
<1>9. disk[from] \in W!Root
  BY <1>2
<1>10. /\ disk' \in [W!Roots -> W!Root] /\ disk'[to] = disk[from] /\ disk'[from] = W!NoRoot
       /\ \A q \in W!Roots : q # to /\ q # from => disk'[q] = disk[q]
  BY <1>1, <1>2, <1>4, <1>7, <1>9, NothingIs
<1> HIDE DEF v
<1>11. DiskIsSound(disk')
  BY <1>2, <1>4, <1>10, NothingIs DEF DiskIsSound, Has
<1>12. OpIsSound(n)
  BY <1>2, <1>3, <1>4, <1>5, <1>6 DEF OpIsSound
<1>13. OpStands(disk', disturbed, everMet, overlooked, n)
  <2>1. \A s : W!On(w, s) = W!On(v.w, s)
    BY <1>5 DEF W!On
  <2>2. W!Used(w) = W!Used(v.w)
    BY <1>5 DEF W!Used
  <2>3. FitsRow(disk, overlooked, v.id, v.w) => FitsRow(disk', overlooked, v.id, w)
    BY <1>2, <1>5, <1>10, <2>1, <2>2 DEF FitsRow
  <2>4. v.id \notin disturbed => FitsRow(disk, overlooked, v.id, v.w)
    BY <1>1, <1>2, <1>3 DEF OpStands, Content
  <2>5. NotElsewhere(disk', w, W!Used(w)) /\ AtHome(disk', w, W!Used(w))
    BY DEF NotElsewhere, AtHome
  <2> QED
    BY <1>3, <1>6, <2>3, <2>4, <2>5 DEF OpStands, Content, Unmoved, ByRow
<1>14. /\ \A q \in W!Roots : q # from /\ q # to => Still(disk, disk', q)
       /\ Homeward(disk, disk', from)
  BY <1>2, <1>10, NothingIs DEF Still, Homeward
<1>15. ~ToMove(n)
  BY <1>6 DEF ToMove
<1>16. W!Places(n.w) \subseteq {to} /\ to \in W!Places(v.w) \cup {v.id}
  <2>1. w.status = "active" => to = w.name
    BY <1>3, <1>4, <1>5
  <2>2. v.w.status = "active" => v.w.name \in W!Places(v.w)
    BY <1>2, PlacesAre
  <2>3. v.kind = "rename" => v.w.status = "active"
    BY <1>2 DEF OpIsSound
  <2> QED
    BY <1>3, <1>4, <1>5, <1>6, <2>1, <2>2, <2>3 DEF W!Places, W!ActiveRoot
<1> QED
  BY <1>1, <1>2, <1>3, <1>6, <1>7, <1>8, <1>11, <1>12, <1>13, <1>14, <1>15, <1>16 DEF GoesAs, n, v

-----------------------------------------------------------------------------
\* Operation o on workspace i ends: what it leaves stands for the row.
EndsAs(o, i) ==
  LET v == op[o]
  IN /\ v # W!NoOp /\ v.id = i
     /\ op'[o] = W!NoOp /\ \A p \in Ops : p # o => op'[p] = op[p]
     /\ everMet' = everMet
     /\ \A j \in WorkspaceIds \ {i} :
          /\ rowOf'[j] = rowOf[j] /\ (j \in disturbed' <=> j \in disturbed)
          /\ j \in overlooked' <=> j \in overlooked
     /\ i \in disturbed /\ i \notin disturbed' => ByRow(v)
     /\ \A q \in W!Roots \ (W!Places(v.w) \cup {i}) : Still(disk, disk', q)
     /\ Live(rowOf'[i]) => rowOf'[i] = rowOf[i] \/ rowOf'[i].root \in W!Places(v.w)

\* An operation that ends keeps the invariant, if the row that it leaves is as
\* the directory is.
LEMMA Ends ==
  ASSUME NEW o \in Ops, NEW i \in WorkspaceIds, WorkspacesOK, EndsAs(o, i), Sound', RowStands(i)'
  PROVE  WorkspacesOK'
<1> DEFINE v == op[o]
<1>1. /\ v # W!NoOp /\ v.id = i /\ OpIsSound(v)
      /\ op'[o] = W!NoOp /\ \A p \in Ops : p # o => op'[p] = op[p]
      /\ op'[o].id \notin WorkspaceIds /\ op'[o].kind = "none" /\ ~ByRow(op'[o])
      /\ \A p \in Ops : op[p].id \in WorkspaceIds => OpIsSound(op[p])
  BY NoOpIs, OpRuns DEF EndsAs, WorkspacesOK, Sound
<1>2. \A p \in Ops : op'[p].id \in WorkspaceIds => p # o /\ op'[p] = op[p]
  BY <1>1
<1>3. /\ \A j \in WorkspaceIds : RowIsSound(rowOf[j], j)
      /\ \A j \in WorkspaceIds : Clear(j) => IsApart(j)
  BY DEF WorkspacesOK, Sound, Apart
<1>4. /\ everMet' = everMet
      /\ \A j \in WorkspaceIds \ {i} :
          /\ rowOf'[j] = rowOf[j] /\ (j \in disturbed' <=> j \in disturbed)
          /\ j \in overlooked' <=> j \in overlooked
      /\ i \in disturbed /\ i \notin disturbed' => ByRow(v)
  BY DEF EndsAs
<1>5. ASSUME NEW j \in WorkspaceIds, Clear(j)'
      PROVE  Clear(j)
  <2>1. CASE j \notin disturbed'
    BY <2>1, <1>1, <1>4 DEF Clear
  <2>2. CASE j \notin everMet
    BY <2>2 DEF Clear
  <2>3. CASE \E p \in Ops : op'[p].id = j /\ ByRow(op'[p])
    BY <2>3, <1>2 DEF Clear
  <2> QED
    BY <1>4, <1>5, <2>1, <2>2, <2>3 DEF Clear, ByRow
<1>6. ASSUME NEW j \in WorkspaceIds, Clear(j)'
      PROVE  IsApart(j)'
  <2>1. IsApart(j) /\ RowIsSound(rowOf[j], j)
    BY <1>3, <1>5, <1>6
  <2>2. \A p, q \in Ops : op'[p].id = j /\ op'[q].id = j => p = q
    BY <2>1, <1>2 DEF IsApart
  <2>3. \A p \in Ops : op'[p].id \in WorkspaceIds \ {j} /\ Live(rowOf'[j]) => rowOf'[j].root \notin W!Places(op'[p].w)
    <3> SUFFICES ASSUME NEW p \in Ops, op'[p].id \in WorkspaceIds \ {j}, Live(rowOf'[j])
                 PROVE  rowOf'[j].root \notin W!Places(op'[p].w)
      OBVIOUS
    <3>1. p # o /\ op'[p] = op[p] /\ op[p].id \in WorkspaceIds \ {j}
      BY <1>2
    <3>2. CASE rowOf'[j] = rowOf[j]
      BY <3>1, <3>2, <2>1 DEF IsApart
    <3>3. CASE j = i /\ rowOf'[j].root \in W!Places(v.w)
      BY <3>1, <3>3, <1>1, <2>1 DEF IsApart
    <3> QED
      BY <1>4, <3>2, <3>3 DEF EndsAs
  <2>4. \A p, q \in Ops : op'[p].id = j /\ op'[q].id \in WorkspaceIds \ {j} =>
          W!Places(op'[p].w) \cap W!Places(op'[q].w) = {}
    BY <2>1, <1>2 DEF IsApart
  <2> QED
    BY <2>2, <2>3, <2>4 DEF IsApart, W!Places, W!ActiveRoot, Live
\* Where i is apart, none but o worked on it.
<1>7. ASSUME NEW p \in Ops, op'[p].id = i, i \notin disturbed \/ i \notin everMet \/ ByRow(v) \/ ByRow(op[p])
      PROVE  FALSE
  <2>1. p # o /\ op[p].id = i
    BY <1>2, <1>7
  <2>2. IsApart(i)
    BY <1>1, <1>3, <1>7, <2>1 DEF Clear
  <2> QED
    BY <2>1, <2>2, <1>1 DEF IsApart
<1>8. Apart'
  <2>1. ASSUME NEW p \in Ops, op'[p].kind = "repair", ~op'[p].alone
        PROVE  op'[p].id \in disturbed' /\ op'[p].id \in everMet
    <3>1. p # o /\ op'[p] = op[p] /\ op[p].id \in disturbed /\ op[p].id \in everMet /\ op[p].id \in WorkspaceIds
      BY <1>1, <2>1, NoOpIs DEF WorkspacesOK, Apart, Sound, OpIsSound
    <3> QED
      BY <3>1, <1>4, <1>7
  <2>2. ASSUME NEW p \in Ops, ByRow(op'[p])
        PROVE  op'[p].w = rowOf'[op'[p].id]
    <3>1. p # o /\ op'[p] = op[p] /\ op[p].w = rowOf[op[p].id] /\ op[p].id \in WorkspaceIds
      BY <1>1, <2>2, NoOpIs DEF WorkspacesOK, Apart, Sound, OpIsSound
    <3>2. op[p].id # i
      BY <2>2, <3>1, <1>7
    <3> QED
      BY <3>1, <3>2, <1>4
  <2>3. ASSUME NEW p \in Ops, op'[p].id \in WorkspaceIds \ everMet, ToMove(op'[p])
        PROVE  op'[p].w.root = rowOf'[op'[p].id].root
    <3>1. p # o /\ op'[p] = op[p] /\ op[p].w.root = rowOf[op[p].id].root
      BY <1>2, <2>3 DEF WorkspacesOK, Apart
    <3>2. op[p].id # i
      BY <2>3, <3>1, <1>7
    <3> QED
      BY <2>3, <3>1, <3>2, <1>4
  <2> QED
    BY <1>4, <1>6, <2>1, <2>2, <2>3 DEF Apart, ByRow, ToMove, Stage
<1>9. \A q \in W!Roots : q \notin W!Places(v.w) /\ q # i => Still(disk, disk', q)
  BY DEF EndsAs
<1>10. ASSUME NEW p \in Ops, op'[p].id \in WorkspaceIds
       PROVE  OpStands(disk', disturbed', everMet, overlooked', op'[p])
  <2> DEFINE m == op[p]
  <2>1. p # o /\ op'[p] = m /\ m.id \in WorkspaceIds /\ OpIsSound(m) /\ OpStands(disk, disturbed, everMet, overlooked, m)
    BY <1>1, <1>2, <1>10 DEF WorkspacesOK, Stands
  <2>2. CASE m.id \in disturbed /\ m.id \in everMet /\ ~ByRow(m)
    <3>1. m.id \in disturbed'
      BY <2>1, <2>2, <1>4, <1>7
    <3> QED
      BY <2>1, <2>2, <3>1 DEF OpStands
  <2>3. CASE ~(m.id \in disturbed /\ m.id \in everMet /\ ~ByRow(m))
    <3>1. m.id # i
      BY <2>1, <2>3, <1>7
    <3>2. IsApart(m.id)
      BY <2>1, <2>3, <1>3 DEF Clear
    <3>3. W!Places(m.w) \cap W!Places(v.w) = {}
      BY <2>1, <3>1, <3>2, <1>1 DEF IsApart
    <3>4. m.w.root \in W!Roots /\ m.w.root \notin W!Places(v.w) /\ m.w.root # i
      BY <2>1, <3>1, <3>3, <1>1, PlacesAre, NothingIs
    <3>5. Still(disk, disk', m.w.root)
      BY <3>4, <1>9
    <3>6. (m.id \in disturbed => m.id \in disturbed') /\ (m.id \in overlooked => m.id \in overlooked')
      BY <2>1, <3>1, <1>4
    <3> QED
      BY <2>1, <3>5, <3>6, OpStandsStill
  <2> QED
    BY <2>2, <2>3
<1>11. ASSUME NEW j \in WorkspaceIds
       PROVE  RowStands(j)'
  <2>1. CASE j = i
    BY <2>1
  <2>2. CASE j # i
    <3>1. RowStands(j) /\ rowOf'[j] = rowOf[j] /\ (j \in disturbed' <=> j \in disturbed)
          /\ (j \in overlooked' <=> j \in overlooked)
      BY <2>2, <1>4 DEF WorkspacesOK, Stands
    <3>2. Idle(j)' => Idle(j)
      BY <2>2, <1>1 DEF Idle
    <3> SUFFICES ASSUME Live(rowOf[j])
                 PROVE  /\ j \notin disturbed /\ Idle(j) => FitsRow(disk', overlooked, j, rowOf[j])
                        /\ j \notin everMet => NotElsewhere(disk', rowOf[j], {})
                        /\ j \notin disturbed /\ j \notin everMet /\ Idle(j) => AtHome(disk', rowOf[j], {})
      BY <3>1, <3>2, <1>4 DEF RowStands, Live, FitsRow, NotElsewhere, AtHome, W!Used, W!On
    <3>3. CASE j \in disturbed /\ j \in everMet
      BY <3>3
    <3>4. CASE ~(j \in disturbed /\ j \in everMet)
      <4>1. IsApart(j) /\ RowIsSound(rowOf[j], j)
        BY <3>4, <1>3 DEF Clear
      <4>2. rowOf[j].root \in W!Roots /\ rowOf[j].root \notin W!Places(v.w) /\ rowOf[j].root # i
        BY <4>1, <2>2, <1>1, RootIs, NothingIs DEF IsApart
      <4>3. Still(disk, disk', rowOf[j].root)
        BY <4>2, <1>9
      <4> QED
        BY <4>3, <3>1, RowStaysWhere DEF RowStands
    <3> QED
      BY <3>3, <3>4
  <2> QED
    BY <2>1, <2>2
<1>12. Stands'
  BY <1>4, <1>10, <1>11 DEF Stands, OpStands, Content, FitsRow, AtHome, NotElsewhere, Has, W!Used, W!On, ByRow, Stage, Unmoved
<1> QED
  BY <1>8, <1>12 DEF WorkspacesOK

\* The state stays sound when an operation ends and its row, if it changes, is
\* a sound one.
LEMMA EndsSound ==
  ASSUME NEW o \in Ops, NEW i \in WorkspaceIds, WorkspacesOK, op[o] # W!NoOp, op[o].id = i,
         op' = [op EXCEPT ![o] = W!NoOp], everMet' = everMet, disturbed' \subseteq WorkspaceIds,
         overlooked' \subseteq WorkspaceIds,
         missing' \in [Repos -> SUBSET [at : W!Roots, on : Names \cup {Detached}]],
         DiskIsSound(disk'), rowOf' \in [WorkspaceIds -> W!Row],
         \A j \in WorkspaceIds \ {i} : rowOf'[j] = rowOf[j],
         RowIsSound(rowOf'[i], i),
         op[o].kind # "create" => (rowOf'[i].status = "none" <=> rowOf[i].status = "none"),
         rowOf'[i].status = "active" => \A j \in WorkspaceIds \ {i} :
           ~(rowOf[j].status = "active" /\ rowOf[j].name = rowOf'[i].name)
  PROVE  Sound' /\ op'[o] = W!NoOp /\ \A p \in Ops : p # o => op'[p] = op[p]
<1>1. W!TypeOK /\ op \in [Ops -> W!Operation]
  BY OpRuns
<1>2. op'[o] = W!NoOp /\ \A p \in Ops : p # o => op'[p] = op[p]
  BY <1>1
<1>3. W!TypeOK'
  <2>1. op' \in [Ops -> W!Operation]
    BY <1>1, NoOpIs
  <2>2. disk' \in [W!Roots -> W!Root] /\ everMet' \subseteq WorkspaceIds
    BY <1>1 DEF DiskIsSound, W!TypeOK
  <2> QED
    BY <2>1, <2>2 DEF W!TypeOK
<1>4. /\ \A j \in WorkspaceIds : RowIsSound(rowOf'[j], j)
      /\ \A j, k \in WorkspaceIds :
           rowOf'[j].status = "active" /\ rowOf'[k].status = "active" /\ rowOf'[j].name = rowOf'[k].name => j = k
  BY DEF WorkspacesOK, Sound
<1>5. \A p \in Ops : op'[p] = W!NoOp \/ OpIsSound(op'[p])
  BY <1>2 DEF WorkspacesOK, Sound
<1>6. ASSUME NEW p \in Ops, op'[p].id \in WorkspaceIds
      PROVE  op'[p].kind = "create" <=> rowOf'[op'[p].id].status = "none"
  <2>1. p # o /\ op'[p] = op[p] /\ (op[p].kind = "create" <=> rowOf[op[p].id].status = "none")
    BY <1>2, <1>6, NoOpIs DEF WorkspacesOK, Sound
  <2>2. op[o].kind = "create" => op[p].id # i
    BY <2>1 DEF WorkspacesOK, Sound
  <2> QED
    BY <1>6, <2>1, <2>2
<1>7. \A p, q \in Ops : op'[p].kind = "create" /\ op'[q].id = op'[p].id => q = p
  <2> SUFFICES ASSUME NEW p \in Ops, NEW q \in Ops, op'[p].kind = "create", op'[q].id = op'[p].id
               PROVE  q = p
    OBVIOUS
  <2>1. p # o /\ op'[p] = op[p] /\ op[p] # W!NoOp
    BY <1>2, NoOpIs
  <2>2. op[p].id \in WorkspaceIds
    BY <2>1 DEF WorkspacesOK, Sound, OpIsSound
  <2>3. q # o /\ op'[q] = op[q]
    BY <1>2, <2>1, <2>2, NoOpIs
  <2> QED
    BY <2>1, <2>3 DEF WorkspacesOK, Sound
<1>8. (W!NoOp)' = W!NoOp
  BY DEF W!NoOp, W!NoRow
<1>9. Sound'
  BY <1>3, <1>4, <1>5, <1>6, <1>7, <1>8, Zenon DEF Sound, OpIsSound, RowIsSound, DiskIsSound, Has
<1> QED
  BY <1>2, <1>9

\* One that fails leaves a disturbed workspace, of which little is said.
LEMMA FailEnds ==
  ASSUME NEW o \in Ops, WorkspacesOK, op[o] # W!NoOp, W!Fail(o)
  PROVE  WorkspacesOK'
<1>1. PICK i \in WorkspaceIds : op[o].id = i
  BY OpRuns
<1>2. /\ op' = [op EXCEPT ![o] = W!NoOp] /\ UNCHANGED <<rowOf, disk, missing, everMet, overlooked>>
      /\ op[o].kind = "create" => disturbed' = disturbed
      /\ op[o].kind # "create" => disturbed' = disturbed \cup {i}
  BY <1>1 DEF W!Fail
<1>3. /\ W!TypeOK /\ DiskIsSound(disk) /\ RowIsSound(rowOf[i], i) /\ RowStands(i)
      /\ missing \in [Repos -> SUBSET [at : W!Roots, on : Names \cup {Detached}]]
      /\ op[o].kind = "create" => rowOf[i].status = "none"
      /\ \A j, k \in WorkspaceIds :
           rowOf[j].status = "active" /\ rowOf[k].status = "active" /\ rowOf[j].name = rowOf[k].name => j = k
  BY <1>1, OpRuns DEF WorkspacesOK, Sound, Stands
<1>4. Sound' /\ op'[o] = W!NoOp /\ \A p \in Ops : p # o => op'[p] = op[p]
  <2>1. /\ disturbed' \subseteq WorkspaceIds /\ overlooked' \subseteq WorkspaceIds
        /\ rowOf' \in [WorkspaceIds -> W!Row] /\ DiskIsSound(disk')
    BY <1>2, <1>3 DEF W!TypeOK
  <2> QED
    BY <1>1, <1>2, <1>3, <2>1, EndsSound
<1>5. EndsAs(o, i)
  <2>1. \A q \in W!Roots : Still(disk, disk', q)
    BY <1>2 DEF Still
  <2> QED
    BY <1>1, <1>2, <1>4, <2>1 DEF EndsAs
<1>6. RowStands(i)'
  <2>1. CASE op[o].kind = "create"
    BY <2>1, <1>2, <1>3 DEF RowStands, Live
  <2>2. CASE op[o].kind # "create"
    <3>1. i \in disturbed'
      BY <2>2, <1>2
    <3>2. Live(rowOf[i]) /\ i \notin everMet => NotElsewhere(disk, rowOf[i], {})
      BY <1>3 DEF RowStands
    <3> QED
      BY <1>2, <3>1, <3>2 DEF RowStands, NotElsewhere, Live, W!Used
  <2> QED
    BY <2>1, <2>2
<1> QED
  BY <1>4, <1>5, <1>6, Ends

\* One that ends well leaves the row that its directory has been made to fit.
LEMMA UpdateEnds ==
  ASSUME NEW o \in Ops, WorkspacesOK, op[o] # W!NoOp, W!Update(o)
  PROVE  WorkspacesOK'
<1>1. PICK i \in WorkspaceIds : op[o].id = i
  BY OpRuns
<1> DEFINE v == op[o]
<1> DEFINE w == v.w
<1> DEFINE left == IF w.status = "deleted" THEN W!Gone ELSE w
<1>2. /\ Stage(v) \in {"insert", "update"}
      /\ w.status = "active" => W!ActiveWith(w.name) \subseteq {i}
      /\ rowOf' = [rowOf EXCEPT ![i] = left]
      /\ op' = [op EXCEPT ![o] = W!NoOp]
      /\ UNCHANGED <<disk, missing, disturbed, everMet, overlooked, troubles>>
  BY <1>1 DEF W!Update, W!Running, Stage
<1>3. /\ W!TypeOK /\ DiskIsSound(disk) /\ v \in W!Operation /\ OpIsSound(v)
      /\ OpStands(disk, disturbed, everMet, overlooked, v) /\ w \in W!Row /\ v.plan \in Courses(v.kind)
      /\ w.root \in W!Places(w)
      /\ missing \in [Repos -> SUBSET [at : W!Roots, on : Names \cup {Detached}]]
  BY OpRuns
<1>4. v.kind \in {"create", "branch", "detached", "remove", "rename", "archive", "delete"} /\ ~ByRow(v) /\ Unmoved(v) = {}
  <2> HIDE DEF v
  <2> QED
    BY <1>2, <1>3, StageIs DEF ByRow, Unmoved
<1>5. /\ left \in W!Row /\ left.status \in {"active", "archived", "deleted"}
      /\ left.status \in {"active", "archived"} => left = w /\ v.kind # "delete"
  <2>1. w.status \in {"active", "archived", "deleted"} /\ (v.kind = "delete" => w.status = "deleted")
    <3> HIDE DEF v
    <3>1. w.status \in {"active", "archived", "deleted"}
      BY <1>3 DEF OpIsSound
    <3>2. v.kind = "delete" /\ Stage(v) = "update" => w.status = "deleted"
      BY <1>3 DEF OpIsSound
    <3>3. v.kind = "delete" => Stage(v) = "update"
      BY <1>2, <1>3, StageIs
    <3> QED
      BY <3>1, <3>2, <3>3
  <2>2. W!Gone \in W!Row /\ W!Gone.status = "deleted"
    BY NothingIs
  <2> HIDE DEF v
  <2> QED
    BY <1>3, <2>1, <2>2
<1>6. RowIsSound(left, i)
  <2>1. w.status = "active" => w.root = w.name
    BY <1>2, <1>3 DEF OpIsSound
  <2>2. w.status = "archived" => w.root = i
    BY <1>1, <1>3 DEF OpIsSound
  <2>3. w.name \in Names /\ w.branch \in Names
    BY <1>3 DEF OpIsSound
  <2> HIDE DEF left
  <2> QED
    BY <1>5, <2>1, <2>2, <2>3 DEF RowIsSound
<1> HIDE DEF left
<1>7. rowOf' \in [WorkspaceIds -> W!Row] /\ rowOf'[i] = left /\ \A j \in WorkspaceIds \ {i} : rowOf'[j] = rowOf[j]
  BY <1>2, <1>3, <1>5 DEF W!TypeOK
<1>8. Sound' /\ op'[o] = W!NoOp /\ \A p \in Ops : p # o => op'[p] = op[p]
  <2>1. disturbed' \subseteq WorkspaceIds /\ overlooked' \subseteq WorkspaceIds /\ DiskIsSound(disk')
    BY <1>2, <1>3 DEF W!TypeOK
  <2>2. v.kind # "create" => rowOf[i].status # "none"
    BY <1>1 DEF WorkspacesOK, Sound
  <2>3. rowOf'[i].status # "none" /\ RowIsSound(rowOf'[i], i)
    BY <1>5, <1>6, <1>7
  <2>4. rowOf'[i].status = "active" => \A j \in WorkspaceIds \ {i} :
          ~(rowOf[j].status = "active" /\ rowOf[j].name = rowOf'[i].name)
    <3>1. left.status = "active" => left = w
      BY <1>5
    <3> QED
      BY <3>1, <1>2, <1>7 DEF W!ActiveWith
  <2>5. v # W!NoOp
    OBVIOUS
  <2>6. missing' \in [Repos -> SUBSET [at : W!Roots, on : Names \cup {Detached}]] /\ everMet' = everMet
    BY <1>2, <1>3
  <2> QED
    BY <1>1, <1>2, <1>7, <2>1, <2>2, <2>3, <2>4, <2>5, <2>6, EndsSound
<1>9. EndsAs(o, i)
  <2>1. \A q \in W!Roots : Still(disk, disk', q)
    BY <1>2 DEF Still
  <2>2. Live(rowOf'[i]) => rowOf'[i].root \in W!Places(w)
    BY <1>3, <1>5, <1>7 DEF Live
  <2> QED
    BY <1>1, <1>2, <1>7, <1>8, <2>1, <2>2 DEF EndsAs
<1>10. RowStands(i)'
  <2>1. Live(left) => left = w /\ v.kind # "delete"
    BY <1>5 DEF Live
  <2>2. /\ v.kind # "delete" /\ i \notin disturbed => FitsRow(disk, overlooked, i, w)
        /\ v.kind # "delete" /\ i \notin everMet => NotElsewhere(disk, w, {})
        /\ v.kind # "delete" /\ i \notin everMet /\ i \notin disturbed => AtHome(disk, w, {})
    BY <1>1, <1>2, <1>3, <1>4 DEF OpStands, Content
  <2> HIDE DEF v
  <2> QED
    BY <1>2, <1>7, <2>1, <2>2 DEF RowStands, FitsRow, NotElsewhere, AtHome, W!Used, W!On, Live
<1> QED
  BY <1>8, <1>9, <1>10, Ends

\* What the restoring of one checkout does to the directories.
RestoredAs(v, p, r) ==
  /\ DiskIsSound(disk') /\ disk'[p].exists
  /\ \A q \in W!Roots : q # p => Still(disk, disk', q)
  /\ \A q \in W!Roots : Homeward(disk, disk', q)
  /\ disk'[p].checkout[r].on = W!On(v.w, r)
  /\ v.id \notin everMet => disk'[p].checkout[r].at = p
  /\ \A s \in Repos : s # r =>
       /\ disk'[p].checkout[s].on = disk[p].checkout[s].on
       /\ disk'[p].checkout[s].at \in {disk[p].checkout[s].at, Nowhere}
       /\ disk[p].checkout[s].at = p => disk'[p].checkout[s].at = p
  /\ missing' \in [Repos -> SUBSET [at : W!Roots, on : Names \cup {Detached}]]

\* A checkout that a repair kept or made again is on what the row says; others
\* are only forgotten where they were not.
LEMMA RestoreIs ==
  ASSUME NEW o \in Ops, WorkspacesOK, op[o] # W!NoOp, Stage(op[o]) = "restore", NEW r \in op[o].todo,
         NEW p, p = op[o].w.root,
         W!Keep(p, r, W!On(op[o].w, r)) \/ W!Again(p, r, W!On(op[o].w, r))
  PROVE  RestoredAs(op[o], p, r)
<1> DEFINE v == op[o]
<1> DEFINE on == W!On(v.w, r)
<1>1. /\ DiskIsSound(disk) /\ disk \in [W!Roots -> W!Root] /\ v \in W!Operation /\ OpIsSound(v)
      /\ OpStands(disk, disturbed, everMet, overlooked, v) /\ v.w \in W!Row /\ r \in Repos
      /\ p \in W!Roots /\ p = v.w.root /\ p # Nowhere /\ v.plan \in Courses(v.kind)
      /\ missing \in [Repos -> SUBSET [at : W!Roots, on : Names \cup {Detached}]]
  BY OpRuns
<1>2. v.kind = "repair" /\ Stage(v) = "restore" /\ Unmoved(v) = {} /\ r \in W!Used(v.w)
  <2> HIDE DEF v
  <2>1. Stage(v) = "restore" /\ r \in v.todo
    BY DEF v
  <2> QED
    BY <1>1, <2>1, StageIs DEF Unmoved, OpIsSound
<1>3. on \in Names \cup {Detached} /\ on # Nowhere
  BY <1>1, WorkspacesAssumption DEF OpIsSound, W!On
<1>4. v.id \notin everMet => disk[p].checkout[r].at \in {p, Nowhere}
  BY <1>1, <1>2 DEF OpStands, NotElsewhere
<1>5. CASE W!Keep(p, r, on)
  <2>1. /\ W!There(p, r) /\ disk[p].checkout[r].at # Nowhere /\ disk[p].checkout[r].on = on
        /\ missing' = missing
    BY <1>5 DEF W!Keep, W!Usable
  <2>0. disk' = disk \/ disk' = WithPath(disk, p, r, p)
    <3>1. CASE \E t \in W!Worktrees(r) : t.at = p
      BY <1>5, <3>1 DEF W!Keep
    <3>2. CASE ~\E t \in W!Worktrees(r) : t.at = p
      BY <1>5, <3>2 DEF W!Keep, WithPath
    <3> QED
      BY <3>1, <3>2
  <2>2. disk[p].exists
    BY <1>1, <2>1 DEF W!There, DiskIsSound, Has
  <2> HIDE DEF on, v
  <2>3. CASE disk' = disk
    <3>1. \A q \in W!Roots : Still(disk, disk', q) /\ Homeward(disk, disk', q)
      BY <2>3 DEF Still, Homeward
    <3>2. v.id \notin everMet => disk'[p].checkout[r].at = p
      BY <1>4, <2>1, <2>3
    <3>3. DiskIsSound(disk') /\ disk'[p].exists /\ disk'[p].checkout[r].on = on
      BY <1>1, <2>1, <2>2, <2>3
    <3>4. \A s \in Repos : disk'[p].checkout[s] = disk[p].checkout[s]
      BY <2>3
    <3>5. missing' \in [Repos -> SUBSET [at : W!Roots, on : Names \cup {Detached}]]
      BY <1>1, <2>1
    <3>6. \A s \in Repos : s # r =>
            /\ disk'[p].checkout[s].on = disk[p].checkout[s].on
            /\ disk'[p].checkout[s].at \in {disk[p].checkout[s].at, Nowhere}
            /\ disk[p].checkout[s].at = p => disk'[p].checkout[s].at = p
      BY <3>4
    <3>8. disk'[p].checkout[r].on = W!On(v.w, r)
      BY <3>3 DEF on
    <3>9. missing' \in [Repos -> SUBSET [at : W!Roots, on : Names \cup {Detached}]]
      BY <3>5
    <3>10. /\ v.id \notin everMet => disk'[p].checkout[r].at = p
           /\ \A q \in W!Roots : q # p => Still(disk, disk', q)
           /\ \A q \in W!Roots : Homeward(disk, disk', q)
      BY <3>1, <3>2
    <3>7. RestoredAs(v, p, r)
      BY <3>3, <3>6, <3>8, <3>9, <3>10, Zenon DEF RestoredAs
    <3> QED
      BY <3>7 DEF v
  <2>4. CASE disk' = WithPath(disk, p, r, p)
    <3>1. p \in W!Paths
      BY <1>1 DEF W!Paths
    <3>2. /\ OneChanged(disk, disk', p, r)
          /\ disk'[p].checkout[r].at = p /\ disk'[p].checkout[r].on = on
      BY <1>1, <2>1, <2>4, <3>1, PathSet
    <3>3. Has(disk', p, r) /\ disk'[p].exists
      BY <1>1, <1>3, <2>2, <3>2 DEF Has, OneChanged
    <3>4. /\ DiskIsSound(disk')
          /\ \A q \in W!Roots : q # p => Still(disk, disk', q)
          /\ \A q \in W!Roots : Homeward(disk, disk', q)
      <4>1. /\ disk' \in [W!Roots -> W!Root]
            /\ \A q \in W!Roots : q # p => disk'[q].exists = disk[q].exists
            /\ \A q \in W!Roots, s \in Repos : q # p \/ s # r => disk'[q].checkout[s] = disk[q].checkout[s]
        BY <3>2 DEF OneChanged
      <4> QED
        BY <1>1, <3>2, <3>3, <4>1, OneCheckout
    <3>5. \A s \in Repos : s # r => disk'[p].checkout[s] = disk[p].checkout[s]
      BY <1>1, <3>2 DEF OneChanged
    <3>6. \A s \in Repos : s # r =>
            /\ disk'[p].checkout[s].on = disk[p].checkout[s].on
            /\ disk'[p].checkout[s].at \in {disk[p].checkout[s].at, Nowhere}
            /\ disk[p].checkout[s].at = p => disk'[p].checkout[s].at = p
      BY <3>5
    <3>8. disk'[p].checkout[r].on = W!On(v.w, r)
      BY <3>2 DEF on
    <3>9. missing' \in [Repos -> SUBSET [at : W!Roots, on : Names \cup {Detached}]]
      BY <1>1, <2>1
    <3>10. /\ v.id \notin everMet => disk'[p].checkout[r].at = p
           /\ \A q \in W!Roots : q # p => Still(disk, disk', q)
           /\ \A q \in W!Roots : Homeward(disk, disk', q)
      BY <3>2, <3>4
    <3>7. RestoredAs(v, p, r)
      BY <3>3, <3>4, <3>6, <3>8, <3>9, <3>10, Zenon DEF RestoredAs
    <3> QED
      BY <3>7 DEF v
  <2> QED
    BY <2>0, <2>3, <2>4 DEF v
<1>6. CASE W!Again(p, r, on)
  <2> DEFINE ps == W!Prunable(r)
  <2> DEFINE no == FALSE
  <2> DEFINE c == [at |-> p, on |-> on, dirty |-> no]
  <2> DEFINE d == W!Forget(disk, r, ps)
  <2>1. /\ disk' = WithAdded(d, p, r, c)
        /\ missing' = W!Kept(r, ps)
    BY <1>6 DEF W!Again, WithAdded
  <2>2. c \in W!Checkout /\ c.at = p /\ c.on = on
    <3>1. no \in BOOLEAN
      OBVIOUS
    <3> HIDE DEF no, on
    <3> QED
      BY <1>1, <1>3, <3>1 DEF W!Checkout, W!Paths
  <2> HIDE DEF c, ps, on
  <2>3. /\ d \in [W!Roots -> W!Root]
        /\ \A q \in W!Roots : d[q].exists = disk[q].exists
        /\ \A q \in W!Roots, s \in Repos :
             /\ d[q].checkout[s].on = disk[q].checkout[s].on
             /\ d[q].checkout[s].at \in {disk[q].checkout[s].at, Nowhere}
             /\ disk[q].checkout[s].at = q => d[q].checkout[s].at = q
             /\ s # r => d[q].checkout[s] = disk[q].checkout[s]
             /\ disk[q].checkout[s].at \notin ps => d[q].checkout[s] = disk[q].checkout[s]
    BY <1>1, Forgotten
  <2> HIDE DEF d
  <2>4. /\ disk' \in [W!Roots -> W!Root] /\ disk'[p].exists /\ disk'[p].checkout[r] = c
        /\ \A q \in W!Roots : q # p => disk'[q].exists = d[q].exists
        /\ \A q \in W!Roots, s \in Repos : q # p \/ s # r => disk'[q].checkout[s] = d[q].checkout[s]
    BY <1>1, <2>1, <2>2, <2>3, CheckoutAdded
  <2>5. Nowhere \notin ps
    BY NothingIs DEF ps, W!Prunable
  <2>6. DiskIsSound(d)
    <3>1. \A q \in W!Roots, s \in Repos : Has(d, q, s) <=> Has(disk, q, s)
      BY <2>3 DEF Has
    <3>2. ASSUME NEW q \in W!Roots, NEW s \in Repos, ~Has(d, q, s)
          PROVE  d[q].checkout[s] = W!NoCheckout
      <4>1. disk[q].checkout[s] = W!NoCheckout
        BY <1>1, <3>1, <3>2 DEF DiskIsSound
      <4> QED
        BY <4>1, <2>3, <2>5, NothingIs
    <3> QED
      BY <1>1, <2>3, <3>1, <3>2 DEF DiskIsSound
  <2>7. Has(disk', p, r) /\ disk'[p].checkout[r].at = p /\ disk'[p].checkout[r].on = on
    BY <1>3, <2>2, <2>4 DEF Has
  <2>8. /\ DiskIsSound(disk')
        /\ \A q \in W!Roots : q # p => Still(d, disk', q)
        /\ \A q \in W!Roots : Homeward(d, disk', q)
    BY <1>1, <2>4, <2>6, <2>7, OneCheckout
  <2>9. /\ \A q \in W!Roots : q # p => Still(disk, disk', q)
        /\ \A q \in W!Roots : Homeward(disk, disk', q)
    BY <2>3, <2>8 DEF Still, Homeward
  <2>10. \A s \in Repos : s # r => disk'[p].checkout[s] = disk[p].checkout[s]
    BY <1>1, <2>3, <2>4
  <2>11. missing' \in [Repos -> SUBSET [at : W!Roots, on : Names \cup {Detached}]]
    BY <1>1, <2>1, KeptIs
  <2> QED
    BY <2>4, <2>7, <2>8, <2>9, <2>10, <2>11 DEF RestoredAs, on, v
<1> QED
  BY <1>5, <1>6

\* What stands of a repair as the last of what is to do is done.
LEMMA RestoreStands ==
  ASSUME NEW o \in Ops, WorkspacesOK, op[o] # W!NoOp, Stage(op[o]) = "restore", NEW r \in op[o].todo,
         NEW p, p = op[o].w.root,
         W!Keep(p, r, W!On(op[o].w, r)) \/ W!Again(p, r, W!On(op[o].w, r)),
         NEW m, m.kind = "repair", m.id = op[o].id, m.w = op[o].w, m.alone = op[o].alone, m.over = op[o].over,
         Stage(m) = "restore", m.todo = op[o].todo \ {r}
  PROVE  OpStands(disk', disturbed, everMet, overlooked, m)
<1> DEFINE v == op[o]
<1>1. /\ OpIsSound(v) /\ OpStands(disk, disturbed, everMet, overlooked, v) /\ r \in Repos /\ v.plan \in Courses(v.kind)
      /\ p = v.w.root /\ W!Used(v.w) \subseteq Repos
  BY OpRuns DEF W!Used
<1>2. v.kind = "repair" /\ Stage(v) = "restore" /\ Unmoved(v) = {} /\ r \in W!Used(v.w) /\ (ByRow(v) <=> ByRow(m))
  <2>1. Stage(v) = "restore" /\ r \in v.todo
    OBVIOUS
  <2>2. v.kind = "repair"
    <3> HIDE DEF v
    <3> QED
      BY <1>1, <2>1, StageIs
  <2>3. ByRow(v) <=> ByRow(m)
    BY <2>2 DEF ByRow
  <2> HIDE DEF v
  <2> QED
    BY <1>1, <2>1, <2>2, <2>3 DEF Unmoved, OpIsSound
<1>3. RestoredAs(v, p, r)
  BY RestoreIs
<1>4. m.id = v.id /\ m.w = v.w /\ m.todo = v.todo \ {r} /\ m.over = v.over /\ Unmoved(m) = {}
  BY DEF Unmoved
<1> HIDE DEF v
<1>5. Content(disk, overlooked, v) => Content(disk', overlooked, m)
  <2>1. Content(disk, overlooked, v) /\ ~v.over => \A s \in Repos : Has(disk', p, s) => s \in W!Used(v.w)
    BY <1>1, <1>2, <1>3 DEF Content, Has, RestoredAs
  <2>2. Content(disk, overlooked, v) => \A s \in W!Used(v.w) \ m.todo : disk'[p].checkout[s].on = W!On(v.w, s)
    BY <1>1, <1>2, <1>3, <1>4 DEF Content, RestoredAs
  <2> QED
    BY <1>1, <1>3, <1>4, <2>1, <2>2 DEF Content, RestoredAs
<1>6. v.id \notin everMet /\ NotElsewhere(disk, v.w, {}) => NotElsewhere(disk', v.w, {})
  BY <1>1, <1>3 DEF NotElsewhere, RestoredAs
<1>7. v.id \notin everMet /\ AtHome(disk, v.w, v.todo) => AtHome(disk', v.w, m.todo)
  BY <1>1, <1>3, <1>4 DEF AtHome, RestoredAs
<1> QED
  BY <1>1, <1>2, <1>4, <1>5, <1>6, <1>7 DEF OpStands

\* A repair ends: it has made the row and the directories agree.
LEMMA RestoreEnds ==
  ASSUME NEW o \in Ops, WorkspacesOK, op[o] # W!NoOp, Stage(op[o]) = "restore",
         W!Proceed(o, op[o].w, {}), W!Healed(o, {}), UNCHANGED <<rowOf, everMet>>,
         DiskIsSound(disk'), \A q \in W!Roots : q # op[o].w.root => Still(disk, disk', q),
         missing' \in [Repos -> SUBSET [at : W!Roots, on : Names \cup {Detached}]],
         NEW m, m.kind = "repair", m.id = op[o].id, m.w = op[o].w, m.alone = op[o].alone, m.over = op[o].over,
         Stage(m) = "restore", m.todo = {}, OpStands(disk', disturbed, everMet, overlooked, m)
  PROVE  WorkspacesOK'
<1>1. PICK i \in WorkspaceIds : op[o].id = i
  BY OpRuns
<1> DEFINE v == op[o]
<1>2. /\ W!TypeOK /\ v.w.root \in W!Places(v.w) /\ v.plan \in Courses(v.kind) /\ RowIsSound(rowOf[i], i)
      /\ OpStands(disk, disturbed, everMet, overlooked, v)
      /\ \A j, k \in WorkspaceIds :
           rowOf[j].status = "active" /\ rowOf[k].status = "active" /\ rowOf[j].name = rowOf[k].name => j = k
  BY <1>1, OpRuns DEF WorkspacesOK, Sound
<1>3. v.kind = "repair" /\ Len(v.plan) = 1
  <2>1. Stage(v) = "restore"
    OBVIOUS
  <2> HIDE DEF v
  <2> QED
    BY <1>2, <2>1, StageIs
<1>4. op' = [op EXCEPT ![o] = W!NoOp]
  BY <1>3 DEF W!Proceed
<1>5. /\ ByRow(v) => /\ disturbed' = disturbed \ {i} /\ v.w = rowOf[i]
                      /\ overlooked' = IF v.over THEN overlooked \cup {i} ELSE overlooked \ {i}
      /\ ~ByRow(v) => disturbed' = disturbed /\ overlooked' = overlooked /\ i \in disturbed /\ i \in everMet
  <2>1. v.alone => /\ disturbed' = disturbed \ {i}
                   /\ overlooked' = IF v.over THEN overlooked \cup {i} ELSE overlooked \ {i}
    BY <1>1, <1>3 DEF W!Healed
  <2>2. ~v.alone => disturbed' = disturbed /\ overlooked' = overlooked
    BY <1>1, <1>3 DEF W!Healed
  <2>3. ByRow(v) => v.w = rowOf[i]
    BY <1>1 DEF WorkspacesOK, Apart
  <2>4. ~v.alone => i \in disturbed /\ i \in everMet
    BY <1>1, <1>3 DEF WorkspacesOK, Apart
  <2> QED
    BY <1>3, <2>1, <2>2, <2>3, <2>4 DEF ByRow
<1>6. Sound' /\ op'[o] = W!NoOp /\ \A p \in Ops : p # o => op'[p] = op[p]
  <2>1. disturbed' \subseteq WorkspaceIds /\ overlooked' \subseteq WorkspaceIds /\ rowOf' \in [WorkspaceIds -> W!Row]
    BY <1>2, <1>5 DEF W!TypeOK
  <2> QED
    BY <1>1, <1>2, <1>4, <2>1, EndsSound
<1>7. EndsAs(o, i)
  BY <1>1, <1>2, <1>5, <1>6 DEF EndsAs
<1>8. RowStands(i)'
  <2>1. CASE ByRow(v)
    <3>1. m.w = rowOf[i] /\ m.id = i /\ ByRow(m) /\ Unmoved(m) = {} /\ W!Used(rowOf[i]) \subseteq Repos
      BY <2>1, <1>1, <1>5 DEF ByRow, Unmoved, W!Used
    <3>2. Content(disk', overlooked, m)
      BY <3>1 DEF OpStands
    <3>3. FitsRow(disk', overlooked', i, rowOf[i])
      BY <2>1, <1>5, <3>1, <3>2 DEF Content, FitsRow, Has
    <3>4. i \notin everMet => NotElsewhere(disk', rowOf[i], {}) /\ AtHome(disk', rowOf[i], {})
      BY <3>1 DEF OpStands
    <3> QED
      BY <3>3, <3>4 DEF RowStands, FitsRow, NotElsewhere, AtHome, W!Used, W!On, Live
  <2>2. CASE ~ByRow(v)
    BY <2>2, <1>5 DEF RowStands
  <2> QED
    BY <2>1, <2>2
<1> QED
  BY <1>6, <1>7, <1>8, Ends

\* A repair that has more to restore goes on; one that has not ends, and the
\* disturbance with it if nothing has met it.
LEMMA RestoreOK ==
  ASSUME NEW o \in Ops, WorkspacesOK, op[o] # W!NoOp, W!Restore(o)
  PROVE  WorkspacesOK'
<1> DEFINE v == op[o]
<1> DEFINE n == op'[o]
<1>0. PICK r \in op[o].todo :
        /\ W!Running(o, "restore")
        /\ \/ W!Keep(op[o].w.root, r, W!On(op[o].w, r))
           \/ W!Again(op[o].w.root, r, W!On(op[o].w, r))
        /\ W!Done(o, r, op[o].w)
        /\ W!Healed(o, op[o].todo \ {r})
        /\ UNCHANGED <<rowOf, everMet, troubles>>
  BY DEF W!Restore
<1>1. /\ Stage(v) = "restore"
      /\ W!Keep(v.w.root, r, W!On(v.w, r)) \/ W!Again(v.w.root, r, W!On(v.w, r))
      /\ W!Proceed(o, v.w, v.todo \ {r})
      /\ W!Healed(o, v.todo \ {r})
      /\ UNCHANGED <<rowOf, everMet, troubles>>
  BY <1>0 DEF W!Running, W!Done, Stage
<1> DEFINE todo == v.todo \ {r}
<1>2. /\ op \in [Ops -> W!Operation] /\ OpIsSound(v) /\ v.w \in W!Row /\ v.plan \in Courses(v.kind)
      /\ OpStands(disk, disturbed, everMet, overlooked, v) /\ todo \in SUBSET Repos
      /\ v.w.root \in W!Places(v.w)
      /\ Live(rowOf[v.id]) => rowOf[v.id].root \in W!Roots
  BY OpRuns
<1>3. v.kind = "repair"
  <2> HIDE DEF v
  <2> QED
    BY <1>1, <1>2, StageIs
<1>4. /\ DiskIsSound(disk')
      /\ \A q \in W!Roots : q # v.w.root => Still(disk, disk', q)
      /\ \A q \in W!Roots : Homeward(disk, disk', q)
      /\ missing' \in [Repos -> SUBSET [at : W!Roots, on : Names \cup {Detached}]]
  <2> DEFINE p == v.w.root
  <2>1. RestoredAs(v, p, r) /\ p = v.w.root
    BY <1>1, RestoreIs
  <2> HIDE DEF p, v
  <2> QED
    BY <2>1 DEF RestoredAs
<1> DEFINE m == [kind |-> "repair", id |-> v.id, w |-> v.w, plan |-> v.plan, alone |-> v.alone,
                  over |-> v.over, todo |-> todo]
<1>5. /\ m.kind = "repair" /\ m.id = v.id /\ m.w = v.w /\ m.plan = v.plan /\ m.alone = v.alone
      /\ m.over = v.over /\ m.todo = todo /\ Stage(m) = "restore"
  BY <1>1 DEF Stage
<1> HIDE DEF m
<1>6. OpStands(disk', disturbed, everMet, overlooked, m)
  BY <1>1, <1>5, RestoreStands
<1>7. CASE todo = {}
  BY <1>1, <1>4, <1>5, <1>6, <1>7, RestoreEnds
<1>8. CASE todo # {}
  <2> DEFINE left == todo
  <2>1. left \in SUBSET Repos /\ left # {} /\ W!Proceed(o, v.w, left) /\ left \subseteq v.todo
    BY <1>1, <1>2, <1>8
  <2> HIDE DEF left
  <2>2. /\ op' \in [Ops -> W!Operation] /\ \A p \in Ops : p # o => op'[p] = op[p]
        /\ n.kind = v.kind /\ n.id = v.id /\ n.alone = v.alone /\ n.w = v.w /\ n.plan = v.plan /\ n.todo = left
        /\ n.over = v.over
    BY <1>2, <2>1, ProceedIs
  <2>3. disturbed' = disturbed /\ overlooked' = overlooked
    BY <1>1, <1>8 DEF W!Healed
  <2>4. v # W!NoOp
    OBVIOUS
  <2> HIDE DEF n
  <2>5. Stage(n) = "restore" /\ Stage(v) = "restore" /\ left = m.todo
    BY <1>1, <1>5, <2>2 DEF Stage, left
  <2> HIDE DEF v
  <2>6. OpIsSound(n)
    BY <1>2, <1>3, <2>1, <2>2, <2>5 DEF OpIsSound
  <2>7. Unmoved(n) = Unmoved(m) /\ (ByRow(n) <=> ByRow(m))
    BY <1>3, <1>5, <2>2, <2>5 DEF Unmoved, ByRow
  <2>8. OpStands(disk', disturbed, everMet, overlooked, n)
    BY <1>3, <1>5, <1>6, <2>2, <2>5, <2>7 DEF OpStands, Content
  <2>9. ~ToMove(n)
    BY <2>5 DEF ToMove
  <2>10. GoesAs(o)
    BY <1>1, <1>2, <1>4, <2>2, <2>3, <2>4, <2>6, <2>8, <2>9 DEF GoesAs, n, v
  <2> QED
    BY <2>10, Goes
<1> QED
  BY <1>7, <1>8

\* A stage of a workspace without repositories has nothing to do.
LEMMA NoneOK ==
  ASSUME NEW o \in Ops, WorkspacesOK, op[o] # W!NoOp, W!NoneToDo(o)
  PROVE  WorkspacesOK'
<1> DEFINE v == op[o]
<1>1. CASE Stage(v) = "restore"
  <2>1. /\ v.todo = {} /\ W!Proceed(o, v.w, {}) /\ W!Healed(o, {})
        /\ UNCHANGED <<rowOf, disk, missing, everMet, troubles>>
    BY DEF W!NoneToDo
  <2>2. /\ DiskIsSound(disk) /\ v.plan \in Courses(v.kind) /\ OpStands(disk, disturbed, everMet, overlooked, v)
        /\ missing \in [Repos -> SUBSET [at : W!Roots, on : Names \cup {Detached}]]
    BY OpRuns
  <2>3. v.kind = "repair"
    <3> HIDE DEF v
    <3> QED
      BY <1>1, <2>2, StageIs
  <2>4. \A q \in W!Roots : Still(disk, disk', q)
    BY <2>1 DEF Still
  <2>5. DiskIsSound(disk') /\ OpStands(disk', disturbed, everMet, overlooked, v)
    BY <2>1, <2>2
  <2> QED
    BY <1>1, <2>1, <2>2, <2>3, <2>4, <2>5, RestoreEnds
<1>2. CASE Stage(v) # "restore"
  BY <1>2, NoneGoes, Goes
<1> QED
  BY <1>1, <1>2

\* Whatever an operation that runs does next.
LEMMA ContinueOK ==
  ASSUME NEW o \in Ops, WorkspacesOK, W!Continue(o)
  PROVE  WorkspacesOK'
<1>1. op[o] # W!NoOp
  BY DEF W!Continue
<1>2. \/ W!Mkdir(o) \/ W!Attach(o) \/ W!Remove(o) \/ W!Clean(o) \/ W!Detach(o) \/ W!Move(o)
      \/ W!RepairPath(o) \/ W!Rm(o) \/ W!Update(o) \/ W!Check(o) \/ W!MkRoot(o) \/ W!Restore(o)
      \/ W!NoneToDo(o) \/ W!Fail(o)
  BY DEF W!Continue
<1>3. CASE W!Mkdir(o) \/ W!Attach(o) \/ W!Remove(o) \/ W!Clean(o) \/ W!Detach(o)
  BY <1>1, <1>3, MkdirGoes, AttachGoes, RemoveGoes, CleanGoes, DetachGoes, Goes
<1>4. CASE W!Move(o) \/ W!RepairPath(o) \/ W!Rm(o) \/ W!Check(o) \/ W!MkRoot(o)
  BY <1>1, <1>4, MoveGoes, RepairPathGoes, RmGoes, CheckGoes, MkRootGoes, Goes
<1>5. CASE W!Update(o) \/ W!Restore(o) \/ W!NoneToDo(o) \/ W!Fail(o)
  BY <1>1, <1>5, UpdateEnds, RestoreOK, NoneOK, FailEnds
<1> QED
  BY <1>2, <1>3, <1>4, <1>5

-----------------------------------------------------------------------------
\* Operations that differ in whether they are alone.
Alike(n, v) ==
  /\ n.kind = v.kind /\ n.id = v.id /\ n.w = v.w /\ n.plan = v.plan /\ n.todo = v.todo
  /\ n.over = v.over /\ (ByRow(n) => ByRow(v))

\* What holds of an operation holds of it when it is no longer alone.
LEMMA AlikeIs ==
  ASSUME NEW n, NEW v, Alike(n, v)
  PROVE  /\ OpIsSound(v) => OpIsSound(n)
         /\ ToMove(n) <=> ToMove(v)
         /\ \A d, ds, ms, os, ds2, ms2 :
              OpStands(d, ds, ms, os, v) /\ (v.id \in ds => v.id \in ds2) /\ (v.id \in ms => v.id \in ms2)
                => OpStands(d, ds2, ms2, os, n)
<1>1. /\ n.kind = v.kind /\ n.id = v.id /\ n.w = v.w /\ n.plan = v.plan /\ n.todo = v.todo
      /\ n.over = v.over /\ (ByRow(n) => ByRow(v))
  BY DEF Alike
<1>2. Stage(n) = Stage(v)
  BY <1>1 DEF Stage
<1>3. OpIsSound(v) => OpIsSound(n)
  BY <1>1, <1>2 DEF OpIsSound
<1>4. ToMove(n) <=> ToMove(v)
  BY <1>1, <1>2 DEF ToMove
<1>5. Unmoved(n) = Unmoved(v)
  BY <1>1, <1>2 DEF Unmoved
<1>6. \A d, os : Content(d, os, v) => Content(d, os, n)
  BY <1>1, <1>2 DEF Content
<1>7. ASSUME NEW d, NEW ds, NEW ms, NEW os, NEW ds2, NEW ms2,
             OpStands(d, ds, ms, os, v), v.id \in ds => v.id \in ds2, v.id \in ms => v.id \in ms2
      PROVE  OpStands(d, ds2, ms2, os, n)
  BY <1>1, <1>2, <1>5, <1>6, <1>7 DEF OpStands
<1> QED
  BY <1>3, <1>4, <1>7

\* What Begin makes of the operations.
Together(o, i, w) ==
  IF W!Others(o, i, w) = {} THEN {} ELSE {i} \cup {op[p].id : p \in W!Others(o, i, w)}

BeganAs(o, kind, i, w, plan, todo) ==
  /\ op' \in [Ops -> W!Operation]
  /\ op'[o].kind = kind /\ op'[o].id = i /\ op'[o].w = w /\ op'[o].plan = plan /\ op'[o].todo = todo
  /\ kind = "repair" => (op'[o].alone <=> W!Others(o, i, w) = {})
  /\ \A p \in Ops : p # o => Alike(op'[p], op[p])
  /\ \A p \in Ops : p # o /\ p \notin W!Others(o, i, w) => op'[p] = op[p]
  /\ \A p \in W!Others(o, i, w) : p \in Ops /\ p # o /\ ~ByRow(op'[p])
  /\ \A p \in Ops : op[p] = W!NoOp => p = o \/ op'[p] = W!NoOp
  /\ disturbed' = disturbed \cup Together(o, i, w) /\ everMet' = everMet \cup Together(o, i, w)
  /\ overlooked' = overlooked

\* What Begin does to the other operations is only that repairs it meets are no
\* longer alone.
LEMMA BeginMakes ==
  ASSUME NEW o \in Ops, op \in [Ops -> W!Operation], NEW i \in WorkspaceIds, NEW w \in W!Row,
         NEW kind \in W!Kinds, NEW plan \in Seq(W!Stages), NEW todo \in SUBSET Repos, NEW force \in BOOLEAN,
         W!Begin(o, kind, i, w, plan, todo, force)
  PROVE  BeganAs(o, kind, i, w, plan, todo)
<1> DEFINE os == W!Others(o, i, w)
<1> DEFINE alone == kind # "repair" \/ os = {}
<1> DEFINE new == [kind |-> kind, id |-> i, w |-> w, plan |-> plan, todo |-> todo, force |-> force, alone |-> alone,
                 over |-> FALSE]
<1> DEFINE running == [op EXCEPT ![o] = new]
<1>1. op' = W!Met(running, os)
  BY DEF W!Begin
<1>2. /\ disturbed' = disturbed \cup Together(o, i, w) /\ everMet' = everMet \cup Together(o, i, w)
      /\ overlooked' = overlooked
  BY DEF W!Begin, Together
<1>3. os \subseteq Ops \ {o} /\ \A p \in os : op[p] # W!NoOp
  BY DEF W!Others
<1>4. alone \in BOOLEAN /\ (kind = "repair" => (alone <=> os = {}))
  OBVIOUS
<1> HIDE DEF alone, os
<1>5. /\ new \in W!Operation /\ new.kind = kind /\ new.id = i /\ new.w = w /\ new.plan = plan
      /\ new.todo = todo /\ new.alone = alone
  BY <1>4 DEF W!Operation
<1> HIDE DEF new
<1>6. running \in [Ops -> W!Operation] /\ running[o] = new /\ \A p \in Ops : p # o => running[p] = op[p]
  BY <1>5
<1> HIDE DEF running
<1>7. \A p \in Ops : op'[p] = IF p \in os /\ running[p].kind = "repair" THEN [running[p] EXCEPT !.alone = FALSE]
                              ELSE running[p]
  BY <1>1 DEF W!Met
<1>8. op' = [p \in Ops |-> op'[p]]
  BY <1>1 DEF W!Met
<1>9. ASSUME NEW p \in Ops, p \in os, running[p].kind = "repair"
      PROVE  op'[p] \in W!Operation /\ Alike(op'[p], op[p]) /\ ~ByRow(op'[p])
  <2> DEFINE no == FALSE
  <2>1. no \in BOOLEAN /\ ~no
    OBVIOUS
  <2>2. op'[p] = [running[p] EXCEPT !.alone = no]
    BY <1>7, <1>9
  <2> HIDE DEF no
  <2>3. running[p] = op[p] /\ op[p] \in W!Operation
    BY <1>3, <1>6, <1>9
  <2> DEFINE n == op'[p]
  <2> DEFINE v == op[p]
  <2>4. n = [v EXCEPT !.alone = no] /\ v \in W!Operation
    BY <2>2, <2>3
  <2> HIDE DEF n, v
  <2>5. /\ n \in W!Operation /\ n.kind = v.kind /\ n.id = v.id /\ n.w = v.w /\ n.plan = v.plan /\ n.todo = v.todo
        /\ n.over = v.over /\ ~n.alone
    BY <2>1, <2>4 DEF W!Operation
  <2> QED
    BY <2>5 DEF n, v, Alike, ByRow
<1>10. ASSUME NEW p \in Ops, p \notin os \/ running[p].kind # "repair"
       PROVE  op'[p] = running[p]
  BY <1>7, <1>10
<1>11. o \notin os /\ op'[o] = new
  BY <1>3, <1>6, <1>10
<1>12. ASSUME NEW p \in Ops, p # o
       PROVE  /\ op'[p] \in W!Operation /\ Alike(op'[p], op[p])
              /\ p \notin os => op'[p] = op[p]
              /\ p \in os => ~ByRow(op'[p])
              /\ op[p] = W!NoOp => op'[p] = W!NoOp
  <2>1. running[p] = op[p] /\ op[p] \in W!Operation
    BY <1>6, <1>12
  <2>2. CASE p \in os /\ running[p].kind = "repair"
    BY <1>3, <1>9, <2>2
  <2>3. CASE p \notin os \/ running[p].kind # "repair"
    <3>1. op'[p] = op[p]
      BY <1>10, <2>1, <2>3
    <3> QED
      BY <2>1, <2>3, <3>1 DEF Alike, ByRow
  <2> QED
    BY <2>2, <2>3
<1>13. op' \in [Ops -> W!Operation]
  <2>1. \A p \in Ops : op'[p] \in W!Operation
    BY <1>5, <1>11, <1>12
  <2> QED
    BY <1>8, <2>1
<1> QED
  BY <1>2, <1>3, <1>4, <1>5, <1>11, <1>12, <1>13 DEF os, BeganAs

\* What an operation needs to begin: the row that it works on, or none.
BegunOn(o, i, w) ==
  LET n == op'[o]
  IN /\ W!NoOp = op[o] /\ n.id = i /\ n.w = w /\ OpIsSound(n)
     /\ n.kind = "create" => /\ Stage(n) = "mkdir" /\ rowOf[i].status = "none"
                             /\ \A p \in Ops : op[p].id # i
     /\ n.kind # "create" => /\ Live(rowOf[i]) /\ w.root = rowOf[i].root
                             /\ w.mode = rowOf[i].mode /\ w.branch = rowOf[i].branch
     /\ n.kind = "delete" => Stage(n) = "clean"
     /\ n.kind = "repair" => Stage(n) = "check" /\ w = rowOf[i]
     /\ Stage(n) # "repair"
     /\ \A j \in WorkspaceIds \ {i} : rowOf[j].status = "active" => ~(w.status = "active" /\ rowOf[j].name = w.name)
     /\ rowOf' = rowOf /\ disk' = disk /\ missing' = missing

\* The directories of an operation that begins are those of no other
\* workspace's row.
LEMMA BegunApart ==
  ASSUME NEW o \in Ops, NEW i \in WorkspaceIds, NEW w, WorkspacesOK, BegunOn(o, i, w)
  PROVE  /\ \A j \in WorkspaceIds \ {i} : Live(rowOf[j]) => rowOf[j].root \notin W!Places(w)
         /\ Live(rowOf[i]) => rowOf[i].root \in W!Places(w)
<1> DEFINE n == op'[o]
<1>1. n.w = w /\ OpIsSound(n) /\ n.id = i
  BY DEF BegunOn
<1>2. w.root \in W!Places(w)
  BY DEF W!Places
<1>3. ASSUME Live(rowOf[i])
      PROVE  w.root = rowOf[i].root
  BY <1>3 DEF BegunOn, Live
<1>4. ASSUME NEW j \in WorkspaceIds \ {i}, Live(rowOf[j]), rowOf[j].root \in W!Places(w)
      PROVE  FALSE
  <2> DEFINE place == rowOf[j].root
  <2>1. W!Places(w) = {w.root} \cup IF w.status = "active" THEN {w.name} ELSE {}
    BY NothingIs DEF W!Places
  <2>2. RowIsSound(rowOf[j], j) /\ RowIsSound(rowOf[i], i)
    BY DEF WorkspacesOK, Sound
  <2>3. \/ rowOf[j].status = "active" /\ place = rowOf[j].name /\ place \in Names
        \/ rowOf[j].status = "archived" /\ place = j
    BY <1>4, <2>2 DEF RowIsSound, Live
  <2>4. w.root \in Names \cup {i} /\ w.name \in Names
    BY <1>1 DEF OpIsSound
  <2>5. place \in Names /\ rowOf[j].status = "active" /\ place = rowOf[j].name
    BY <1>4, <2>1, <2>3, <2>4, NothingIs
  <2>6. CASE w.status = "active" /\ place = w.name
    BY <2>5, <2>6 DEF BegunOn
  <2>7. CASE place = w.root
    <3>1. CASE n.kind = "create"
      <4>1. w.status = "active" /\ w.root = w.name
        BY <1>1, <3>1 DEF OpIsSound
      <4> QED
        BY <4>1, <2>5, <2>7 DEF BegunOn
    <3>2. CASE n.kind # "create"
      <4>1. Live(rowOf[i]) /\ w.root = rowOf[i].root
        BY <3>2 DEF BegunOn
      <4>2. rowOf[i].status = "active" /\ rowOf[i].name = place
        BY <4>1, <2>2, <2>5, <2>7, NothingIs DEF RowIsSound, Live
      <4> QED
        BY <4>2, <2>5, <1>4 DEF WorkspacesOK, Sound
    <3> QED
      BY <3>1, <3>2
  <2> QED
    BY <1>4, <2>1, <2>6, <2>7
<1> QED
  BY <1>2, <1>3, <1>4

\* An operation that begins keeps the invariant: those that it meets, in its
\* row or its directories, are disturbed from then on, and what is said of the
\* others does not name it.
LEMMA Begins ==
  ASSUME NEW o \in Ops, NEW i \in WorkspaceIds, NEW w \in W!Row,
         NEW kind \in W!Kinds, NEW plan \in Seq(W!Stages), NEW todo \in SUBSET Repos, NEW force \in BOOLEAN,
         WorkspacesOK, W!Begin(o, kind, i, w, plan, todo, force), BegunOn(o, i, w)
  PROVE  WorkspacesOK'
<1> DEFINE n == op'[o]
<1> DEFINE os == W!Others(o, i, w)
<1> DEFINE both == Together(o, i, w)
<1>1. /\ W!TypeOK /\ op \in [Ops -> W!Operation]
      /\ \A p \in Ops : op[p].id \in WorkspaceIds => OpIsSound(op[p])
      /\ \A p \in Ops : op[p] = W!NoOp \/ op[p].id \in WorkspaceIds
      /\ op[o].id \notin WorkspaceIds
  BY NoOpIs DEF WorkspacesOK, Sound, W!TypeOK, OpIsSound, BegunOn
<1>2. /\ op' \in [Ops -> W!Operation]
      /\ n.kind = kind /\ n.id = i /\ n.w = w /\ n.plan = plan /\ n.todo = todo
      /\ kind = "repair" => (n.alone <=> os = {})
      /\ \A p \in Ops : p # o => Alike(op'[p], op[p])
      /\ \A p \in Ops : p # o /\ p \notin os => op'[p] = op[p]
      /\ \A p \in os : p \in Ops /\ p # o /\ ~ByRow(op'[p])
      /\ \A p \in Ops : op[p] = W!NoOp => p = o \/ op'[p] = W!NoOp
      /\ disturbed' = disturbed \cup both /\ everMet' = everMet \cup both
      /\ overlooked' = overlooked
  <2>1. op \in [Ops -> W!Operation]
    BY <1>1
  <2>2. BeganAs(o, kind, i, w, plan, todo)
    BY <2>1, BeginMakes, Zenon
  <2> QED
    BY <2>2 DEF BeganAs
<1>3. /\ \A p \in Ops \ {o} : op[p].id = i => p \in os
      /\ \A p \in Ops \ {o} : op[p].id \in WorkspaceIds /\ p \notin os => W!Places(op[p].w) \cap W!Places(w) = {}
      /\ \A p \in os : op[p].id \in both /\ op[p].id \in WorkspaceIds
      /\ os # {} => i \in both
      /\ both \subseteq WorkspaceIds
  <2>1. os = {p \in Ops \ {o} : op[p] # W!NoOp /\ (op[p].id = i \/ W!Places(op[p].w) \cap W!Places(w) # {})}
    BY DEF W!Others
  <2>2. both = IF os = {} THEN {} ELSE {i} \cup {op[p].id : p \in os}
    BY DEF Together
  <2> HIDE DEF os, both
  <2>3. \A p \in Ops : op[p].id \in WorkspaceIds => op[p] # W!NoOp
    BY NoOpIs
  <2> QED
    BY <1>1, <2>1, <2>2, <2>3
<1>4. /\ \A j \in WorkspaceIds : RowIsSound(rowOf[j], j)
      /\ \A j \in WorkspaceIds : Clear(j) => IsApart(j)
      /\ \A j \in WorkspaceIds : RowStands(j)
      /\ \A p \in Ops : op[p].id \in WorkspaceIds => OpStands(disk, disturbed, everMet, overlooked, op[p])
  BY DEF WorkspacesOK, Sound, Apart, Stands
<1>5. rowOf' = rowOf /\ disk' = disk /\ missing' = missing /\ OpIsSound(n) /\ op[o] = W!NoOp
  BY DEF BegunOn
<1>6. /\ \A j \in WorkspaceIds \ {i} : Live(rowOf[j]) => rowOf[j].root \notin W!Places(w)
      /\ Live(rowOf[i]) => rowOf[i].root \in W!Places(w)
  BY BegunApart
<1>7. \A p \in Ops : p # o => /\ op'[p].kind = op[p].kind /\ op'[p].id = op[p].id /\ op'[p].w = op[p].w
                              /\ ByRow(op'[p]) => ByRow(op[p])
  BY <1>2 DEF Alike
<1> HIDE DEF os, both
<1>8. (W!NoOp)' = W!NoOp
  BY DEF W!NoOp, W!NoRow
<1>9. Sound'
  <2>1. W!TypeOK'
    BY <1>1, <1>2, <1>3, <1>5 DEF W!TypeOK
  <2>2. DiskIsSound(disk')
    BY <1>5 DEF WorkspacesOK, Sound
  <2>3. /\ \A j \in WorkspaceIds : RowIsSound(rowOf'[j], j)
        /\ \A j, k \in WorkspaceIds :
             rowOf'[j].status = "active" /\ rowOf'[k].status = "active" /\ rowOf'[j].name = rowOf'[k].name => j = k
    BY <1>5 DEF WorkspacesOK, Sound
  <2>4. ASSUME NEW p \in Ops
        PROVE  op'[p] = W!NoOp \/ OpIsSound(op'[p])
    <3>1. CASE p = o
      BY <1>5, <3>1
    <3>2. CASE p # o
      <4>1. Alike(op'[p], op[p])
        BY <1>2, <3>2
      <4>2. OpIsSound(op[p]) => OpIsSound(op'[p])
        BY <4>1, AlikeIs
      <4> QED
        BY <1>1, <1>2, <3>2, <4>2
    <3> QED
      BY <3>1, <3>2
  <2>5. ASSUME NEW p \in Ops, op'[p].id \in WorkspaceIds
        PROVE  op'[p].kind = "create" <=> rowOf'[op'[p].id].status = "none"
    <3>1. CASE p = o
      BY <1>2, <1>5, <3>1 DEF BegunOn, Live
    <3>2. CASE p # o
      BY <1>5, <1>7, <2>5, <3>2 DEF WorkspacesOK, Sound
    <3> QED
      BY <3>1, <3>2
  <2>6. ASSUME NEW p \in Ops, NEW q \in Ops, op'[p].kind = "create", op'[q].id = op'[p].id
        PROVE  q = p
    <3>1. CASE p = o
      BY <1>2, <1>7, <2>6, <3>1 DEF BegunOn
    <3>2. CASE p # o
      <4>1. op[p].kind = "create"
        BY <1>7, <2>6, <3>2
      <4>2. op[p].id \in WorkspaceIds
        BY <4>1, <1>1, NoOpIs
      <4>3. CASE q = o
        <5>1. op[p].id = i
          BY <1>2, <1>7, <2>6, <3>2, <4>3
        <5>2. rowOf[i].status = "none"
          BY <5>1, <4>1, <4>2 DEF WorkspacesOK, Sound
        <5> QED
          BY <5>1, <5>2 DEF BegunOn, Live
      <4>4. CASE q # o
        BY <1>7, <2>6, <3>2, <4>1, <4>4 DEF WorkspacesOK, Sound
      <4> QED
        BY <4>3, <4>4
    <3> QED
      BY <3>1, <3>2
  <2> QED
    BY <2>1, <2>2, <2>3, <2>4, <2>5, <2>6, <1>8, Zenon DEF Sound, OpIsSound, RowIsSound, DiskIsSound, Has
\* Where i has become clear, it was alone.
<1>10. ASSUME Clear(i)'
       PROVE  os = {}
  <2>1. SUFFICES ASSUME os # {}
                 PROVE  FALSE
    OBVIOUS
  <2>2. i \in disturbed' /\ i \in everMet'
    BY <1>2, <1>3, <2>1
  <2>3. PICK q \in Ops : op'[q].id = i /\ ByRow(op'[q])
    BY <1>10, <2>2 DEF Clear, ByRow
  <2>4. CASE q = o
    BY <1>2, <2>1, <2>3, <2>4 DEF ByRow
  <2>5. CASE q # o
    BY <1>2, <1>3, <1>7, <2>3, <2>5
  <2> QED
    BY <2>4, <2>5
<1>11. ASSUME NEW j \in WorkspaceIds \ {i}, Clear(j)'
       PROVE  Clear(j) /\ \A p \in os : op[p].id # j
  <2>1. Clear(j)
    <3>1. j \notin disturbed' \/ j \notin everMet' \/ \E q \in Ops : op'[q].id = j /\ ByRow(op'[q])
      BY <1>11 DEF Clear, ByRow
    <3>2. ASSUME NEW q \in Ops, op'[q].id = j, ByRow(op'[q])
          PROVE  op[q].id = j /\ ByRow(op[q])
      BY <1>2, <1>7, <3>2
    <3> QED
      BY <1>2, <3>1, <3>2 DEF Clear
  <2>2. ASSUME NEW p \in os, op[p].id = j
        PROVE  FALSE
    <3>1. j \in disturbed' /\ j \in everMet'
      BY <1>2, <1>3, <2>2
    <3>2. PICK q \in Ops : op'[q].id = j /\ ByRow(op'[q])
      BY <1>11, <3>1 DEF Clear, ByRow
    <3>3. op[q].id = j
      BY <1>2, <1>7, <3>2
    <3>4. q = p
      BY <1>2, <1>4, <2>1, <2>2, <3>3 DEF IsApart
    <3> QED
      BY <1>2, <3>2, <3>4
  <2> QED
    BY <2>1, <2>2
<1>12. ASSUME NEW j \in WorkspaceIds, Clear(j)'
       PROVE  IsApart(j)'
  <2>1. CASE j = i
    <3>1. os = {}
      BY <1>10, <1>12, <2>1
    <3>2. \A p \in Ops : op'[p].id = i => p = o
      BY <1>3, <1>7, <3>1
    <3>3. \A p \in Ops : op'[p].id \in WorkspaceIds \ {i} => W!Places(op'[p].w) \cap W!Places(w) = {}
      BY <1>2, <1>3, <1>7, <3>1
    <3>4. \A p, q \in Ops : op'[p].id = j /\ op'[q].id = j => p = q
      BY <2>1, <3>2
    <3>5. \A p \in Ops : op'[p].id \in WorkspaceIds \ {j} /\ Live(rowOf'[j]) => rowOf'[j].root \notin W!Places(op'[p].w)
      BY <1>5, <1>6, <2>1, <3>3
    <3>6. \A p, q \in Ops : op'[p].id = j /\ op'[q].id \in WorkspaceIds \ {j} =>
            W!Places(op'[p].w) \cap W!Places(op'[q].w) = {}
      BY <1>2, <2>1, <3>2, <3>3
    <3> QED
      BY <3>4, <3>5, <3>6 DEF IsApart, W!Places, W!ActiveRoot, Live
  <2>2. CASE j # i
    <3>1. IsApart(j) /\ \A p \in os : op[p].id # j
      BY <1>4, <1>11, <1>12, <2>2
    <3>2. \A p \in Ops : op'[p].id = j => p # o /\ op[p].id = j /\ p \notin os
      BY <1>2, <1>7, <2>2, <3>1
    <3>3. \A p, q \in Ops : op'[p].id = j /\ op'[q].id = j => p = q
      BY <3>1, <3>2 DEF IsApart
    <3>4. ASSUME NEW p \in Ops, op'[p].id \in WorkspaceIds \ {j}, Live(rowOf[j])
          PROVE  rowOf[j].root \notin W!Places(op'[p].w)
      <4>1. CASE p = o
        BY <1>2, <1>6, <2>2, <3>4, <4>1
      <4>2. CASE p # o
        BY <1>7, <3>1, <3>4, <4>2 DEF IsApart
      <4> QED
        BY <4>1, <4>2
    <3>5. ASSUME NEW p \in Ops, NEW q \in Ops, op'[p].id = j, op'[q].id \in WorkspaceIds \ {j}
          PROVE  W!Places(op'[p].w) \cap W!Places(op'[q].w) = {}
      <4>1. p # o /\ op[p].id = j /\ p \notin os /\ op'[p].w = op[p].w
        BY <1>7, <3>2, <3>5
      <4>2. CASE q = o
        BY <1>2, <1>3, <4>1, <4>2
      <4>3. CASE q # o
        BY <1>7, <3>1, <3>5, <4>1, <4>3 DEF IsApart
      <4> QED
        BY <4>2, <4>3
    <3> QED
      BY <1>5, <3>3, <3>4, <3>5 DEF IsApart, W!Places, W!ActiveRoot, Live
  <2> QED
    BY <2>1, <2>2
<1>13. Apart'
  <2>1. ASSUME NEW p \in Ops, op'[p].kind = "repair", ~op'[p].alone
        PROVE  op'[p].id \in disturbed' /\ op'[p].id \in everMet'
    <3>1. CASE p = o
      BY <1>2, <1>3, <2>1, <3>1
    <3>2. CASE p # o /\ p \in os
      BY <1>2, <1>3, <1>7, <3>2
    <3>3. CASE p # o /\ p \notin os
      BY <1>2, <2>1, <3>3 DEF WorkspacesOK, Apart
    <3> QED
      BY <3>1, <3>2, <3>3
  <2>2. ASSUME NEW p \in Ops, ByRow(op'[p])
        PROVE  op'[p].w = rowOf'[op'[p].id]
    <3>1. CASE p = o
      BY <1>2, <1>5, <2>2, <3>1 DEF BegunOn, ByRow
    <3>2. CASE p # o
      BY <1>5, <1>7, <2>2, <3>2 DEF WorkspacesOK, Apart
    <3> QED
      BY <3>1, <3>2
  <2>3. ASSUME NEW p \in Ops, op'[p].id \in WorkspaceIds \ everMet', ToMove(op'[p])
        PROVE  op'[p].w.root = rowOf'[op'[p].id].root
    <3>1. CASE p = o
      BY <1>2, <1>5, <2>3, <3>1 DEF BegunOn, ToMove
    <3>2. CASE p # o
      <4>1. ToMove(op[p])
        BY <1>2, <2>3, <3>2, AlikeIs
      <4> QED
        BY <1>2, <1>5, <1>7, <2>3, <3>2, <4>1 DEF WorkspacesOK, Apart
    <3> QED
      BY <3>1, <3>2
  <2> QED
    BY <1>12, <2>1, <2>2, <2>3 DEF Apart, ByRow, ToMove, Stage
<1>14. OpStands(disk, disturbed', everMet', overlooked, n)
  <2>1. i \notin disturbed' \/ i \notin everMet' => os = {}
    BY <1>2, <1>3
  <2>2. os = {} => Idle(i)
    BY <1>1, <1>3 DEF Idle
  <2>3. (i \notin disturbed' => i \notin disturbed) /\ (i \notin everMet' => i \notin everMet)
    BY <1>2
  <2>4. CASE kind = "create"
    <3>1. W!Used(w) = {} /\ Stage(n) = "mkdir"
      BY <1>2, <1>5, <2>4 DEF BegunOn, OpIsSound
    <3> HIDE DEF n
    <3> QED
      BY <1>2, <2>4, <3>1 DEF OpStands, Content, AtHome, NotElsewhere, ByRow
  <2>5. CASE kind # "create"
    <3>1. /\ Live(rowOf[i]) /\ w.root = rowOf[i].root /\ w.mode = rowOf[i].mode /\ w.branch = rowOf[i].branch
          /\ kind = "delete" => Stage(n) = "clean"
          /\ kind = "repair" => Stage(n) = "check"
          /\ Stage(n) # "repair"
      BY <1>2, <2>5 DEF BegunOn
    <3>2. W!Used(w) = W!Used(rowOf[i]) /\ \A r \in Repos : W!On(w, r) = W!On(rowOf[i], r)
      BY <3>1 DEF W!Used, W!On
    <3>3. W!Used(w) \subseteq Repos
      BY DEF W!Used
    <3>4. /\ i \notin disturbed' => FitsRow(disk, overlooked, i, rowOf[i])
          /\ i \notin everMet' => NotElsewhere(disk, rowOf[i], {})
          /\ i \notin disturbed' /\ i \notin everMet' => AtHome(disk, rowOf[i], {})
      BY <1>4, <2>1, <2>2, <2>3, <3>1 DEF RowStands
    <3>5. /\ i \notin disturbed' => FitsRow(disk, overlooked, i, w)
          /\ i \notin everMet' => NotElsewhere(disk, w, {})
          /\ i \notin disturbed' /\ i \notin everMet' => AtHome(disk, w, {})
      BY <3>1, <3>2, <3>3, <3>4 DEF FitsRow, NotElsewhere, AtHome
    <3> HIDE DEF n
    <3>6. Unmoved(n) = {}
      BY <3>1 DEF Unmoved
    <3>7. i \notin disturbed' \/ ByRow(n) => Content(disk, overlooked, n)
      BY <1>2, <3>1, <3>5 DEF Content, ByRow
    <3> QED
      BY <1>2, <3>1, <3>5, <3>6, <3>7 DEF OpStands
  <2> QED
    BY <2>4, <2>5
<1>15. Stands'
  <2>1. ASSUME NEW p \in Ops, op'[p].id \in WorkspaceIds
        PROVE  OpStands(disk, disturbed', everMet', overlooked, op'[p])
    <3>1. CASE p = o
      BY <1>14, <3>1
    <3>2. CASE p # o
      <4>1. Alike(op'[p], op[p]) /\ op[p].id \in WorkspaceIds /\ OpStands(disk, disturbed, everMet, overlooked, op[p])
        BY <1>2, <1>4, <1>7, <2>1, <3>2
      <4>2. (op[p].id \in disturbed => op[p].id \in disturbed') /\ (op[p].id \in everMet => op[p].id \in everMet')
        BY <1>2
      <4> QED
        BY <4>1, <4>2, AlikeIs
    <3> QED
      BY <3>1, <3>2
  <2>2. overlooked' = overlooked
    BY <1>2
  <2>3. ASSUME NEW j \in WorkspaceIds
        PROVE  RowStands(j)'
    <3>1. RowStands(j) /\ (j \notin disturbed' => j \notin disturbed) /\ (j \notin everMet' => j \notin everMet)
      BY <1>2, <1>4
    <3>2. Idle(j)' => Idle(j)
      BY <1>1, <1>7 DEF Idle
    <3> QED
      BY <1>5, <2>2, <3>1, <3>2 DEF RowStands, Live, FitsRow, NotElsewhere, AtHome, W!Used, W!On
  <2> QED
    BY <1>5, <2>1, <2>2, <2>3 DEF Stands, OpStands, Content, FitsRow, AtHome, NotElsewhere, Has, W!Used, W!On, ByRow, Stage, Unmoved
<1> QED
  BY <1>9, <1>13, <1>15 DEF WorkspacesOK

\* The first stage of a kind, and the row that an operation of the kind works on.
StartsIn(kind, stage) ==
  /\ kind \in {"create", "branch", "detached", "remove", "rename", "archive", "delete", "repair"}
  /\ kind = "create" => stage = "mkdir"
  /\ kind \in {"branch", "detached"} => stage = "attach"
  /\ kind = "remove" => stage = "remove"
  /\ kind = "rename" => stage = "move"
  /\ kind \in {"archive", "delete"} => stage = "clean"
  /\ kind = "repair" => stage = "check"

StartsOn(kind, i, w) ==
  /\ w.name \in Names
  /\ kind = "create" => /\ rowOf[i].status = "none" /\ \A p \in Ops : op[p].id # i
                        /\ w.status = "active" /\ w.root = w.name /\ w.branch \in Names /\ W!Used(w) = {}
  /\ kind # "create" => /\ Live(rowOf[i]) /\ w.status = rowOf[i].status
                        /\ w.root = rowOf[i].root /\ w.mode = rowOf[i].mode /\ w.branch = rowOf[i].branch
  /\ kind \in {"branch", "detached", "remove", "rename", "archive"} => w.status = "active"
  /\ kind \in {"create", "rename"} => \A j \in WorkspaceIds : rowOf[j].status = "active" => rowOf[j].name # w.name
  /\ kind \notin {"create", "rename"} => w = rowOf[i]

\* It does so for each kind, by the row that the kind works on and the stage
\* that it begins with.
LEMMA Starts ==
  ASSUME NEW o \in Ops, NEW i \in WorkspaceIds, NEW w \in W!Row,
         NEW kind \in W!Kinds, NEW plan \in Seq(W!Stages), NEW todo \in SUBSET Repos, NEW force \in BOOLEAN,
         WorkspacesOK, op[o] = W!NoOp, W!Begin(o, kind, i, w, plan, todo, force),
         UNCHANGED <<rowOf, disk, missing>>,
         plan \in Courses(kind), StartsIn(kind, Head(plan)), StartsOn(kind, i, w)
  PROVE  WorkspacesOK'
<1> DEFINE n == op'[o]
<1>1. op \in [Ops -> W!Operation] /\ RowIsSound(rowOf[i], i)
  BY DEF WorkspacesOK, Sound, W!TypeOK
<1>2. BeganAs(o, kind, i, w, plan, todo)
  BY <1>1, BeginMakes, Zenon
<1>3. n.kind = kind /\ n.id = i /\ n.w = w /\ n.plan = plan /\ n.todo = todo
  BY <1>2 DEF BeganAs
<1> DEFINE stage == Head(plan)
<1>4. Stage(n) = stage /\ StartsIn(kind, stage)
  BY <1>3 DEF Stage
<1>5. /\ n.plan \in Courses(n.kind) /\ stage \notin {"repair", "update", "restore", "detach"}
  BY <1>3, <1>4 DEF StartsIn
<1> HIDE DEF n, stage
<1>6. kind # "create" => /\ w.status \in {"active", "archived"} /\ w.branch \in Names
                         /\ w.status = "active" => w.root \in Names /\ (w.root = w.name \/ kind = "rename")
                         /\ w.status = "archived" => w.root = i
  BY <1>1 DEF StartsOn, RowIsSound, Live
<1>7. OpIsSound(n)
  <2>1. /\ w.root \in Names \cup {i} /\ w.branch \in Names /\ w.status \in {"active", "archived"}
        /\ w.status = "active" => w.root \in Names /\ (w.root = w.name \/ kind = "rename")
        /\ w.status = "archived" => w.root = i
    BY <1>6 DEF StartsOn
  <2>2. /\ kind = "rename" => stage = "move"
        /\ kind = "delete" => stage = "clean"
        /\ kind = "archive" => stage = "clean"
    BY <1>4 DEF StartsIn
  <2> QED
    BY <1>3, <1>4, <1>5, <2>1, <2>2 DEF OpIsSound, StartsOn
<1>8. BegunOn(o, i, w)
  <2>1. /\ kind = "create" => stage = "mkdir"
        /\ kind = "delete" => stage = "clean"
        /\ kind = "repair" => stage = "check"
    BY <1>4 DEF StartsIn
  <2>2. \A j \in WorkspaceIds \ {i} : rowOf[j].status = "active" => ~(w.status = "active" /\ rowOf[j].name = w.name)
    BY DEF StartsOn, WorkspacesOK, Sound
  <2>3. n = op'[o] /\ Stage(op'[o]) = stage /\ OpIsSound(op'[o]) /\ op'[o].kind = kind /\ op'[o].id = i /\ op'[o].w = w
    BY <1>3, <1>4, <1>7 DEF n
  <2> QED
    BY <1>5, <2>1, <2>2, <2>3 DEF BegunOn, StartsOn
<1> QED
  BY <1>8, Begins, Zenon

\* The plans that the operations begin with are courses of their kinds.
LEMMA CoursesBegin ==
  /\ <<"mkdir", "attach", "insert">> \in Courses("create") /\ StartsIn("create", Head(<<"mkdir", "attach", "insert">>))
  /\ \A kind \in {"branch", "detached"} :
       <<"attach", "update">> \in Courses(kind) /\ StartsIn(kind, Head(<<"attach", "update">>))
  /\ <<"remove", "update">> \in Courses("remove") /\ StartsIn("remove", Head(<<"remove", "update">>))
  /\ <<"move", "repair", "update">> \in Courses("rename") /\ StartsIn("rename", Head(<<"move", "repair", "update">>))
  /\ /\ <<"clean", "detach", "move", "repair", "update">> \in Courses("archive")
     /\ StartsIn("archive", Head(<<"clean", "detach", "move", "repair", "update">>))
  /\ /\ <<"clean", "remove", "rm", "update">> \in Courses("delete")
     /\ StartsIn("delete", Head(<<"clean", "remove", "rm", "update">>))
  /\ /\ <<"check", "mkroot", "restore">> \in Courses("repair")
     /\ StartsIn("repair", Head(<<"check", "mkroot", "restore">>))
  BY DEF Courses, StartsIn

\* Whatever operation begins.
LEMMA StartOK ==
  ASSUME NEW o \in Ops, WorkspacesOK, W!Start(o)
  PROVE  WorkspacesOK'
<1>1. op[o] = W!NoOp /\ op \in [Ops -> W!Operation] /\ rowOf \in [WorkspaceIds -> W!Row]
  BY DEF W!Start, WorkspacesOK, Sound, W!TypeOK
<1>2. \A i \in WorkspaceIds : Live(rowOf[i]) => rowOf[i].name \in Names
  BY DEF WorkspacesOK, Sound, RowIsSound, Live
<1>3. \A kind, plan : plan \in Courses(kind) => plan \in Seq(W!Stages)
  BY CourseIs
<1> DEFINE none == {}
<1>4. none \in SUBSET Repos
  OBVIOUS
<1> DEFINE no == FALSE
<1>5. no \in BOOLEAN
  OBVIOUS
<1> HIDE DEF none, no
<1>6. ASSUME NEW n \in Names, NEW rs \in SUBSET Repos, W!Create(o, n, rs)
      PROVE  WorkspacesOK'
  <2> DEFINE w == [status |-> "active", name |-> n, root |-> W!ActiveRoot(n), branch |-> n,
                   mode |-> [r \in Repos |-> "no"]]
  <2> DEFINE plan == <<"mkdir", "attach", "insert">>
  <2>1. PICK i \in WorkspaceIds :
          /\ rowOf[i].status = "none" /\ \A p \in Ops : op[p].id # i
          /\ W!ActiveWith(n) = {}
          /\ W!Begin(o, "create", i, w, plan, rs, FALSE)
          /\ UNCHANGED <<rowOf, disk, missing>>
    BY <1>6 DEF W!Create
  <2>2. /\ w \in W!Row /\ w.status = "active" /\ w.name = n /\ w.root = n /\ w.branch = n
        /\ \A r \in Repos : w.mode[r] = "no"
    BY NothingIs DEF W!Row, W!Paths, W!Roots
  <2>3. W!Begin(o, "create", i, w, plan, rs, no)
    BY <2>1 DEF no
  <2>4. plan \in Courses("create") /\ StartsIn("create", Head(plan))
    BY CoursesBegin
  <2> HIDE DEF w, plan
  <2>5. StartsOn("create", i, w)
    BY <2>1, <2>2 DEF StartsOn, W!Used, W!ActiveWith
  <2>6. plan \in Seq(W!Stages)
    BY <1>3, <2>4
  <2>7. "create" \in W!Kinds
    BY DEF W!Kinds
  <2> QED
    BY <1>1, <1>5, <2>1, <2>2, <2>3, <2>4, <2>5, <2>6, <2>7, Starts, Zenon
\* The others work on the row of a workspace.
<1>7. ASSUME NEW i \in WorkspaceIds, NEW kind \in W!Kinds, NEW plan \in Courses(kind), NEW todo \in SUBSET Repos,
             NEW force \in BOOLEAN, StartsIn(kind, Head(plan)), kind \notin {"create", "rename"}, Live(rowOf[i]),
             kind \in {"branch", "detached", "remove", "archive"} => rowOf[i].status = "active",
             W!Begin(o, kind, i, rowOf[i], plan, todo, force), UNCHANGED <<rowOf, disk, missing>>
      PROVE  WorkspacesOK'
  <2> DEFINE w == rowOf[i]
  <2>1. w \in W!Row /\ StartsOn(kind, i, w)
    BY <1>1, <1>2, <1>7 DEF StartsOn
  <2>2. plan \in Seq(W!Stages) /\ W!Begin(o, kind, i, w, plan, todo, force)
    BY <1>3, <1>7
  <2> HIDE DEF w
  <2> QED
    BY <1>1, <1>7, <2>1, <2>2, Starts, Zenon
<1>8. ASSUME NEW i \in WorkspaceIds, NEW rs \in SUBSET Repos, NEW mode \in {"branch", "detached"},
             W!AddRepos(o, i, rs, mode)
      PROVE  WorkspacesOK'
  <2> DEFINE plan == <<"attach", "update">>
  <2>1. /\ rowOf[i].status = "active"
        /\ W!Begin(o, mode, i, rowOf[i], plan, rs, no)
        /\ UNCHANGED <<rowOf, disk, missing>>
    BY <1>8 DEF W!AddRepos, no
  <2>2. plan \in Courses(mode) /\ StartsIn(mode, Head(plan))
    BY CoursesBegin
  <2>3. mode \in W!Kinds /\ mode \notin {"create", "rename"} /\ Live(rowOf[i])
    BY <2>1 DEF W!Kinds, Live
  <2> HIDE DEF plan
  <2> QED
    BY <1>5, <1>7, <2>1, <2>2, <2>3
<1>9. ASSUME NEW i \in WorkspaceIds, NEW rs \in SUBSET Repos, NEW force \in BOOLEAN, W!RemoveRepos(o, i, rs, force)
      PROVE  WorkspacesOK'
  <2> DEFINE plan == <<"remove", "update">>
  <2>1. /\ rowOf[i].status = "active"
        /\ W!Begin(o, "remove", i, rowOf[i], plan, rs, force)
        /\ UNCHANGED <<rowOf, disk, missing>>
    BY <1>9 DEF W!RemoveRepos
  <2>2. plan \in Courses("remove") /\ StartsIn("remove", Head(plan))
    BY CoursesBegin
  <2>3. "remove" \in W!Kinds /\ Live(rowOf[i])
    BY <2>1 DEF W!Kinds, Live
  <2> HIDE DEF plan
  <2> QED
    BY <1>7, <2>1, <2>2, <2>3
<1>10. ASSUME NEW i \in WorkspaceIds, NEW n \in Names, W!Rename(o, i, n)
       PROVE  WorkspacesOK'
  <2> DEFINE w == [rowOf[i] EXCEPT !.name = n]
  <2> DEFINE plan == <<"move", "repair", "update">>
  <2>1. /\ rowOf[i].status = "active"
        /\ W!ActiveWith(n) = {}
        /\ W!Begin(o, "rename", i, w, plan, none, no)
        /\ UNCHANGED <<rowOf, disk, missing>>
    BY <1>10 DEF W!Rename, none, no
  <2>2. /\ w \in W!Row /\ w.name = n /\ w.status = rowOf[i].status /\ w.root = rowOf[i].root
        /\ w.mode = rowOf[i].mode /\ w.branch = rowOf[i].branch
    BY <1>1 DEF W!Row
  <2>3. plan \in Courses("rename") /\ StartsIn("rename", Head(plan))
    BY CoursesBegin
  <2> HIDE DEF w, plan
  <2>4. StartsOn("rename", i, w)
    BY <2>1, <2>2 DEF StartsOn, W!ActiveWith, Live
  <2>5. plan \in Seq(W!Stages)
    BY <1>3, <2>3
  <2>6. "rename" \in W!Kinds
    BY DEF W!Kinds
  <2> QED
    BY <1>1, <1>4, <1>5, <2>1, <2>2, <2>3, <2>4, <2>5, <2>6, Starts, Zenon
<1>11. ASSUME NEW i \in WorkspaceIds, W!Archive(o, i)
       PROVE  WorkspacesOK'
  <2> DEFINE plan == <<"clean", "detach", "move", "repair", "update">>
  <2>1. /\ rowOf[i].status = "active"
        /\ W!Begin(o, "archive", i, rowOf[i], plan, none, no)
        /\ UNCHANGED <<rowOf, disk, missing>>
    BY <1>11 DEF W!Archive, none, no
  <2>2. plan \in Courses("archive") /\ StartsIn("archive", Head(plan))
    BY CoursesBegin
  <2>3. "archive" \in W!Kinds /\ Live(rowOf[i])
    BY <2>1 DEF W!Kinds, Live
  <2> HIDE DEF plan
  <2> QED
    BY <1>4, <1>5, <1>7, <2>1, <2>2, <2>3
<1>12. ASSUME NEW i \in WorkspaceIds, NEW force \in BOOLEAN, W!Delete(o, i, force)
       PROVE  WorkspacesOK'
  <2> DEFINE plan == <<"clean", "remove", "rm", "update">>
  <2>1. /\ rowOf[i].status \in {"active", "archived"}
        /\ W!Begin(o, "delete", i, rowOf[i], plan, none, force)
        /\ UNCHANGED <<rowOf, disk, missing>>
    BY <1>12 DEF W!Delete, none
  <2>2. plan \in Courses("delete") /\ StartsIn("delete", Head(plan))
    BY CoursesBegin
  <2>3. "delete" \in W!Kinds /\ Live(rowOf[i])
    BY <2>1 DEF W!Kinds, Live
  <2> HIDE DEF plan
  <2> QED
    BY <1>4, <1>7, <2>1, <2>2, <2>3
<1>13. ASSUME NEW i \in WorkspaceIds, W!Repair(o, i)
       PROVE  WorkspacesOK'
  <2> DEFINE plan == <<"check", "mkroot", "restore">>
  <2>1. /\ rowOf[i].status \in {"active", "archived"}
        /\ W!Begin(o, "repair", i, rowOf[i], plan, none, no)
        /\ UNCHANGED <<rowOf, disk, missing>>
    BY <1>13 DEF W!Repair, none, no
  <2>2. plan \in Courses("repair") /\ StartsIn("repair", Head(plan))
    BY CoursesBegin
  <2>3. "repair" \in W!Kinds /\ Live(rowOf[i])
    BY <2>1 DEF W!Kinds, Live
  <2> HIDE DEF plan
  <2> QED
    BY <1>4, <1>5, <1>7, <2>1, <2>2, <2>3
<1> QED
  BY <1>6, <1>8, <1>9, <1>10, <1>11, <1>12, <1>13 DEF W!Start

-----------------------------------------------------------------------------
\* While no operation does anything and all the directories stay as they are.
LEMMA Stays ==
  ASSUME WorkspacesOK, op' = op, rowOf' = rowOf, disturbed' = disturbed, everMet' = everMet, overlooked' = overlooked,
         missing' \in [Repos -> SUBSET [at : W!Roots, on : Names \cup {Detached}]],
         DiskIsSound(disk'), \A q \in W!Roots : Still(disk, disk', q)
  PROVE  WorkspacesOK'
<1>1. Sound'
  <2>1. W!TypeOK'
    BY DEF WorkspacesOK, Sound, W!TypeOK, DiskIsSound
  <2>2. (W!NoOp)' = W!NoOp
    BY DEF W!NoOp, W!NoRow
  <2> QED
    BY <2>1, <2>2 DEF WorkspacesOK, Sound, OpIsSound, RowIsSound, DiskIsSound, Has
<1>2. Apart'
  <2>1. ASSUME NEW i \in WorkspaceIds, Clear(i)'
        PROVE  IsApart(i)'
    <3>1. IsApart(i)
      BY <2>1 DEF WorkspacesOK, Apart, Clear, ByRow
    <3> QED
      BY <3>1 DEF IsApart, Live, W!Places, W!ActiveRoot
  <2>2. /\ \A o \in Ops : op'[o].kind = "repair" /\ ~op'[o].alone => op'[o].id \in disturbed' /\ op'[o].id \in everMet'
        /\ \A o \in Ops : ByRow(op'[o]) => op'[o].w = rowOf'[op'[o].id]
        /\ \A o \in Ops : op'[o].id \in WorkspaceIds \ everMet' /\ ToMove(op'[o]) => op'[o].w.root = rowOf'[op'[o].id].root
    BY DEF WorkspacesOK, Apart
  <2> QED
    BY <2>1, <2>2 DEF Apart, ByRow, ToMove, Stage
<1>3. ASSUME NEW o \in Ops, op[o].id \in WorkspaceIds
      PROVE  OpStands(disk', disturbed, everMet, overlooked, op[o])
  <2>1. OpIsSound(op[o]) /\ OpStands(disk, disturbed, everMet, overlooked, op[o])
    BY <1>3, NoOpIs DEF WorkspacesOK, Sound, Stands
  <2>2. Still(disk, disk', op[o].w.root)
    BY <2>1, PlacesAre
  <2> QED
    BY <2>1, <2>2, OpStandsStill
<1>4. ASSUME NEW i \in WorkspaceIds
      PROVE  RowStands(i)'
  <2>1. RowStands(i) /\ RowIsSound(rowOf[i], i)
    BY DEF WorkspacesOK, Sound, Stands
  <2> SUFFICES ASSUME Live(rowOf[i])
               PROVE  /\ i \notin disturbed /\ Idle(i) => FitsRow(disk', overlooked, i, rowOf[i])
                      /\ i \notin everMet => NotElsewhere(disk', rowOf[i], {})
                      /\ i \notin disturbed /\ i \notin everMet /\ Idle(i) => AtHome(disk', rowOf[i], {})
    BY DEF RowStands, Live, Idle, FitsRow, NotElsewhere, AtHome, W!Used, W!On
  <2>2. Still(disk, disk', rowOf[i].root)
    BY <2>1, RootIs
  <2> QED
    BY <2>1, <2>2, RowStaysWhere DEF RowStands
<1>5. Stands'
  BY <1>3, <1>4 DEF Stands, OpStands, Content, FitsRow, AtHome, NotElsewhere, Has, W!Used, W!On, ByRow, Stage, Unmoved
<1> QED
  BY <1>1, <1>2, <1>5 DEF WorkspacesOK

\* Uncommitted work is no matter of the rows.
WithDirty(d, p, r, x) == [d EXCEPT ![p].checkout[r].dirty = x]

\* A user's work in a checkout is no matter of the rows.
LEMMA EditOK ==
  ASSUME NEW p \in W!Roots, NEW r \in Repos, WorkspacesOK, W!Edit(p, r)
  PROVE  WorkspacesOK'
<1> DEFINE x == ~disk[p].checkout[r].dirty
<1>1. /\ W!TypeOK /\ DiskIsSound(disk) /\ disk \in [W!Roots -> W!Root]
      /\ missing \in [Repos -> SUBSET [at : W!Roots, on : Names \cup {Detached}]]
  BY DEF WorkspacesOK, Sound, W!TypeOK
<1>2. /\ Has(disk, p, r) /\ disk' = WithDirty(disk, p, r, x)
      /\ UNCHANGED <<rowOf, missing, op, disturbed, everMet, overlooked>>
  BY DEF W!Edit, W!There, Has, WithDirty
<1> DEFINE c == [disk[p].checkout[r] EXCEPT !.dirty = x]
<1>3. disk[p] \in W!Root /\ disk[p].checkout[r] \in W!Checkout /\ x \in BOOLEAN
  BY <1>1 DEF W!Root
<1> HIDE DEF x
<1>4. c \in W!Checkout /\ c.on = disk[p].checkout[r].on /\ c.at = disk[p].checkout[r].at
  BY <1>3 DEF W!Checkout
<1>5. disk' = WithCheckout(disk, p, r, c)
  BY <1>1, <1>2, <1>3 DEF WithDirty, WithCheckout, W!Root
<1> HIDE DEF c
<1>6. /\ disk' \in [W!Roots -> W!Root] /\ disk'[p].checkout[r] = c
      /\ \A q \in W!Roots : disk'[q].exists = disk[q].exists
      /\ \A q \in W!Roots, s \in Repos : q # p \/ s # r => disk'[q].checkout[s] = disk[q].checkout[s]
  BY <1>1, <1>4, <1>5, CheckoutSet
<1>7. \A q \in W!Roots, s \in Repos : /\ disk'[q].checkout[s].on = disk[q].checkout[s].on
                                      /\ disk'[q].checkout[s].at = disk[q].checkout[s].at
  BY <1>4, <1>6
<1>8. \A q \in W!Roots : Still(disk, disk', q)
  BY <1>6, <1>7 DEF Still
<1>9. DiskIsSound(disk')
  <2>1. \A q \in W!Roots, s \in Repos : Has(disk', q, s) <=> Has(disk, q, s)
    BY <1>7 DEF Has
  <2> QED
    BY <1>1, <1>2, <1>6, <2>1 DEF DiskIsSound
<1> QED
  BY <1>1, <1>2, <1>8, <1>9, Stays

\* A directory that is lost disturbs the workspaces that it was of.
LEMMA LoseOK ==
  ASSUME NEW p \in W!Roots, WorkspacesOK, W!Lose(p)
  PROVE  WorkspacesOK'
<1>1. /\ W!TypeOK /\ DiskIsSound(disk)
      /\ missing \in [Repos -> SUBSET [at : W!Roots, on : Names \cup {Detached}]]
  BY DEF WorkspacesOK, Sound, W!TypeOK
<1>2. /\ missing' = W!Orphaned(p) /\ disk' = WithNone(disk, p)
      /\ disturbed' = disturbed \cup {i \in WorkspaceIds : rowOf[i].root = p}
      /\ UNCHANGED <<rowOf, op, everMet, overlooked>>
      /\ \A o \in Ops : op[o] = W!NoOp
  BY DEF W!Lose, WithNone
<1>3. \A o \in Ops : op'[o].id \notin WorkspaceIds /\ op'[o].kind = "none" /\ ~ByRow(op'[o])
  BY <1>2, NoOpIs
<1>4. /\ DiskIsSound(disk')
      /\ \A r \in Repos : disk'[p].checkout[r].at = Nowhere
      /\ \A q \in W!Roots : q # p => disk'[q] = disk[q]
  BY <1>1, <1>2, NoneSet
<1>5. missing' \in [Repos -> SUBSET [at : W!Roots, on : Names \cup {Detached}]]
  BY <1>1, <1>2, OrphanedIs
<1>6. Sound'
  <2>1. W!TypeOK'
    BY <1>1, <1>2, <1>4, <1>5 DEF W!TypeOK, DiskIsSound
  <2>2. (W!NoOp)' = W!NoOp
    BY DEF W!NoOp, W!NoRow
  <2> QED
    BY <1>2, <1>4, <2>1, <2>2 DEF WorkspacesOK, Sound, OpIsSound, RowIsSound, DiskIsSound, Has
<1>7. Apart'
  <2>1. \A i \in WorkspaceIds : IsApart(i)'
    BY <1>3 DEF IsApart
  <2> QED
    BY <1>3, <2>1 DEF Apart, ByRow, ToMove
<1>8. ASSUME NEW i \in WorkspaceIds
      PROVE  RowStands(i)'
  <2>1. RowStands(i) /\ RowIsSound(rowOf[i], i)
    BY DEF WorkspacesOK, Sound, Stands
  <2> SUFFICES ASSUME Live(rowOf[i])
               PROVE  /\ i \notin disturbed' /\ Idle(i) => FitsRow(disk', overlooked, i, rowOf[i])
                      /\ i \notin everMet => NotElsewhere(disk', rowOf[i], {})
                      /\ i \notin disturbed' /\ i \notin everMet /\ Idle(i) => AtHome(disk', rowOf[i], {})
    BY <1>2 DEF RowStands, Live, Idle, FitsRow, NotElsewhere, AtHome, W!Used, W!On
  <2>2. W!Used(rowOf[i]) \subseteq Repos
    BY DEF W!Used
  <2>3. CASE rowOf[i].root = p
    <3>1. i \in disturbed'
      BY <1>2, <2>3
    <3> QED
      BY <1>4, <2>2, <2>3, <3>1 DEF NotElsewhere
  <2>4. CASE rowOf[i].root # p
    <3>1. disk'[rowOf[i].root] = disk[rowOf[i].root] /\ (i \notin disturbed' => i \notin disturbed)
      BY <1>2, <1>4, <2>1, <2>4, RootIs
    <3> QED
      BY <2>1, <3>1 DEF RowStands, FitsRow, NotElsewhere, AtHome
  <2> QED
    BY <2>3, <2>4
<1>9. Stands'
  BY <1>3, <1>8 DEF Stands
<1> QED
  BY <1>6, <1>7, <1>9 DEF WorkspacesOK

\* At first there are no rows and no operations.
LEMMA WorkspacesInit ==
  ASSUME W!Init
  PROVE  WorkspacesOK
<1>1. /\ rowOf = [i \in WorkspaceIds |-> W!NoRow] /\ disk = [p \in W!Roots |-> W!NoRoot]
      /\ missing = [r \in Repos |-> {}] /\ op = [o \in Ops |-> W!NoOp]
      /\ disturbed = {} /\ everMet = {} /\ overlooked = {}
  BY DEF W!Init
<1>2. \A o \in Ops : op[o] = W!NoOp /\ op[o].id \notin WorkspaceIds /\ op[o].kind = "none" /\ ~ByRow(op[o])
  BY <1>1, NoOpIs
<1>3. \A i \in WorkspaceIds : rowOf[i].status = "none"
  <2>1. W!NoRow.status = "none"
    BY NothingIs
  <2> QED
    BY <1>1, <2>1, Zenon
<1>4. DiskIsSound(disk)
  BY <1>1, NothingIs DEF DiskIsSound, Has
<1>5. W!TypeOK
  BY <1>1, NothingIs, NoOpIs DEF W!TypeOK
<1>6. Sound
  BY <1>2, <1>3, <1>4, <1>5 DEF Sound, RowIsSound
<1>7. Apart
  <2>1. \A i \in WorkspaceIds : IsApart(i)
    BY <1>2 DEF IsApart
  <2> QED
    BY <1>2, <2>1 DEF Apart, ToMove
<1>8. Stands
  BY <1>2, <1>3 DEF Stands, RowStands, Live
<1> QED
  BY <1>6, <1>7, <1>8 DEF WorkspacesOK

\* No step breaks the invariant.
LEMMA WorkspacesNext ==
  ASSUME WorkspacesOK, [W!Next]_W!workspaceVars
  PROVE  WorkspacesOK'
<1>1. ASSUME NEW o \in Ops, W!Start(o) \/ W!Continue(o)
      PROVE  WorkspacesOK'
  BY <1>1, StartOK, ContinueOK
<1>2. ASSUME NEW p \in W!Roots, W!Lose(p)
      PROVE  WorkspacesOK'
  BY <1>2, LoseOK
<1>3. ASSUME NEW p \in W!Roots, NEW r \in Repos, W!Edit(p, r)
      PROVE  WorkspacesOK'
  BY <1>3, EditOK
<1>4. CASE UNCHANGED W!workspaceVars
  <2>1. /\ op' = op /\ rowOf' = rowOf /\ disturbed' = disturbed /\ everMet' = everMet
        /\ overlooked' = overlooked /\ missing' = missing /\ disk' = disk
    BY <1>4 DEF W!workspaceVars
  <2>2. /\ missing' \in [Repos -> SUBSET [at : W!Roots, on : Names \cup {Detached}]]
        /\ DiskIsSound(disk') /\ \A q \in W!Roots : Still(disk, disk', q)
    BY <2>1 DEF WorkspacesOK, Sound, W!TypeOK, Still
  <2> QED
    BY <2>1, <2>2, Stays
<1> QED
  BY <1>1, <1>2, <1>3, <1>4 DEF W!Next

-----------------------------------------------------------------------------
\* The row of a workspace that nothing has disturbed is as its directories are.
LEMMA RowsThatAgree ==
  ASSUME WorkspacesOK
  PROVE  RowsAgree
<1>1. SUFFICES ASSUME NEW i \in WorkspaceIds \ disturbed, rowOf[i].status \in {"active", "archived"},
                      \A o \in Ops : op[o].id # i
               PROVE  /\ disk[rowOf[i].root].exists
                      /\ \A r \in Used(rowOf[i]) : disk[rowOf[i].root].checkout[r].on = On(rowOf[i], r)
                      /\ i \notin overlooked =>
                           \A r \in Repos \ Used(rowOf[i]) : disk[rowOf[i].root].checkout[r].on = Nowhere
                      /\ i \notin everMet => \A r \in Used(rowOf[i]) : disk[rowOf[i].root].checkout[r].at = rowOf[i].root
  BY DEF RowsAgree
<1>2. FitsRow(disk, overlooked, i, rowOf[i]) /\ (i \notin everMet => AtHome(disk, rowOf[i], {}))
  BY <1>1 DEF WorkspacesOK, Stands, RowStands, Live, Idle
<1>3. Used(rowOf[i]) = W!Used(rowOf[i]) /\ Used(rowOf[i]) \subseteq Repos /\ \A r \in Repos : On(rowOf[i], r) = W!On(rowOf[i], r)
  BY DEF Used, On, W!Used, W!On
<1> QED
  BY <1>2, <1>3 DEF FitsRow, AtHome

\* An operation that goes on leaves the others as they are.
LEMMA OthersWait ==
  ASSUME NEW o \in Ops, NEW p \in Ops, p # o, op \in [Ops -> W!Operation], W!Continue(p)
  PROVE  op'[o] = op[o]
<1>1. ASSUME NEW w, NEW todo, W!Proceed(p, w, todo)
      PROVE  op'[o] = op[o]
  BY <1>1 DEF W!Proceed
<1>2. CASE W!Mkdir(p)
  BY <1>2 DEF W!Mkdir
<1>3. ASSUME NEW r, NEW w, W!Done(p, r, w)
      PROVE  op'[o] = op[o]
  <2> DEFINE todo == op[p].todo \ {r}
  <2>1. W!Proceed(p, w, todo)
    BY <1>3 DEF W!Done
  <2> HIDE DEF todo
  <2> QED
    BY <1>1, <2>1
<1>4. CASE W!Attach(p)
  <2> DEFINE w(r) == [op[p].w EXCEPT !.mode[r] = IF op[p].kind = "detached" THEN "detached" ELSE "branch"]
  <2>1. PICK r \in op[p].todo : W!Done(p, r, w(r))
    BY <1>4, Zenon DEF W!Attach
  <2> HIDE DEF w
  <2> QED
    BY <1>3, <2>1
<1>5. CASE W!Remove(p)
  <2> DEFINE w(r) == IF op[p].kind = "remove" THEN [op[p].w EXCEPT !.mode[r] = "no"] ELSE op[p].w
  <2>1. PICK r \in op[p].todo : W!Done(p, r, w(r))
    BY <1>5, Zenon DEF W!Remove
  <2> HIDE DEF w
  <2> QED
    BY <1>3, <2>1
<1>6. CASE W!Detach(p)
  <2> DEFINE w(r) == [op[p].w EXCEPT !.mode[r] = "detached"]
  <2>1. PICK r \in op[p].todo : W!Done(p, r, w(r))
    BY <1>6, Zenon DEF W!Detach
  <2> HIDE DEF w
  <2> QED
    BY <1>3, <2>1
<1>7. CASE W!RepairPath(p) \/ W!Restore(p)
  <2>1. PICK r \in op[p].todo : W!Done(p, r, op[p].w)
    BY <1>7, Zenon DEF W!RepairPath, W!Restore
  <2> QED
    BY <1>3, <2>1
<1>8. CASE W!Clean(p) \/ W!Rm(p) \/ W!Check(p) \/ W!MkRoot(p) \/ W!NoneToDo(p)
  BY <1>1, <1>8 DEF W!Clean, W!Rm, W!Check, W!MkRoot, W!NoneToDo
<1>9. CASE W!Move(p)
  BY <1>1, <1>9 DEF W!Move
<1>10. CASE W!Update(p) \/ W!Fail(p)
  BY <1>10 DEF W!Update, W!Fail
<1> QED
  BY <1>2, <1>4, <1>5, <1>6, <1>7, <1>8, <1>9, <1>10 DEF W!Continue

\* A delete or a remove that is not forced leaves uncommitted work in the
\* checkouts that its row has: each repository is removed only when git finds
\* it clean, and by the time the directory goes none of them is left in it.
LEMMA WorkStays ==
  ASSUME WorkspacesOK, [W!Next]_W!workspaceVars, NEW o \in Ops, Unforced(o), op[o].id \notin disturbed,
         NEW r \in Used(op[o].w), disk[op[o].w.root].checkout[r].dirty
  PROVE  disk'[op[o].w.root].checkout[r] = disk[op[o].w.root].checkout[r]
<1> DEFINE v == op[o]
<1> DEFINE p == v.w.root
<1>1. v.kind \in {"delete", "remove"} /\ ~v.force /\ op'[o] # op[o]
  BY DEF Unforced
<1>2. v # W!NoOp /\ op \in [Ops -> W!Operation] /\ r \in Repos /\ r \in W!Used(v.w)
  BY <1>1, NoOpIs DEF WorkspacesOK, Sound, W!TypeOK, Used, W!Used
<1>3. /\ DiskIsSound(disk) /\ disk \in [W!Roots -> W!Root] /\ p \in W!Roots
      /\ v.plan \in Courses(v.kind) /\ OpStands(disk, disturbed, everMet, overlooked, v)
  BY <1>2, OpRuns
<1>4. Has(disk, p, r)
  BY <1>2, <1>3, NothingIs DEF DiskIsSound
<1>5. \A s \in Ops : W!Continue(s) => s = o
  BY <1>1, <1>2, OthersWait
<1>6. CASE \E s \in Ops : W!Start(s)
  <2>1. disk' = disk
    BY <1>6 DEF W!Start, W!Create, W!AddRepos, W!RemoveRepos, W!Rename, W!Archive, W!Delete, W!Repair
  <2> QED
    BY <2>1
<1>7. CASE \E q \in W!Roots : W!Lose(q) \/ \E s \in Repos : W!Edit(q, s)
  BY <1>1, <1>7 DEF W!Lose, W!Edit
<1>8. CASE UNCHANGED W!workspaceVars
  BY <1>1, <1>8 DEF W!workspaceVars
<1>9. CASE W!Continue(o)
  <2>1. Stage(v) \in {"clean", "remove", "rm", "update"}
    <3> DEFINE plan == v.plan
    <3> DEFINE kind == v.kind
    <3>1. plan \in Courses(kind) /\ kind \in {"delete", "remove"} /\ Stage(v) = Head(plan)
      BY <1>1, <1>3 DEF Stage
    <3> HIDE DEF plan, kind
    <3>2. HasStage(kind, Head(plan))
      BY <3>1, CourseIs
    <3> QED
      BY <3>1, <3>2 DEF HasStage
  <2>2. \A stage : W!Running(o, stage) => stage = Stage(v)
    BY DEF W!Running, Stage
  <2>3. W!Remove(o) \/ W!Clean(o) \/ W!Rm(o) \/ W!Update(o) \/ W!NoneToDo(o) \/ W!Fail(o)
    <3> DEFINE stage == Stage(v)
    <3>1. stage \notin {"mkdir", "attach", "detach", "move", "repair", "check", "mkroot", "restore"}
      BY <2>1
    <3> HIDE DEF stage
    <3>2. \A s : W!Running(o, s) => s = stage
      BY <2>2 DEF stage
    <3>3. ~W!Mkdir(o) /\ ~W!Move(o) /\ ~W!Check(o) /\ ~W!MkRoot(o)
      BY <3>1, <3>2 DEF W!Mkdir, W!Move, W!Check, W!MkRoot
    <3>4. ~W!Attach(o)
      BY <3>1, <3>2, Zenon DEF W!Attach
    <3>5. ~W!Detach(o)
      BY <3>1, <3>2, Zenon DEF W!Detach
    <3>6. ~W!RepairPath(o)
      BY <3>1, <3>2, Zenon DEF W!RepairPath
    <3>7. ~W!Restore(o)
      BY <3>1, <3>2, Zenon DEF W!Restore
    <3> QED
      BY <1>9, <3>3, <3>4, <3>5, <3>6, <3>7 DEF W!Continue
  <2>4. CASE W!Clean(o) \/ W!Update(o) \/ W!NoneToDo(o) \/ W!Fail(o)
    <3>1. disk' = disk
      BY <2>4 DEF W!Clean, W!Update, W!NoneToDo, W!Fail
    <3> QED
      BY <3>1
  <2>5. CASE W!Rm(o)
    <3>1. Stage(v) = "rm"
      BY <2>2, <2>5 DEF W!Rm
    <3>2. v.kind = "delete"
      <4> HIDE DEF v
      <4> QED
        BY <1>3, <3>1, StageIs
    <3>3. Content(disk, overlooked, v)
      BY <1>3 DEF OpStands
    <3>4. ~Has(disk, p, r)
      BY <1>2, <3>1, <3>2, <3>3 DEF Content
    <3> QED
      BY <1>4, <3>4
  <2>6. CASE W!Remove(o)
    <3>1. PICK s \in v.todo : /\ W!There(p, s) => v.force \/ ~disk[p].checkout[s].dirty
                              /\ disk' = W!Forget(WithCheckout(disk, p, s, W!NoCheckout), s, {p})
      BY <2>6 DEF W!Remove, WithCheckout
    <3>2. s \in Repos
      BY <1>2, <3>1 DEF W!Operation
    <3>3. s # r
      BY <1>1, <1>4, <3>1 DEF W!There, Has
    <3> DEFINE d == WithCheckout(disk, p, s, W!NoCheckout)
    <3>4. d \in [W!Roots -> W!Root] /\ d[p].checkout[r] = disk[p].checkout[r]
      <4>1. W!NoCheckout \in W!Checkout
        BY NothingIs
      <4> QED
        BY <1>2, <1>3, <3>2, <3>3, <4>1, CheckoutSet
    <3>5. disk' = W!Forget(d, s, {p})
      BY <3>1
    <3> HIDE DEF d
    <3>6. disk'[p].checkout[r] = d[p].checkout[r]
      BY <1>2, <1>3, <3>2, <3>3, <3>4, <3>5, Forgotten
    <3> QED
      BY <3>4, <3>6
  <2> QED
    BY <2>3, <2>4, <2>5, <2>6
<1> QED
  BY <1>5, <1>6, <1>7, <1>8, <1>9 DEF W!Next

-----------------------------------------------------------------------------
\* The inductive invariant of the workspaces
\* (features/workspace/workspaces.ts): the state is sound, the operations of a
\* workspace that nothing has disturbed are apart from all others, and its
\* directory is as its row or its operation says.
THEOREM WorkspacesAreSound == W!Spec => []WorkspacesOK
<1>1. W!Init => WorkspacesOK
  BY WorkspacesInit
<1>2. WorkspacesOK /\ [W!Next]_W!workspaceVars => WorkspacesOK'
  BY WorkspacesNext
<1> QED
  BY <1>1, <1>2, PTL DEF W!Spec

\* The row of a workspace that nothing has disturbed says what is on the disk:
\* its directory exists, each repository of the row is checked out there as its
\* mode says, no other is, and if no operation on it has ever met another each
\* checkout is registered where it is. It covers every operation of
\* workspaces.ts, step by step, with any number of them running, workspaces,
\* repositories and failures.
THEOREM RowsAlwaysAgree == W!Spec => []RowsAgree
<1>1. WorkspacesOK => RowsAgree
  BY RowsThatAgree
<1> QED
  BY <1>1, WorkspacesAreSound, PTL

\* Workspaces, directories, registrations and operations keep their types.
THEOREM WorkspaceTypes == W!Spec => []W!TypeOK
<1>1. WorkspacesOK => W!TypeOK
  BY DEF WorkspacesOK, Sound
<1> QED
  BY <1>1, WorkspacesAreSound, PTL

\* A delete or a remove that is not forced takes no uncommitted work from a
\* checkout that the row of an undisturbed workspace has, not even what is
\* written after assertClean had looked (workspaces.ts, deleteWorkspace and
\* removeRepo).
THEOREM RecordedWorkAlwaysKept == W!Spec => RecordedWorkIsKept
<1> DEFINE Kept == \A o \in Ops : Unforced(o) /\ op[o].id \notin disturbed => \A r \in Used(op[o].w) : Keeps(o, r)
<1>1. WorkspacesOK /\ [W!Next]_W!workspaceVars => [Kept]_workspaceVars
  BY WorkStays DEF Keeps
<1> QED
  BY <1>1, WorkspacesAreSound, PTL DEF W!Spec, RecordedWorkIsKept
=============================================================================
