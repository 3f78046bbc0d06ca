----------------------------- MODULE ThreadGoals ------------------------------
(***************************************************************************)
(* The goal of one loaded thread: what a client sets and clears            *)
(* (features/thread/state.ts), what the update_goal Command writes         *)
(* (goals/runtime-tools.ts), and the usage that the end of a turn charges  *)
(* (features/thread/{turns,run-records}.ts).                               *)
(*                                                                         *)
(* All of them write a whole new goal in the mutation queue, which makes   *)
(* each an atomic step.  But a turn keeps the id of the goal it began      *)
(* with, the Command a copy of it, and the Command's result waits for its  *)
(* place in the queue.  GoalService (goals/service.ts) is not used by the  *)
(* program and is not modelled.                                            *)
(***************************************************************************)
EXTENDS Naturals

CONSTANTS
  Goals,      \* the ids that are made
  Texts,      \* objectives
  Budget,     \* the token budget of every goal
  Usages,     \* what a turn may cost, 0 if its usage is not known
  MaxTurns    \* bound: the turns

\* What an instance assumes of its constants.
Assumption ==
  /\ Goals # {} /\ Texts # {} /\ 0 \notin Goals
  /\ Budget \in Nat \ {0} /\ Usages \subseteq Nat /\ MaxTurns \in Nat

VARIABLES
  goal,     \* the goal of the snapshot
  turn,     \* the active turn: the goal it is charged to, the Command's copy
  result,   \* what update_goal has returned and the queue has not yet recorded
  turns,    \* how many turns have begun
  spent,    \* history: what the turns of each goal have cost
  word,     \* history: what the last command of a client has left
  used,     \* history: the ids that exist
  meddled   \* history: a client has changed the goal during a turn

goalVars == <<goal, turn, result, turns, spent, word, used, meddled>>

NoGoal == [id |-> 0]
NoTurn == [charges |-> 0, copy |-> NoGoal, runs |-> FALSE]
Is(g, status) == g # NoGoal /\ g.status = status

Init ==
  /\ goal = NoGoal /\ turn = NoTurn /\ result = NoGoal /\ turns = 0
  /\ spent = [g \in Goals |-> 0]
  /\ word = NoGoal /\ used = {} /\ meddled = FALSE

\* A command of a client has put the goal there.
Says(g) ==
  /\ goal' = g /\ word' = g
  /\ meddled' = (meddled \/ turn.runs)
  /\ UNCHANGED <<turn, result, turns, spent>>

\* setGoal: a goal that is there keeps its id and its tokens, and its status
\* unless the client gives one.
SetGoal(text, given) ==
  \E new \in IF goal = NoGoal THEN Goals \ used ELSE {goal.id} :
    /\ Says([id |-> new, text |-> text,
             tokens |-> IF goal = NoGoal THEN 0 ELSE goal.tokens,
             status |-> IF given # "keep" THEN given
                        ELSE IF goal = NoGoal THEN "active" ELSE goal.status])
    /\ used' = used \cup {new}

\* clearGoal.
ClearGoal ==
  /\ goal # NoGoal
  /\ Says(NoGoal)
  /\ UNCHANGED used

\* start and createThreadGoalRuntime: an active goal is charged, and the
\* Command gets a copy of it.
StartTurn ==
  /\ ~turn.runs
  /\ turns < MaxTurns /\ turns' = turns + 1
  /\ turn' = IF Is(goal, "active") THEN [charges |-> goal.id, copy |-> goal, runs |-> TRUE]
             ELSE [NoTurn EXCEPT !.runs = TRUE]
  /\ UNCHANGED <<goal, result, spent, word, used, meddled>>

\* update_goal changes its copy and returns it.
UpdateGoal(status) ==
  /\ turn.runs /\ Is(turn.copy, "active")
  /\ turn' = [turn EXCEPT !.copy.status = status]
  /\ result' = turn'.copy
  /\ UNCHANGED <<goal, turns, spent, word, used, meddled>>

\* The event of its completion has its turn in the queue.
RecordGoal ==
  /\ result # NoGoal
  /\ goal' = result /\ result' = NoGoal
  /\ UNCHANGED <<turn, turns, spent, word, used, meddled>>

\* MUTANT of Charged: the budget is not looked at.
ChargedOnly(g, usage) == [g EXCEPT !.tokens = @ + usage]

\* nextGoalAfterUsage.
Charged(g, usage) ==
  [g EXCEPT !.tokens = @ + usage,
            !.status = IF @ = "active" /\ g.tokens + usage >= Budget THEN "paused" ELSE @]

\* MUTANT of EndTurn: whichever goal there is is charged.
EndTurnCrossed(usage) ==
  /\ turn.runs /\ result = NoGoal
  /\ turn' = NoTurn
  /\ goal' = IF usage # 0 /\ turn.charges # 0 /\ goal # NoGoal
             THEN Charged(goal, usage) ELSE goal
  /\ spent' = IF turn.charges = 0 THEN spent ELSE [spent EXCEPT ![turn.charges] = @ + usage]
  /\ UNCHANGED <<result, turns, word, used, meddled>>

\* finishAgentRun, when the events of the run are recorded: the usage is charged
\* if the goal of the turn is still there.
EndTurn(usage) ==
  /\ turn.runs /\ result = NoGoal
  /\ turn' = NoTurn
  /\ goal' = IF usage # 0 /\ turn.charges # 0 /\ goal.id = turn.charges
             THEN Charged(goal, usage) ELSE goal
  /\ spent' = IF turn.charges = 0 THEN spent ELSE [spent EXCEPT ![turn.charges] = @ + usage]
  /\ UNCHANGED <<result, turns, word, used, meddled>>

Next ==
  \/ \E text \in Texts, given \in {"active", "paused", "keep"} : SetGoal(text, given)
  \/ ClearGoal
  \/ StartTurn
  \/ \E status \in {"complete", "blocked"} : UpdateGoal(status)
  \/ RecordGoal
  \/ \E usage \in Usages : EndTurn(usage)

Spec == Init /\ [][Next]_goalVars

-----------------------------------------------------------------------------
Statuses == {"active", "paused", "complete", "blocked"}
GoalType == [id : Goals, text : Texts, status : Statuses, tokens : Nat] \cup {NoGoal}

\* The type of every variable: GoalSchema and ActiveTurn.
TypeOK ==
  /\ goal \in GoalType /\ word \in GoalType /\ result \in GoalType
  /\ turn \in [charges : Goals \cup {0}, copy : GoalType, runs : BOOLEAN]
  /\ turns \in 0..MaxTurns
  /\ spent \in [Goals -> Nat] /\ used \subseteq Goals /\ meddled \in BOOLEAN

\* No goal is charged what a turn has used that was begun for another one
\* (turns.ts:295), however a client replaces goals and the Command writes its
\* copy.
NoCrossCharge == goal # NoGoal => goal.tokens <= spent[goal.id]

\* Unless the client has spoken during a turn, the goal is the one it has set,
\* it has been charged all its turns, and it is paused by the turn that
\* reaches the budget.
GoalIsAsSaid ==
  ~meddled =>
    /\ goal.id = word.id
    /\ goal # NoGoal => /\ goal.text = word.text
                        /\ goal.tokens = spent[goal.id]
                        /\ Is(goal, "active") =>
                             goal.tokens < Budget \/ goal.tokens = word.tokens

\* A goal that the client has cleared does not come back (docs/goal/README.md:
\* after a clear the usage of the old turn is skipped).  The copy that
\* update_goal returns brings it back.
ClearedIsGone == word = NoGoal => goal = NoGoal
=============================================================================
