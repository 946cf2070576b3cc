------------------------------ MODULE GoalGate ------------------------------
(***************************************************************************)
(* The goal controller (goal/model.py): in goal mode a turn ends as done   *)
(* only on the verdict of an evaluator, which may also send the agent back *)
(* to work, a bounded number of times.                                     *)
(*                                                                         *)
(* The controller outlives its verdict: active stays set when a goal is    *)
(* completed or blocked, so the next turn in goal mode is evaluated again. *)
(***************************************************************************)
EXTENDS Naturals

CONSTANT MaxChecks      \* max_incomplete_checks

ASSUME GoalAssumption == MaxChecks \in Nat \ {0}

VARIABLES
    mode,           \* the mode of the CLI
    goal,           \* GoalController.active
    nudges,         \* history: continuations since the last input or success
    unjudged        \* history: input accepted since the last success

goalVars == <<mode, goal, nudges, unjudged>>

NoGoal == [active |-> FALSE, status |-> "active", streak |-> 0]
NewGoal == [active |-> TRUE, status |-> "active", streak |-> 0]

GoalTypeOK ==
    /\ mode \in {"normal", "goal"}
    /\ goal \in [active : BOOLEAN, status : {"active", "completed", "blocked"},
                 streak : Nat]
    /\ nudges \in Nat
    /\ unjudged \in BOOLEAN

GoalInit ==
    /\ mode = "normal"
    /\ goal = NoGoal
    /\ nudges = 0
    /\ unjudged = FALSE

\* enter_goal_mode and leave_goal_mode.
SwitchMode ==
    /\ mode' = IF mode = "goal" THEN "normal" ELSE "goal"
    /\ goal' = NoGoal
    /\ nudges' = 0
    /\ unjudged' = FALSE

\* Mutant of Resumed: feedback restarts the count and keeps the status.
ResumedAsIs == [goal EXCEPT !.streak = 0]

\* Feedback on a goal makes it active again and restarts the count.
Resumed == [goal EXCEPT !.status = "active", !.streak = 0]

\* accept_user_input, for input that is not blank: blank input raises before
\* anything changes.
AcceptInput ==
    /\ goal' = IF goal.active THEN Resumed ELSE NewGoal
    /\ nudges' = 0
    /\ unjudged' = TRUE
    /\ UNCHANGED mode

Verdict == {"ok", "incomplete", "impossible"}

\* Mutant of LimitReached: compares for equality.
LimitReachedExactly == goal.streak + 1 = MaxChecks

LimitReached == goal.streak + 1 >= MaxChecks

\* The decisions that send the agent back to work.
Continues(verdict) == verdict = "incomplete" /\ ~LimitReached

\* evaluate_stop.  An evaluator that raises, or answers with something that is
\* not a decision, counts as the verdict "impossible".
EvaluateStop(verdict) ==
    /\ goal' = CASE verdict = "ok" ->
                        [goal EXCEPT !.status = "completed", !.streak = 0]
                 [] verdict = "impossible" -> [goal EXCEPT !.status = "blocked"]
                 [] verdict = "incomplete" ->
                        [goal EXCEPT
                            !.status = IF LimitReached THEN "blocked" ELSE "active",
                            !.streak = @ + 1]
    /\ nudges' = IF Continues(verdict) THEN nudges + 1
                 ELSE IF verdict = "ok" THEN 0 ELSE nudges
    /\ unjudged' = (unjudged /\ verdict # "ok")
    /\ UNCHANGED mode

-----------------------------------------------------------------------------
\* The evaluator cannot keep an agent at work for ever: since the last input of
\* the user or the last success it has sent the agent back fewer than MaxChecks
\* times, over however many turns (evaluate_stop; turns that team events start
\* give no feedback and do not restart the count).
ContinuationsBounded == nudges < MaxChecks
=============================================================================
