------------------------- MODULE StrategicReasoner --------------------------
(* The plan of a strategic job (app/services/strategic_reasoner.py), from the *)
(* window the job began with and what was learned when the plan is made.      *)
EXTENDS DecisionEngine

NoPolicy == "none"           \* the model gave no advice

\* What the agents decide on a window, for the goal's carbon signal and without
\* what was learned.
Decision(r, signal) ==
    LET totals == Totals(r, signal, NothingLearned) IN
    [selected |-> Selected(totals), confidence |-> Confidence(totals)]

\* Mutant of Displaces: the goal has no advantage.
DisplacesEqually(decision, goal, memory) ==
    /\ decision.selected # goal
    /\ 10 * decision.confidence + Adjustment(memory[decision.selected]) > Adjustment(memory[goal])

\* The decision replaces the goal's policy only when it is confident, beyond the
\* advantage of the goal and what was learned of both.
Displaces(decision, goal, memory) ==
    /\ decision.selected # goal
    /\ 10 * decision.confidence + Adjustment(memory[decision.selected])
           > 800 + Adjustment(memory[goal])

\* The advice is taken as it is.
PlannedPolicy(advice, decision, goal, memory) ==
    IF advice # NoPolicy THEN advice
    ELSE IF Displaces(decision, goal, memory) THEN decision.selected ELSE goal

Plan(advice, r, goal, memory) ==
    LET decision == Decision(r, goal.signal) IN
    [policy |-> PlannedPolicy(advice, decision, goal.policy, memory),
     selected |-> decision.selected,
     confidence |-> decision.confidence,
     performance |-> memory]

NoPlan == [policy |-> NoPolicy]
=============================================================================
