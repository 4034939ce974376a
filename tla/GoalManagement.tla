--------------------------- MODULE GoalManagement ---------------------------
(* Goals: negotiation, proactive generation and the choice of the active goal *)
(* (app/services/goal_management.py), with the strategic review the control   *)
(* loop derives from them (autonomous_control.py, _queue_strategic_reasoning) *)
(* and the requests that create goals beside it (api/routes/goals.py).        *)
(*                                                                            *)
(* The list of goals is a set of records that carry their place in the list.  *)
(* The search for a duplicate and the creation of a goal hold the lock one    *)
(* after the other, not together. Telemetry is in tenths of kW, degree and    *)
(* percent, targets in hundredths of a percent, time in units of the cfg.     *)
EXTENDS Integers, FiniteSets

CONSTANTS
    Loop,                    \* the control loop's thread
    ApiThreads,              \* threads that serve POST /goals/proactive
    Operator,                \* whoever sends POST /goals, source HUMAN
    NoRequest, NoGoal,       \* None
    DedupeInterval,          \* timedelta(minutes=30)
    ReviewInterval,          \* settings.strategic_interval_minutes
    Readings,                \* the telemetry there may be
    HumanRequests,           \* the goals operators ask for
    MaxClock, MaxGoals       \* bounds

Generators == {Loop} \cup ApiThreads

Objectives == {"energy_reduction", "carbon_reduction", "comfort"}

Requests == [objective : Objectives, target : Nat, priority : 1..100]

ASSUME GoalAssumption ==
    /\ Operator \notin Generators /\ Loop \notin ApiThreads
    /\ NoRequest \notin Requests
    /\ DedupeInterval \in Nat \ {0} /\ ReviewInterval \in Nat \ {0}
    /\ Readings \subseteq [power : Nat, temperature : Int, humidity : Nat, occupancy : Nat]
    /\ HumanRequests \subseteq Requests

VARIABLES
    goals,                   \* AutonomousGoalManagementSystem._goals
    clock,                   \* datetime.now
    pc,                      \* the program point of each generator
    pending,                 \* generate_proactive: request, of each generator
    telemetry,               \* the reading each generator looks at
    held,                    \* _queue_strategic_reasoning: goal
    activeGoal,              \* _status.active_goal, an objective
    job,                     \* the request of the newest strategic job
    lastSubmission           \* _last_strategic_submission

callVars == <<pc, pending, telemetry>>
reviewVars == <<held, activeGoal, job, lastSubmission>>
vars == <<goals, clock, callVars, reviewVars>>

Never == -1

Goals == [place : Nat, at : Nat, by : Generators \cup {Operator},
          accepted : BOOLEAN, request : Requests]

ASSUME NoGoalAssumption == NoGoal \notin Goals

Init ==
    /\ goals = {} /\ clock = 0
    /\ pc = [g \in Generators |-> "idle"]
    /\ pending = [g \in Generators |-> NoRequest]
    /\ telemetry \in [Generators -> Readings]
    /\ held = NoGoal
    /\ activeGoal = "none" /\ job = NoRequest /\ lastSubmission = Never
-----------------------------------------------------------------------------
(* The negotiation engine.                                                    *)

Least(a, b) == IF a <= b THEN a ELSE b
Most(a, b) == IF a <= b THEN b ELSE a
Distance(a, b) == Most(a - b, b - a)

Discomfort(reading) ==
    120 * Distance(reading.temperature, 220) + 5 * Most(0, reading.humidity - 600)

\* What telemetry supports of an objective, before the rounding of reports.
Achievable(objective, reading) ==
    CASE objective = "energy_reduction" -> Least(3000, 800 + 30 * reading.power)
      [] objective = "carbon_reduction" -> Least(2800, 1000 + 25 * reading.power)
      [] OTHER -> Least(3500, Most(1000, Discomfort(reading)))

Feasible(request, reading) ==
    request.target <= Achievable(request.objective, reading)
-----------------------------------------------------------------------------
(* The goal list.                                                             *)

\* Mutant of Deferred: the goals of operators are overlooked.
DeferredByGenerated(request) ==
    \E g \in goals :
        /\ g.accepted /\ g.by # Operator
        /\ g.request.objective # request.objective
        /\ g.request.priority > request.priority

\* An accepted goal of another objective has a higher priority.
Deferred(request) ==
    \E g \in goals :
        /\ g.accepted
        /\ g.request.objective # request.objective
        /\ g.request.priority > request.priority

NewGoal(request, reading, by) ==
    [place |-> Cardinality(goals), at |-> clock, by |-> by, request |-> request,
     accepted |-> Feasible(request, reading) /\ ~Deferred(request)]

Accepted == {g \in goals : g.accepted}

Outranks(g, h) ==
    \/ g.request.priority > h.request.priority
    \/ g.request.priority = h.request.priority /\ g.place >= h.place

\* active_goal: the last one created among those of the highest priority.
IsActive(g) == g \in Accepted /\ \A h \in Accepted : Outranks(g, h)

Active == IF Accepted = {} THEN NoGoal ELSE CHOOSE g \in Accepted : IsActive(g)

Energy(target, priority) ==
    [objective |-> "energy_reduction", target |-> target, priority |-> priority]

\* The transition a reading stands for: a power spike, discomfort, or a
\* building that empties.
Proactive(reading) ==
    CASE reading.power >= 70 -> Energy(1500, 75)
      [] reading.power < 70 /\ (\/ Distance(reading.temperature, 220) >= 15
                                \/ reading.humidity >= 650) ->
            [objective |-> "comfort", target |-> 1200, priority |-> 85]
      [] /\ reading.power < 70
         /\ Distance(reading.temperature, 220) < 15 /\ reading.humidity < 650
         /\ reading.occupancy <= 200 -> Energy(1000, 65)
      [] OTHER -> NoRequest

\* Mutant of Duplicate: goals under negotiation suppress the next one.
DuplicateOfAny(request) ==
    \E g \in goals :
        /\ g.by # Operator
        /\ g.request.objective = request.objective
        /\ clock - g.at < DedupeInterval

\* Mutant of Duplicate: only the same request counts as equivalent.
DuplicateOfSameRequest(request) ==
    \E g \in goals :
        /\ g.by # Operator /\ g.accepted
        /\ g.request = request
        /\ clock - g.at < DedupeInterval

\* A goal that a generator created and that was accepted, of the same objective.
Duplicate(request) ==
    \E g \in goals :
        /\ g.by # Operator /\ g.accepted
        /\ g.request.objective = request.objective
        /\ clock - g.at < DedupeInterval
-----------------------------------------------------------------------------
(* Generating goals.                                                          *)

\* Mutant of BeginCreate: a reading without a transition is not returned from.
BeginCreateAnyway(g, reading) ==
    /\ pc[g] = "idle"
    /\ Proactive(reading) # NoRequest => ~Duplicate(Proactive(reading))
    /\ pc' = [pc EXCEPT ![g] = "create"]
    /\ pending' = [pending EXCEPT ![g] = Proactive(reading)]
    /\ telemetry' = [telemetry EXCEPT ![g] = reading]
    /\ UNCHANGED <<goals, clock, reviewVars>>

\* generate_proactive up to the search, when it finds no duplicate. A request of
\* the API that has nothing to create changes nothing, ...
BeginCreate(g, reading) ==
    /\ pc[g] = "idle"
    /\ Proactive(reading) # NoRequest
    /\ ~Duplicate(Proactive(reading))
    /\ pc' = [pc EXCEPT ![g] = "create"]
    /\ pending' = [pending EXCEPT ![g] = Proactive(reading)]
    /\ telemetry' = [telemetry EXCEPT ![g] = reading]
    /\ UNCHANGED <<goals, clock, reviewVars>>

\* ... while the loop goes on to the active goal.
BeginReview(reading) ==
    /\ pc[Loop] = "idle"
    /\ Proactive(reading) # NoRequest => Duplicate(Proactive(reading))
    /\ pc' = [pc EXCEPT ![Loop] = "review"]
    /\ telemetry' = [telemetry EXCEPT ![Loop] = reading]
    /\ UNCHANGED <<goals, clock, pending, reviewVars>>

\* create, called by generate_proactive.
Create(g) ==
    LET goal == NewGoal(pending[g], telemetry[g], g) IN
    /\ pc[g] = "create"
    /\ Cardinality(goals) < MaxGoals
    /\ goals' = goals \cup {goal}
    /\ pc' = [pc EXCEPT ![g] = IF g = Loop THEN "submit" ELSE "idle"]
    /\ held' = IF g = Loop THEN goal ELSE held
    /\ UNCHANGED <<clock, pending, telemetry, activeGoal, job, lastSubmission>>

\* POST /goals.
CreateHuman(request, reading) ==
    /\ Cardinality(goals) < MaxGoals
    /\ goals' = goals \cup {NewGoal(request, reading, Operator)}
    /\ UNCHANGED <<clock, callVars, reviewVars>>
-----------------------------------------------------------------------------
(* The loop's strategic review.                                               *)

Submit(goal) ==
    /\ activeGoal' = goal.request.objective
    /\ job' = goal.request
    /\ lastSubmission' = clock

IntervalElapsed ==
    lastSubmission = Never \/ clock - lastSubmission >= ReviewInterval

\* A new goal is submitted whatever its status and the interval.
SubmitProactive ==
    /\ pc[Loop] = "submit"
    /\ Submit(held)
    /\ held' = NoGoal
    /\ pc' = [pc EXCEPT ![Loop] = "idle"]
    /\ UNCHANGED <<goals, clock, pending, telemetry>>

\* Without one the active goal is, when its review is due.
Review ==
    /\ pc[Loop] = "review"
    /\ \/ /\ Active # NoGoal /\ IntervalElapsed
          /\ Submit(Active)
       \/ /\ Active # NoGoal /\ ~IntervalElapsed
          /\ activeGoal' = Active.request.objective
          /\ UNCHANGED <<job, lastSubmission>>
       \/ /\ Active = NoGoal
          /\ UNCHANGED <<activeGoal, job, lastSubmission>>
    /\ pc' = [pc EXCEPT ![Loop] = "idle"]
    /\ UNCHANGED <<goals, clock, pending, telemetry, held>>

Tick ==
    /\ clock < MaxClock
    /\ clock' = clock + 1
    /\ UNCHANGED <<goals, callVars, reviewVars>>

Next ==
    \/ \E g \in Generators, reading \in Readings : BeginCreate(g, reading)
    \/ \E reading \in Readings : BeginReview(reading)
    \/ \E g \in Generators : Create(g)
    \/ \E request \in HumanRequests, reading \in Readings : CreateHuman(request, reading)
    \/ SubmitProactive
    \/ Review
    \/ Tick

Spec == Init /\ [][Next]_vars
-----------------------------------------------------------------------------
(* Properties.                                                                *)

\* Every goal in the list was asked for, and a generator that is about to create
\* one has a request (goal_management.py 89-102).
TypeOK ==
    /\ goals \subseteq Goals /\ clock \in Nat
    /\ pc \in [Generators -> {"idle", "create", "submit", "review"}]
    /\ \A g \in ApiThreads : pc[g] \in {"idle", "create"}
    /\ pending \in [Generators -> Requests \cup {NoRequest}]
    /\ \A g \in Generators : pc[g] = "create" => pending[g] \in Requests
    /\ telemetry \in [Generators -> Readings]
    /\ held \in Goals \cup {NoGoal}
    /\ pc[Loop] = "submit" => held \in goals
    /\ activeGoal \in Objectives \cup {"none"}
    /\ job \in Requests \cup {NoRequest}
    /\ lastSubmission \in Nat \cup {Never}

\* The loop reviews the objective accepted last: a goal that outranks the active
\* one takes its place, and one that does not is accepted only if it pursues the
\* same objective (goal_management.py 65-76 and 117-123).
ActiveObjectiveIsNewest ==
    \A g, newest \in Accepted :
        IsActive(g) /\ (\A h \in Accepted : h.place <= newest.place) =>
            g.request.objective = newest.request.objective

\* No thread has two equivalent goals accepted within the interval, whatever the
\* others create between its search and its creation: the race costs at most one
\* goal for each thread (goal_management.py 102-115).
OnePerGenerator ==
    \A g, h \in Accepted :
        /\ g.by = h.by /\ g.by # Operator
        /\ g.place < h.place
        /\ g.request.objective = h.request.objective
        => h.at - g.at >= DedupeInterval

\* A cycle that saw a transition leaves a strategic job submitted no longer ago
\* than the review interval: what suppresses a new goal is an accepted one, and
\* its review does not lapse (autonomous_control.py 139-150).
TransitionIsReasonedAbout ==
    [][/\ pc[Loop] # "idle" /\ pc'[Loop] = "idle"
       /\ Proactive(telemetry[Loop]) # NoRequest
       => lastSubmission' # Never /\ clock - lastSubmission' < ReviewInterval]_vars

\* The goal of a power spike can always be achieved, so it is left under
\* negotiation only behind an accepted goal of another objective that is more
\* urgent (goal_management.py 25 and 90-91).
SpikeYieldsToPriority ==
    \A g \in goals :
        g.by # Operator /\ g.request = Energy(1500, 75) /\ ~g.accepted =>
            \E h \in Accepted :
                /\ h.request.objective # g.request.objective
                /\ h.request.priority > g.request.priority
                /\ h.place < g.place
=============================================================================
