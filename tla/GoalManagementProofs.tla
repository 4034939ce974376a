----------------------- MODULE GoalManagementProofs ------------------------
(* What holds of the goals for any number of threads, any readings and any    *)
(* requests of operators. The list is bounded nowhere in these proofs.        *)
EXTENDS GoalManagement, FiniteSetTheorems, WellFoundedInduction, TLAPS

\* Each goal has a place of its own in the list, and was created by now.
Numbered ==
    /\ IsFiniteSet(goals)
    /\ \A g \in goals : g.place < Cardinality(goals) /\ g.at <= clock
    /\ \A g, h \in goals : g.place = h.place => g = h

\* An accepted goal is at least as urgent as every goal of another objective
\* that was accepted before it.
PrioritiesRise ==
    \A g, h \in Accepted :
        g.place < h.place /\ g.request.objective # h.request.objective =>
            g.request.priority <= h.request.priority

\* A thread about to create a goal has no recent equivalent of its own.
PendingIsApart ==
    \A g \in Generators : pc[g] = "create" =>
        \A h \in Accepted :
            h.by = g /\ h.request.objective = pending[g].objective =>
                clock - h.at >= DedupeInterval

\* A review that follows a transition has a goal to review.
ReviewHasGoal ==
    pc[Loop] = "review" /\ Proactive(telemetry[Loop]) # NoRequest => Accepted # {}

\* A pending request is the one its reading stands for.
PendingIsProactive ==
    \A g \in Generators : pc[g] = "create" => pending[g] = Proactive(telemetry[g])

IInv ==
    /\ TypeOK /\ Numbered /\ PrioritiesRise /\ PendingIsApart /\ ReviewHasGoal
    /\ PendingIsProactive /\ OnePerGenerator /\ SpikeYieldsToPriority

LEMMA EnergyType ==
    ASSUME NEW target \in Nat, NEW priority \in 1..100
    PROVE  Energy(target, priority) \in Requests
  BY DEF Energy, Requests, Objectives

LEMMA ProactiveType ==
    ASSUME NEW reading \in Readings
    PROVE  Proactive(reading) \in Requests \cup {NoRequest}
<1>1. Energy(1500, 75) \in Requests /\ Energy(1000, 65) \in Requests
  BY EnergyType
<1>2. [objective |-> "comfort", target |-> 1200, priority |-> 85] \in Requests
  BY DEF Requests, Objectives
<1> QED
  BY <1>1, <1>2 DEF Proactive

\* A power spike is the only reading with the request of a power spike.
LEMMA SpikeReading ==
    ASSUME NEW reading \in Readings, Proactive(reading) = Energy(1500, 75)
    PROVE  reading.power >= 70
<1>1. NoRequest # Energy(1500, 75)
  BY GoalAssumption, EnergyType
<1>2. [objective |-> "comfort", target |-> 1200, priority |-> 85] # Energy(1500, 75)
  BY DEF Energy
<1>3. Energy(1000, 65) # Energy(1500, 75)
  BY DEF Energy
<1> QED
  BY <1>1, <1>2, <1>3 DEF Proactive

\* Its goal is within what the power it measures supports.
LEMMA SpikeIsFeasible ==
    ASSUME NEW reading \in Readings, Proactive(reading) = Energy(1500, 75)
    PROVE  Feasible(Energy(1500, 75), reading)
<1>1. reading.power >= 70 /\ reading.power \in Nat
  BY SpikeReading, GoalAssumption
<1>2. 1500 <= Least(3000, 800 + 30 * reading.power)
  BY <1>1 DEF Least
<1> QED
  BY <1>2 DEF Feasible, Achievable, Energy

LEMMA NewGoalType ==
    ASSUME TypeOK, Numbered, NEW request \in Requests, NEW reading,
           NEW by \in Generators \cup {Operator}
    PROVE  NewGoal(request, reading, by) \in Goals
<1>1. Cardinality(goals) \in Nat
  BY FS_CardinalityType DEF Numbered
<1>2. (Feasible(request, reading) /\ ~Deferred(request)) \in BOOLEAN
  OBVIOUS
<1> QED
  BY <1>1, <1>2 DEF TypeOK, NewGoal, Goals

LEMMA LeastExists ==
    ASSUME NEW S, S \subseteq Nat, S # {}
    PROVE  \E least \in S : \A s \in S : least <= s
<1>1. PICK least \in S : \A s \in S : <<s, least>> \notin OpToRel(<, Nat)
  BY NatLessThanWellFounded, WFMin
<1>2. \A s \in S : ~(s < least)
  BY <1>1 DEF OpToRel
<1> QED
  BY <1>2

\* Among the accepted goals, if any, one is the active goal.
LEMMA ActiveExists ==
    ASSUME TypeOK, Numbered, Accepted # {}
    PROVE  Active \in Accepted /\ IsActive(Active)
<1> DEFINE Slack == {100 - g.request.priority : g \in Accepted}
<1>1. \A g \in Accepted :
          g \in Goals /\ g \in goals /\ g.request.priority \in 1..100 /\ g.place \in Nat
  BY DEF TypeOK, Accepted, Goals, Requests
<1>2. Slack \subseteq Nat /\ Slack # {}
  BY <1>1
<1>3. PICK least \in Slack : \A s \in Slack : least <= s
  BY <1>2, LeastExists
<1> DEFINE Top == {g \in Accepted : 100 - g.request.priority = least}
<1> DEFINE Rest == {Cardinality(goals) - g.place : g \in Top}
<1>4. Cardinality(goals) \in Nat
  BY FS_CardinalityType DEF Numbered
<1>5. Rest \subseteq Nat /\ Rest # {}
  BY <1>1, <1>3, <1>4 DEF Numbered
<1>6. PICK last \in Rest : \A r \in Rest : last <= r
  BY <1>5, LeastExists
<1>7. PICK g \in Top : Cardinality(goals) - g.place = last
  BY <1>6
<1>8. ASSUME NEW h \in Accepted PROVE Outranks(g, h)
  <2>1. 100 - g.request.priority = least /\ least <= 100 - h.request.priority
    BY <1>3, <1>7
  <2>2. /\ g.request.priority \in Int /\ h.request.priority \in Int
        /\ g.place \in Int /\ h.place \in Int
    BY <1>1, <1>7
  <2>3. CASE h \in Top
    <3>1. last <= Cardinality(goals) - h.place
      BY <1>6, <2>3
    <3>2. g.place >= h.place
      BY <1>4, <1>7, <2>2, <3>1
    <3>3. g.request.priority = h.request.priority
      BY <2>1, <2>2, <2>3
    <3> QED
      BY <3>2, <3>3 DEF Outranks
  <2>4. CASE h \notin Top
    <3>1. least # 100 - h.request.priority
      BY <2>4
    <3>2. g.request.priority > h.request.priority
      BY <2>1, <2>2, <3>1
    <3> QED
      BY <3>2 DEF Outranks
  <2> QED
    BY <2>3, <2>4
<1>9. g \in Accepted /\ IsActive(g)
  BY <1>8 DEF IsActive
<1> QED
  BY <1>9 DEF Active

-----------------------------------------------------------------------------
(* What a new goal does to the list.                                          *)

NewEntry(goal, request, reading, by) ==
    /\ goal = NewGoal(request, reading, by)
    /\ goals' = goals \cup {goal}
    /\ UNCHANGED clock

EntryFacts(goal, request, reading, by) ==
    /\ goal \in Goals /\ goal \in goals'
    /\ goal.place = Cardinality(goals) /\ goal.at = clock /\ goal.by = by
    /\ goal.request = request
    /\ goal.accepted <=> Feasible(request, reading) /\ ~Deferred(request)
    /\ \A g \in goals : g # goal /\ g.place < goal.place
    /\ Accepted \subseteq Accepted'
    /\ \A k \in Accepted' : k \in Accepted \/ (k = goal /\ goal.accepted)

LEMMA EntryFields ==
    ASSUME TypeOK, Numbered, NEW request \in Requests, NEW reading,
           NEW by \in Generators \cup {Operator}, NEW goal,
           NewEntry(goal, request, reading, by)
    PROVE  EntryFacts(goal, request, reading, by)
<1>1. goal \in Goals /\ goal \in goals'
  BY NewGoalType DEF NewEntry
<1>2. /\ goal.place = Cardinality(goals) /\ goal.at = clock /\ goal.by = by
      /\ goal.request = request
      /\ (goal.accepted <=> Feasible(request, reading) /\ ~Deferred(request))
  BY DEF NewEntry, NewGoal
<1>3. \A g \in goals : g.place < goal.place
  BY <1>2 DEF Numbered
<1>4. \A g \in goals : g.place \in Nat
  BY DEF TypeOK, Goals
<1>5. \A g \in goals : g # goal
  BY <1>3, <1>4
<1>6. /\ Accepted \subseteq Accepted'
      /\ \A k \in Accepted' : k \in Accepted \/ (k = goal /\ goal.accepted)
  BY DEF NewEntry, Accepted
<1> QED
  BY <1>1, <1>2, <1>3, <1>5, <1>6 DEF EntryFacts

LEMMA EntryNumbered ==
    ASSUME TypeOK, Numbered, NEW request \in Requests, NEW reading,
           NEW by \in Generators \cup {Operator}, NEW goal,
           NewEntry(goal, request, reading, by)
    PROVE  Numbered'
<1>0. EntryFacts(goal, request, reading, by)
  BY EntryFields
<1>1. goal \notin goals /\ goals' = goals \cup {goal} /\ clock' = clock
  BY <1>0 DEF NewEntry, EntryFacts
<1>2. IsFiniteSet(goals') /\ Cardinality(goals') = Cardinality(goals) + 1
  BY <1>1, FS_AddElement DEF Numbered
<1>3. Cardinality(goals) \in Nat /\ clock \in Nat
  BY FS_CardinalityType DEF Numbered, TypeOK
<1>4. \A g \in goals : g.place \in Nat /\ g.place < Cardinality(goals) /\ g.at <= clock
  BY DEF TypeOK, Goals, Numbered
<1>5. goal.place = Cardinality(goals) /\ goal.at = clock
  BY <1>0 DEF EntryFacts
<1>6. \A g \in goals' : g.place < Cardinality(goals') /\ g.at <= clock'
  BY <1>1, <1>2, <1>3, <1>4, <1>5
<1>7. \A g, h \in goals' : g.place = h.place => g = h
  BY <1>1, <1>3, <1>4, <1>5 DEF Numbered
<1> QED
  BY <1>2, <1>6, <1>7 DEF Numbered

\* The deferral is what keeps the accepted priorities in order.
LEMMA EntryRises ==
    ASSUME TypeOK, Numbered, PrioritiesRise, NEW request \in Requests, NEW reading,
           NEW by \in Generators \cup {Operator}, NEW goal,
           NewEntry(goal, request, reading, by)
    PROVE  PrioritiesRise'
<1> SUFFICES ASSUME NEW g \in Accepted', NEW h \in Accepted',
                    g.place < h.place, g.request.objective # h.request.objective
             PROVE  g.request.priority <= h.request.priority
  BY DEF PrioritiesRise
<1>0. EntryFacts(goal, request, reading, by)
  BY EntryFields
<1>1. goal.request = request /\ goal.place \in Nat
  BY <1>0 DEF Goals, EntryFacts
<1>2. \A k \in Accepted : k \in goals /\ k.place \in Nat /\ k.request.priority \in Int
  BY DEF TypeOK, Goals, Accepted, Requests
<1>3. CASE g \in Accepted /\ h \in Accepted
  BY <1>3 DEF PrioritiesRise
<1>4. CASE g \in Accepted /\ h = goal /\ goal.accepted
  <2>1. ~Deferred(request)
    BY <1>0, <1>4 DEF EntryFacts
  <2>2. ~(g.request.priority > request.priority)
    BY <1>1, <1>2, <1>4, <2>1 DEF Deferred, Accepted
  <2>3. request.priority \in Int
    BY DEF Requests
  <2> QED
    BY <1>1, <1>2, <1>4, <2>2, <2>3
<1>5. g # goal
  <2>1. CASE h = goal
    BY <1>1, <2>1
  <2>2. CASE h \in Accepted
    BY <1>0, <1>1, <1>2, <2>2 DEF EntryFacts
  <2> QED
    BY <1>0, <2>1, <2>2 DEF EntryFacts
<1> QED
  BY <1>0, <1>3, <1>4, <1>5 DEF EntryFacts

LEMMA EntrySpike ==
    ASSUME TypeOK, Numbered, SpikeYieldsToPriority, NEW request \in Requests,
           NEW reading \in Readings, NEW by \in Generators \cup {Operator}, NEW goal,
           NewEntry(goal, request, reading, by),
           by # Operator => request = Proactive(reading)
    PROVE  SpikeYieldsToPriority'
<1> SUFFICES ASSUME NEW g \in goals', g.by # Operator,
                    g.request = Energy(1500, 75), ~g.accepted
             PROVE  \E h \in Accepted' :
                        /\ h.request.objective # g.request.objective
                        /\ h.request.priority > g.request.priority
                        /\ h.place < g.place
  BY DEF SpikeYieldsToPriority
<1>0. EntryFacts(goal, request, reading, by)
  BY EntryFields
<1>1. Accepted \subseteq Accepted' /\ Accepted \subseteq goals
  BY <1>0 DEF Accepted, EntryFacts
<1>2. CASE g \in goals
  BY <1>1, <1>2 DEF SpikeYieldsToPriority
<1>3. CASE g = goal
  <2>1. g.request = request /\ g.by = by
    BY <1>0, <1>3 DEF EntryFacts
  <2>2. Feasible(request, reading)
    BY <2>1, SpikeIsFeasible
  <2>3. Deferred(request)
    BY <1>0, <1>3, <2>1, <2>2 DEF EntryFacts
  <2>4. PICK h \in Accepted : /\ h.request.objective # request.objective
                              /\ h.request.priority > request.priority
    BY <2>3 DEF Deferred, Accepted
  <2>5. h.place < g.place
    BY <1>0, <1>1, <1>3 DEF EntryFacts
  <2> QED
    BY <1>1, <2>1, <2>4, <2>5
<1> QED
  BY <1>2, <1>3 DEF NewEntry

\* A thread's new goal is apart from its own equivalents if its search said so.
LEMMA EntryApart ==
    ASSUME TypeOK, Numbered, OnePerGenerator, NEW request \in Requests, NEW reading,
           NEW by \in Generators \cup {Operator}, NEW goal,
           NewEntry(goal, request, reading, by),
           by # Operator =>
               \A h \in Accepted :
                   h.by = by /\ h.request.objective = request.objective =>
                       clock - h.at >= DedupeInterval
    PROVE  OnePerGenerator'
<1> SUFFICES ASSUME NEW g \in Accepted', NEW h \in Accepted',
                    g.by = h.by, g.by # Operator, g.place < h.place,
                    g.request.objective = h.request.objective
             PROVE  h.at - g.at >= DedupeInterval
  BY DEF OnePerGenerator
<1>0. EntryFacts(goal, request, reading, by)
  BY EntryFields
<1>1. /\ goal.request = request /\ goal.by = by /\ goal.at = clock
      /\ goal.place \in Nat
  BY <1>0 DEF Goals, EntryFacts
<1>2. \A k \in Accepted : k \in goals /\ k.place \in Nat
  BY DEF TypeOK, Goals, Accepted
<1>3. CASE g \in Accepted /\ h \in Accepted
  BY <1>3 DEF OnePerGenerator
<1>4. CASE g \in Accepted /\ h = goal
  BY <1>1, <1>4
<1>5. g # goal
  <2>1. CASE h = goal
    BY <1>1, <2>1
  <2>2. CASE h \in Accepted
    BY <1>0, <1>1, <1>2, <2>2 DEF EntryFacts
  <2> QED
    BY <1>0, <2>1, <2>2 DEF EntryFacts
<1> QED
  BY <1>0, <1>3, <1>4, <1>5 DEF EntryFacts

-----------------------------------------------------------------------------
(* The invariant.                                                             *)

LEMMA InitIInv == Init => IInv
<1> SUFFICES ASSUME Init PROVE IInv
  OBVIOUS
<1>1. TypeOK
  <2>1. goals \subseteq Goals /\ clock \in Nat
    BY DEF Init
  <2>2. /\ pc = [g \in Generators |-> "idle"] /\ pending = [g \in Generators |-> NoRequest]
        /\ telemetry \in [Generators -> Readings] /\ Loop \in Generators
        /\ ApiThreads \subseteq Generators
    BY DEF Init, Generators
  <2>3. /\ held \in Goals \cup {NoGoal}
        /\ activeGoal \in Objectives \cup {"none"}
        /\ job \in Requests \cup {NoRequest}
        /\ lastSubmission \in Nat \cup {Never}
    BY DEF Init
  <2> QED
    BY <2>1, <2>2, <2>3 DEF TypeOK
<1>2. Numbered
  BY FS_EmptySet DEF Init, Numbered
<1>3. Accepted = {}
  BY DEF Init, Accepted
<1>4. Loop \in Generators
  BY DEF Generators
<1>5. \A g \in Generators : pc[g] = "idle"
  BY DEF Init
<1>6. PrioritiesRise /\ OnePerGenerator
  BY <1>3 DEF PrioritiesRise, OnePerGenerator
<1>7. PendingIsApart /\ ReviewHasGoal /\ PendingIsProactive
  BY <1>4, <1>5 DEF PendingIsApart, ReviewHasGoal, PendingIsProactive
<1>8. SpikeYieldsToPriority
  BY DEF Init, SpikeYieldsToPriority
<1> QED
  BY <1>1, <1>2, <1>6, <1>7, <1>8 DEF IInv

\* Steps that leave the list alone keep what is said of the list alone.
LEMMA SameList ==
    ASSUME TypeOK, Numbered, PrioritiesRise, OnePerGenerator, SpikeYieldsToPriority,
           goals' = goals, clock' \in Nat, clock <= clock'
    PROVE  /\ Accepted' = Accepted
           /\ Numbered' /\ PrioritiesRise' /\ OnePerGenerator' /\ SpikeYieldsToPriority'
<1>1. Accepted' = Accepted
  BY DEF Accepted
<1>2. Numbered'
  BY DEF Numbered, TypeOK, Goals
<1>3. PrioritiesRise'
  BY <1>1 DEF PrioritiesRise
<1>4. OnePerGenerator'
  BY <1>1 DEF OnePerGenerator
<1>5. SpikeYieldsToPriority'
  BY <1>1 DEF SpikeYieldsToPriority
<1> QED
  BY <1>1, <1>2, <1>3, <1>4, <1>5

LEMMA BeginCreateKeeps ==
    ASSUME IInv, NEW g \in Generators, NEW reading \in Readings, BeginCreate(g, reading)
    PROVE  IInv'
<1> USE DEF IInv
<1>1. goals' = goals /\ clock' = clock /\ clock \in Nat
  BY DEF BeginCreate, TypeOK
<1>2. /\ Accepted' = Accepted
      /\ Numbered' /\ PrioritiesRise' /\ OnePerGenerator' /\ SpikeYieldsToPriority'
  BY <1>1, SameList
<1>3. Proactive(reading) \in Requests
  BY ProactiveType DEF BeginCreate
<1>4. /\ pc' = [pc EXCEPT ![g] = "create"]
      /\ pending' = [pending EXCEPT ![g] = Proactive(reading)]
      /\ telemetry' = [telemetry EXCEPT ![g] = reading]
      /\ UNCHANGED reviewVars
  BY DEF BeginCreate
<1>5. TypeOK'
  BY <1>1, <1>3, <1>4 DEF TypeOK, reviewVars
<1>6. PendingIsApart'
  <2> SUFFICES ASSUME NEW k \in Generators, pc'[k] = "create", NEW h \in Accepted,
                      h.by = k, h.request.objective = pending'[k].objective
               PROVE  clock - h.at >= DedupeInterval
    BY <1>1, <1>2 DEF PendingIsApart
  <2>1. CASE k = g
    <3>1. ~Duplicate(Proactive(reading)) /\ pending'[g] = Proactive(reading)
      BY <1>4 DEF BeginCreate, TypeOK
    <3>2. h \in goals /\ h.accepted /\ h.by # Operator
      BY GoalAssumption DEF Accepted
    <3>3. ~(clock - h.at < DedupeInterval)
      BY <2>1, <3>1, <3>2 DEF Duplicate
    <3>4. clock - h.at \in Int /\ DedupeInterval \in Int
      BY <1>1, <3>2, GoalAssumption DEF TypeOK, Goals
    <3> QED
      BY <3>3, <3>4
  <2>2. CASE k # g
    BY <1>4, <2>2 DEF PendingIsApart, TypeOK
  <2> QED
    BY <2>1, <2>2
<1>7. PendingIsProactive'
  BY <1>4 DEF PendingIsProactive, TypeOK
<1>8. ReviewHasGoal'
  <2>1. CASE g = Loop
    BY <1>4, <2>1 DEF ReviewHasGoal, TypeOK
  <2>2. CASE g # Loop
    BY <1>2, <1>4, <2>2 DEF ReviewHasGoal, TypeOK, Generators
  <2> QED
    BY <2>1, <2>2
<1> QED
  BY <1>2, <1>5, <1>6, <1>7, <1>8

LEMMA BeginReviewKeeps ==
    ASSUME IInv, NEW reading \in Readings, BeginReview(reading)
    PROVE  IInv'
<1> USE DEF IInv
<1>1. goals' = goals /\ clock' = clock /\ clock \in Nat /\ Loop \in Generators
  BY DEF BeginReview, TypeOK, Generators
<1>2. /\ Accepted' = Accepted
      /\ Numbered' /\ PrioritiesRise' /\ OnePerGenerator' /\ SpikeYieldsToPriority'
  BY <1>1, SameList
<1>3. /\ pc' = [pc EXCEPT ![Loop] = "review"]
      /\ telemetry' = [telemetry EXCEPT ![Loop] = reading]
      /\ UNCHANGED <<pending, reviewVars>>
  BY DEF BeginReview
<1>4. TypeOK'
  <2>1. pc' \in [Generators -> {"idle", "create", "submit", "review"}]
    BY <1>3 DEF TypeOK
  <2>2. \A k \in ApiThreads : pc'[k] \in {"idle", "create"}
    BY <1>1, <1>3, GoalAssumption DEF TypeOK, Generators
  <2> QED
    BY <1>1, <1>3, <2>1, <2>2 DEF TypeOK, reviewVars
<1>5. PendingIsApart' /\ PendingIsProactive'
  BY <1>1, <1>2, <1>3 DEF PendingIsApart, PendingIsProactive, TypeOK
<1>6. ReviewHasGoal'
  <2>1. Proactive(reading) # NoRequest => Accepted # {}
    BY DEF BeginReview, Duplicate, Accepted
  <2> QED
    BY <1>1, <1>2, <1>3, <2>1 DEF ReviewHasGoal, TypeOK
<1> QED
  BY <1>2, <1>4, <1>5, <1>6

LEMMA CreateKeeps ==
    ASSUME IInv, NEW g \in Generators, Create(g)
    PROVE  IInv'
<1> USE DEF IInv
<1> DEFINE goal == NewGoal(pending[g], telemetry[g], g)
<1>1. /\ pc[g] = "create" /\ pending[g] \in Requests /\ telemetry[g] \in Readings
      /\ pending[g] = Proactive(telemetry[g]) /\ g # Operator
  BY GoalAssumption DEF Create, TypeOK, PendingIsProactive
<1>2. NewEntry(goal, pending[g], telemetry[g], g)
  BY DEF Create, NewEntry
<1>3. EntryFacts(goal, pending[g], telemetry[g], g)
  BY <1>1, <1>2, EntryFields
<1>4. Numbered'
  BY <1>1, <1>2, EntryNumbered
<1>5. PrioritiesRise'
  BY <1>1, <1>2, EntryRises
<1>6. SpikeYieldsToPriority'
  BY <1>1, <1>2, EntrySpike
<1>7. OnePerGenerator'
  <2>1. \A h \in Accepted :
            h.by = g /\ h.request.objective = pending[g].objective =>
                clock - h.at >= DedupeInterval
    BY <1>1 DEF PendingIsApart
  <2> QED
    BY <1>1, <1>2, <2>1, EntryApart
<1>8. /\ pc' = [pc EXCEPT ![g] = IF g = Loop THEN "submit" ELSE "idle"]
      /\ held' = IF g = Loop THEN goal ELSE held
      /\ UNCHANGED <<clock, pending, telemetry, activeGoal, job, lastSubmission>>
      /\ goals' = goals \cup {goal}
  BY DEF Create
<1>9. goal \in Goals /\ goal \in goals' /\ goal.by = g
  BY <1>3 DEF EntryFacts
<1> HIDE DEF goal
<1>10. TypeOK'
  <2>1. goals' \subseteq Goals /\ held' \in Goals \cup {NoGoal}
    BY <1>8, <1>9 DEF TypeOK
  <2>2. /\ pc' \in [Generators -> {"idle", "create", "submit", "review"}]
        /\ \A k \in ApiThreads : pc'[k] \in {"idle", "create"}
        /\ \A k \in Generators : pc'[k] = "create" => pending'[k] \in Requests
    BY <1>8, GoalAssumption DEF TypeOK, Generators
  <2>3. pc'[Loop] = "submit" => held' \in goals'
    BY <1>8, <1>9 DEF TypeOK, Generators
  <2> QED
    BY <1>8, <2>1, <2>2, <2>3 DEF TypeOK
<1>11. \A k \in Generators : pc'[k] = "create" => k # g /\ pc[k] = "create"
  BY <1>8 DEF TypeOK
<1>12. PendingIsApart'
  <2> SUFFICES ASSUME NEW k \in Generators, pc'[k] = "create", NEW h \in Accepted',
                      h.by = k, h.request.objective = pending'[k].objective
               PROVE  clock - h.at >= DedupeInterval
    BY <1>8 DEF PendingIsApart
  <2>1. h # goal /\ pc[k] = "create"
    BY <1>9, <1>11
  <2>2. h \in Accepted
    BY <1>3, <2>1 DEF EntryFacts, goal
  <2> QED
    BY <1>8, <2>1, <2>2 DEF PendingIsApart
<1>13. PendingIsProactive'
  BY <1>8, <1>11 DEF PendingIsProactive
<1>14. ReviewHasGoal'
  <2>1. Accepted \subseteq Accepted'
    BY <1>3 DEF EntryFacts
  <2>2. pc'[Loop] = "review" => pc[Loop] = "review"
    BY <1>8 DEF TypeOK, Generators
  <2> QED
    BY <1>8, <2>1, <2>2 DEF ReviewHasGoal
<1> QED
  BY <1>4, <1>5, <1>6, <1>7, <1>10, <1>12, <1>13, <1>14

LEMMA CreateHumanKeeps ==
    ASSUME IInv, NEW request \in HumanRequests, NEW reading \in Readings,
           CreateHuman(request, reading)
    PROVE  IInv'
<1> USE DEF IInv
<1> DEFINE goal == NewGoal(request, reading, Operator)
<1>1. request \in Requests /\ Operator \notin Generators
  BY GoalAssumption
<1>2. NewEntry(goal, request, reading, Operator)
  BY DEF CreateHuman, NewEntry
<1>3. EntryFacts(goal, request, reading, Operator)
  BY <1>1, <1>2, EntryFields
<1>4. Numbered'
  BY <1>1, <1>2, EntryNumbered
<1>5. PrioritiesRise'
  BY <1>1, <1>2, EntryRises
<1>6. SpikeYieldsToPriority'
  BY <1>1, <1>2, EntrySpike
<1>7. OnePerGenerator'
  BY <1>1, <1>2, EntryApart
<1>8. goals' = goals \cup {goal} /\ UNCHANGED <<clock, callVars, reviewVars>>
  BY DEF CreateHuman
<1>9. goal \in Goals /\ goal.by = Operator
  BY <1>3 DEF EntryFacts
<1>10. Accepted \subseteq Accepted' /\ \A k \in Accepted' : k \in Accepted \/ k = goal
  BY <1>3 DEF EntryFacts
<1> HIDE DEF goal
<1>11. TypeOK'
  BY <1>8, <1>9 DEF TypeOK, callVars, reviewVars
<1>12. PendingIsApart'
  BY <1>1, <1>8, <1>9, <1>10 DEF PendingIsApart, callVars
<1>13. PendingIsProactive' /\ ReviewHasGoal'
  BY <1>8, <1>10 DEF PendingIsProactive, ReviewHasGoal, callVars
<1> QED
  BY <1>4, <1>5, <1>6, <1>7, <1>11, <1>12, <1>13

LEMMA SubmitKeeps ==
    ASSUME IInv, SubmitProactive \/ Review
    PROVE  IInv'
<1> USE DEF IInv
<1>1. /\ goals' = goals /\ clock' = clock /\ clock \in Nat /\ Loop \in Generators
      /\ pc' = [pc EXCEPT ![Loop] = "idle"] /\ UNCHANGED <<pending, telemetry>>
  BY DEF SubmitProactive, Review, TypeOK, Generators
<1>2. /\ Accepted' = Accepted
      /\ Numbered' /\ PrioritiesRise' /\ OnePerGenerator' /\ SpikeYieldsToPriority'
  BY <1>1, SameList
<1>3. Active # NoGoal => Active \in Goals
  <2>1. CASE Accepted = {}
    BY <2>1 DEF Active
  <2>2. CASE Accepted # {}
    BY <2>2, ActiveExists DEF Accepted, TypeOK
  <2> QED
    BY <2>1, <2>2
<1>4. /\ activeGoal' \in Objectives \cup {"none"}
      /\ job' \in Requests \cup {NoRequest}
      /\ lastSubmission' \in Nat \cup {Never}
      /\ held' \in Goals \cup {NoGoal}
  <2>1. ASSUME NEW goal \in Goals, Submit(goal)
        PROVE  /\ activeGoal' \in Objectives /\ job' \in Requests
               /\ lastSubmission' \in Nat
    BY <1>1, <2>1 DEF Submit, Goals, Requests
  <2>2. CASE SubmitProactive
    <3>1. held \in Goals /\ Submit(held) /\ held' = NoGoal
      BY <2>2 DEF SubmitProactive, TypeOK
    <3> QED
      BY <2>1, <3>1
  <2>3. CASE Review
    <3>1. held' = held
      BY <2>3 DEF Review
    <3>2. CASE Active # NoGoal /\ Submit(Active)
      BY <1>3, <2>1, <3>1, <3>2 DEF TypeOK
    <3>3. CASE Active # NoGoal /\ activeGoal' = Active.request.objective
                              /\ UNCHANGED <<job, lastSubmission>>
      BY <1>3, <3>1, <3>3 DEF TypeOK, Goals, Requests
    <3>4. CASE UNCHANGED <<activeGoal, job, lastSubmission>>
      BY <3>1, <3>4 DEF TypeOK
    <3> QED
      BY <2>3, <3>2, <3>3, <3>4 DEF Review
  <2> QED
    BY <2>2, <2>3
<1>5. TypeOK'
  <2>1. /\ pc' \in [Generators -> {"idle", "create", "submit", "review"}]
        /\ \A k \in ApiThreads : pc'[k] \in {"idle", "create"}
        /\ \A k \in Generators : pc'[k] = "create" => pending'[k] \in Requests
        /\ pc'[Loop] # "submit"
    BY <1>1, GoalAssumption DEF TypeOK, Generators
  <2> QED
    BY <1>1, <1>4, <2>1 DEF TypeOK
<1>6. PendingIsApart' /\ PendingIsProactive' /\ ReviewHasGoal'
  BY <1>1, <1>2 DEF PendingIsApart, PendingIsProactive, ReviewHasGoal, TypeOK
<1> QED
  BY <1>2, <1>5, <1>6

LEMMA TickKeeps == IInv /\ Tick => IInv'
<1> SUFFICES ASSUME IInv, Tick PROVE IInv'
  OBVIOUS
<1> USE DEF IInv
<1>1. /\ goals' = goals /\ clock \in Nat /\ clock' = clock + 1
      /\ UNCHANGED <<callVars, reviewVars>>
  BY DEF Tick, TypeOK
<1>2. /\ Accepted' = Accepted
      /\ Numbered' /\ PrioritiesRise' /\ OnePerGenerator' /\ SpikeYieldsToPriority'
  BY <1>1, SameList
<1>3. TypeOK'
  BY <1>1 DEF TypeOK, callVars, reviewVars
<1>4. PendingIsApart'
  <2>1. \A h \in Accepted : h.at \in Nat
    BY DEF TypeOK, Goals, Accepted
  <2>2. DedupeInterval \in Nat
    BY GoalAssumption
  <2> QED
    BY <1>1, <1>2, <2>1, <2>2 DEF PendingIsApart, callVars
<1>5. PendingIsProactive' /\ ReviewHasGoal'
  BY <1>1, <1>2 DEF PendingIsProactive, ReviewHasGoal, callVars
<1> QED
  BY <1>2, <1>3, <1>4, <1>5

LEMMA StutterKeeps == IInv /\ UNCHANGED vars => IInv'
<1> SUFFICES ASSUME IInv, UNCHANGED vars PROVE IInv'
  OBVIOUS
<1> USE DEF IInv, vars, callVars, reviewVars
<1>1. Accepted' = Accepted
  BY DEF Accepted
<1>2. TypeOK' /\ Numbered'
  BY DEF TypeOK, Numbered
<1>3. PrioritiesRise' /\ OnePerGenerator' /\ SpikeYieldsToPriority'
  BY <1>1 DEF PrioritiesRise, OnePerGenerator, SpikeYieldsToPriority
<1>4. PendingIsApart' /\ PendingIsProactive' /\ ReviewHasGoal'
  BY <1>1 DEF PendingIsApart, PendingIsProactive, ReviewHasGoal
<1> QED
  BY <1>2, <1>3, <1>4

LEMMA Invariance == Spec => []IInv
<1>1. IInv /\ [Next]_vars => IInv'
  BY BeginCreateKeeps, BeginReviewKeeps, CreateKeeps, CreateHumanKeeps, SubmitKeeps,
     TickKeeps, StutterKeeps DEF Next
<1> QED
  BY <1>1, InitIInv, PTL DEF Spec
-----------------------------------------------------------------------------
(* The theorems.                                                              *)

\* The list, the threads and the review keep their types.
THEOREM TypeCorrect == Spec => []TypeOK
<1>1. IInv => TypeOK
  BY DEF IInv
<1> QED
  BY <1>1, Invariance, PTL

\* For any requests and readings, the loop reviews the objective accepted last.
THEOREM NewestObjectiveIsActive == Spec => []ActiveObjectiveIsNewest
<1>1. IInv => ActiveObjectiveIsNewest
  <2> SUFFICES ASSUME IInv, NEW g \in Accepted, NEW newest \in Accepted, IsActive(g),
                      \A h \in Accepted : h.place <= newest.place
               PROVE  g.request.objective = newest.request.objective
    BY DEF ActiveObjectiveIsNewest
  <2>1. /\ g \in goals /\ newest \in goals
        /\ g.place \in Nat /\ newest.place \in Nat
        /\ g.request.priority \in Int /\ newest.request.priority \in Int
    BY DEF IInv, TypeOK, Goals, Requests, Accepted
  <2>2. g.place <= newest.place /\ Outranks(g, newest)
    BY DEF IsActive
  <2>3. CASE g.place = newest.place
    BY <2>1, <2>3 DEF IInv, Numbered
  <2>4. CASE g.place < newest.place
    <3>1. g.request.priority > newest.request.priority
      BY <2>1, <2>2, <2>4 DEF Outranks
    <3> QED
      BY <2>1, <2>4, <3>1 DEF IInv, PrioritiesRise
  <2> QED
    BY <2>1, <2>2, <2>3, <2>4
<1> QED
  BY <1>1, Invariance, PTL

\* However many threads race, none has two equivalents within the interval.
THEOREM EquivalentsAreApart == Spec => []OnePerGenerator
<1>1. IInv => OnePerGenerator
  BY DEF IInv
<1> QED
  BY <1>1, Invariance, PTL

\* Whatever telemetry reads, a spike is negotiated only behind something urgent.
THEOREM SpikesYield == Spec => []SpikeYieldsToPriority
<1>1. IInv => SpikeYieldsToPriority
  BY DEF IInv
<1> QED
  BY <1>1, Invariance, PTL

\* No cycle that saw a transition goes without a job in the review interval.
THEOREM TransitionsAreSubmitted == Spec => TransitionIsReasonedAbout
<1> DEFINE Reasoned ==
        /\ pc[Loop] # "idle" /\ pc'[Loop] = "idle"
        /\ Proactive(telemetry[Loop]) # NoRequest
        => lastSubmission' # Never /\ clock - lastSubmission' < ReviewInterval
<1>1. IInv /\ [Next]_vars => [Reasoned]_vars
  <2> SUFFICES ASSUME IInv, Next, pc[Loop] # "idle", pc'[Loop] = "idle",
                      Proactive(telemetry[Loop]) # NoRequest
               PROVE  lastSubmission' # Never /\ clock - lastSubmission' < ReviewInterval
    OBVIOUS
  <2>1. TypeOK /\ clock \in Nat /\ ReviewInterval \in Nat \ {0}
    BY GoalAssumption DEF IInv, TypeOK
  <2>2. SubmitProactive \/ Review
    <3>1. ASSUME NEW g \in Generators, NEW reading \in Readings, BeginCreate(g, reading)
          PROVE  FALSE
      BY <2>1, <3>1 DEF BeginCreate, TypeOK, Generators
    <3>2. ASSUME NEW reading \in Readings, BeginReview(reading) PROVE FALSE
      BY <3>2 DEF BeginReview
    <3>3. ASSUME NEW g \in Generators, Create(g) PROVE FALSE
      BY <2>1, <3>3 DEF Create, TypeOK, Generators
    <3>4. ASSUME NEW request \in HumanRequests, NEW reading \in Readings,
                 CreateHuman(request, reading)
          PROVE  FALSE
      BY <3>4 DEF CreateHuman, callVars
    <3>5. CASE Tick
      BY <3>5 DEF Tick, callVars
    <3> QED
      BY <3>1, <3>2, <3>3, <3>4, <3>5 DEF Next
  <2>3. CASE lastSubmission' = clock
    BY <2>1, <2>3 DEF Never
  <2>4. CASE lastSubmission' # clock
    <3>1. Review /\ pc[Loop] = "review"
      BY <2>2, <2>4 DEF SubmitProactive, Review, Submit
    <3>2. Accepted # {}
      BY <3>1 DEF IInv, ReviewHasGoal
    <3>3. Active \in Goals
      BY <3>2, ActiveExists DEF IInv, TypeOK, Accepted
    <3>4. ~IntervalElapsed /\ lastSubmission' = lastSubmission
      BY <2>4, <3>1, <3>3, NoGoalAssumption DEF Review, Submit
    <3> QED
      BY <2>1, <3>4 DEF IntervalElapsed, TypeOK
  <2> QED
    BY <2>3, <2>4
<1> QED
  BY <1>1, Invariance, PTL DEF Spec, TransitionIsReasonedAbout
=============================================================================
