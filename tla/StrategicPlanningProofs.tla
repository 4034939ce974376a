---------------------- MODULE StrategicPlanningProofs -----------------------
(* Proofs about the arbitration, for every reading, carbon signal and memory, *)
(* and about the strategic job, for any jobs, goals, tools and number of      *)
(* rounds.                                                                    *)
EXTENDS StrategicPlanning, TLAPS

-----------------------------------------------------------------------------
(* Rounding.                                                                  *)

LEMMA RoundedType == \A a \in Int, b \in Nat \ {0} : Rounded(a, b) \in Int
  BY DEF Rounded, Abs

\* A quotient of a by b is at most m in size when a is at most m times b.
LEMMA QuotientBound ==
    ASSUME NEW a \in Nat, NEW b \in Nat \ {0}, a < 1001 * b
    PROVE  a \div b \in 0..1000
<1> DEFINE q == a \div b
<1>1. q \in Int /\ a = b * q + (a % b) /\ a % b \in 0..(b - 1)
  OBVIOUS
<1>2. b * q <= a /\ a < b * (q + 1)
  BY <1>1
<1> HIDE DEF q
<1>3. q > 1000 => b * q >= 1001 * b
  BY <1>1
<1>4. q < 0 => b * (q + 1) <= 0
  BY <1>1
<1> QED
  BY <1>1, <1>2, <1>3, <1>4 DEF q

\* A sum of n rewards of at most 1000 has an average of at most 1000.
LEMMA AverageBound == \A k \in Records : AverageReward(k) \in -1000..1000
<1> SUFFICES ASSUME NEW k \in Records PROVE AverageReward(k) \in -1000..1000
  OBVIOUS
<1> DEFINE n == k.observations
           a == k.rewards
<1>1. n \in Nat /\ a \in Int /\ Abs(a) <= 1000 * n
  BY DEF Records
<1>2. AverageReward(k) = IF n = 0 THEN 0 ELSE Rounded(a, n)
  BY DEF AverageReward
<1> HIDE DEF n, a
<1>3. CASE n = 0
  BY <1>2, <1>3
<1>4. CASE n # 0
  <2>1. Abs(a) \in Nat /\ 2 * Abs(a) + n \in Nat /\ 2 * n \in Nat \ {0}
    BY <1>1, <1>4 DEF Abs
  <2>2. 2 * Abs(a) + n < 1001 * (2 * n)
    BY <1>1, <1>4, <2>1
  <2>3. (2 * Abs(a) + n) \div (2 * n) \in 0..1000
    BY <2>1, <2>2, QuotientBound
  <2>4. \/ Rounded(a, n) = (2 * Abs(a) + n) \div (2 * n)
        \/ Rounded(a, n) = -((2 * Abs(a) + n) \div (2 * n))
    BY <1>1 DEF Rounded, Abs
  <2> QED
    BY <1>2, <1>4, <2>3, <2>4
<1> QED
  BY <1>3, <1>4

\* What was learned weighs at most 0.15, however much of it there is
\* (adaptive_policy.py 8-21).
LEMMA AdjustmentBound == \A k \in Records : Adjustment(k) \in -150..150
<1> SUFFICES ASSUME NEW k \in Records PROVE Adjustment(k) \in -150..150
  OBVIOUS
<1> DEFINE average == AverageReward(k)
           episodes == AtMost(20, k.observations)
<1>1. average \in -1000..1000
  BY AverageBound
<1>2. episodes \in 0..20
  BY DEF Records, AtMost
<1>3. Adjustment(k) = Rounded(average * episodes * 15, 2000)
  BY DEF Adjustment
<1> HIDE DEF average, episodes
<1>4. /\ average * episodes \in Int
      /\ average * episodes <= 1000 * 20 /\ -(1000 * 20) <= average * episodes
  BY <1>1, <1>2, SMT
<1>5. \A x \in Int :
         x <= 1000 * 20 /\ -(1000 * 20) <= x => Rounded(x * 15, 2000) \in -150..150
  BY SMT DEF Rounded, Abs
<1> QED
  BY <1>3, <1>4, <1>5

LEMMA NoAdjustment ==
    \A p \in Policies : NothingLearned[p] \in Records /\ Adjustment(NothingLearned[p]) = 0
<1>1. Adjustment([observations |-> 0, rewards |-> 0]) = Rounded(0, 2000)
  BY DEF Adjustment, AverageReward, AtMost
<1>2. Rounded(0, 2000) = 0
  BY DEF Rounded
<1>3. [observations |-> 0, rewards |-> 0] \in Records
  BY DEF Records, Abs
<1> QED
  BY <1>1, <1>2, <1>3 DEF NothingLearned
-----------------------------------------------------------------------------
(* The agents.                                                                *)

\* Scores of a concern and of a fallback. The weights make four times of it.
LEMMA ComfortScore ==
    ASSUME NEW r \in Readings
    PROVE  /\ ComfortVote(r).score \in 0..100
           /\ \/ ComfortVote(r).policy = "comfort_first" /\ ComfortVote(r).score >= 65
              \/ ComfortVote(r).policy = Balanced /\ ComfortVote(r).score <= 65
<1> DEFINE d == Discomfort(r)
<1>1. d \in Nat
  BY DEF Discomfort, Readings, Abs, AtLeast
<1> HIDE DEF d
<1>2. \A x \in Nat : /\ Rounded(450 + 25 * x, 10) \in Nat
                     /\ 450 + 25 * x >= 650 => Rounded(450 + 25 * x, 10) >= 65
                     /\ 450 + 25 * x < 650 => Rounded(450 + 25 * x, 10) <= 65
  BY DEF Rounded
<1>3. ComfortVote(r) = [policy |-> IF 450 + 25 * d >= 650 THEN "comfort_first" ELSE Balanced,
                        score |-> AtMost(100, Rounded(450 + 25 * d, 10))]
  BY DEF ComfortVote, Vote, d
<1> QED
  BY <1>1, <1>2, <1>3 DEF AtMost

LEMMA EnergyScore ==
    ASSUME NEW r \in Readings
    PROVE  /\ EnergyVote(r).score \in 0..100
           /\ \/ EnergyVote(r).policy = "energy_saver" /\ EnergyVote(r).score >= 50
              \/ EnergyVote(r).policy = Balanced /\ EnergyVote(r).score <= 49
<1>1. r.power \in Nat
  BY DEF Readings
<1>2. \A x \in Nat : /\ Rounded(10 * x, 7) \in Nat
                     /\ x >= 35 => Rounded(10 * x, 7) >= 50
                     /\ x < 35 => Rounded(10 * x, 7) <= 49
  BY DEF Rounded
<1> QED
  BY <1>1, <1>2 DEF EnergyVote, Vote, AtMost

LEMMA OccupancyScore ==
    ASSUME NEW r \in Readings
    PROVE  /\ OccupancyVote(r).score \in 0..100
           /\ \/ OccupancyVote(r).policy = "energy_saver"
              \/ OccupancyVote(r).policy = Balanced /\ OccupancyVote(r).score <= 40
<1>1. r.occupancy \in Nat
  BY DEF Readings
<1>2. \A x \in Nat : /\ Rounded(100 * (35 - x), 35) \in Int
                     /\ Rounded(100 * (35 - x), 35) <= 100
                     /\ x > 20 => Rounded(100 * (35 - x), 35) <= 40
  BY DEF Rounded, Abs
<1> QED
  BY <1>1, <1>2 DEF OccupancyVote, Vote, AtLeast

LEMMA CarbonScore ==
    ASSUME NEW signal \in Signals
    PROVE  /\ CarbonVote(signal).score \in 0..100
           /\ \/ CarbonVote(signal).policy = "carbon_aware" /\ CarbonVote(signal).score >= 65
              \/ CarbonVote(signal).policy = Balanced /\ CarbonVote(signal).score <= 65
<1> DEFINE i == Intensity(signal)
<1>1. i \in Nat
  BY DEF Intensity, Signals, NoSignal
<1>2. \A x \in Nat : /\ Rounded(x, 7) \in Nat
                     /\ 100 * x >= 65 * 700 => Rounded(x, 7) >= 65
                     /\ 100 * x < 65 * 700 => Rounded(x, 7) <= 65
  BY DEF Rounded
<1>3. CarbonVote(signal) = [policy |-> IF 100 * i >= 65 * 700 THEN "carbon_aware" ELSE Balanced,
                            score |-> AtMost(100, Rounded(i, 7))]
  BY DEF CarbonVote, Vote
<1> HIDE DEF i
<1>4. /\ Rounded(i, 7) \in Nat
      /\ 100 * i >= 65 * 700 => Rounded(i, 7) >= 65
      /\ ~ (100 * i >= 65 * 700) => Rounded(i, 7) <= 65
  BY <1>1, <1>2, SMT
<1> QED
  BY <1>3, <1>4 DEF AtMost
-----------------------------------------------------------------------------
(* The arbitration.                                                           *)

LEMMA FourPolicies ==
    \A p : p \in Policies <=> p \in {Balanced, "energy_saver", "comfort_first", "carbon_aware"}
  BY DEF Policies, Balanced

LEMMA SupportType ==
    ASSUME NEW vote, vote.score \in 0..100, NEW p \in Policies
    PROVE  /\ Support(vote, p) \in Nat
           /\ p = Balanced => Support(vote, p) <= 5 * vote.score
           /\ p # Balanced /\ vote.policy = p => Support(vote, p) = 20 * vote.score
           /\ vote.policy # p => Support(vote, p) = 0
  BY DEF Support, Weight

LEMMA EvidenceType ==
    ASSUME NEW r \in Readings, NEW signal \in Signals
    PROVE  Evidence(r, signal) \in [Policies -> Nat]
<1> SUFFICES ASSUME NEW p \in Policies
             PROVE  Support(ComfortVote(r), p) + Support(EnergyVote(r), p)
                        + Support(OccupancyVote(r), p) + Support(CarbonVote(signal), p) \in Nat
  BY DEF Evidence
<1>1. /\ Support(ComfortVote(r), p) \in Nat /\ Support(EnergyVote(r), p) \in Nat
      /\ Support(OccupancyVote(r), p) \in Nat /\ Support(CarbonVote(signal), p) \in Nat
  BY ComfortScore, EnergyScore, OccupancyScore, CarbonScore, SupportType
<1> QED
  BY <1>1

LEMMA TotalsBound ==
    ASSUME NEW r \in Readings, NEW signal \in Signals, NEW m \in [Policies -> Records],
           NEW p \in Policies
    PROVE  /\ Totals(r, signal, m)[p] \in Int
           /\ Totals(r, signal, m)[p] <= Evidence(r, signal)[p] + 300
           /\ Totals(r, signal, m)[p] >= Evidence(r, signal)[p] - 300
<1>1. Evidence(r, signal)[p] \in Nat
  BY EvidenceType
<1>2. Adjustment(m[p]) \in -150..150
  BY AdjustmentBound
<1>3. Totals(r, signal, m)[p] = Evidence(r, signal)[p] + 2 * Adjustment(m[p])
  BY DEF Totals
<1> QED
  BY <1>1, <1>2, <1>3

\* There is a policy that comes before the others, and it is the one that max finds
\* (decision_engine.py 58).
LEMMA SelectedBeats ==
    ASSUME NEW totals, \A p \in Policies : totals[p] \in Int
    PROVE  /\ Selected(totals) \in Policies
           /\ \A q \in Policies : Beats(totals, Selected(totals), q)
<1> DEFINE a == totals[Balanced]
           b == totals["energy_saver"]
           c == totals["comfort_first"]
           d == totals["carbon_aware"]
<1>1. a \in Int /\ b \in Int /\ c \in Int /\ d \in Int
  BY FourPolicies
<1>2. /\ Rank[Balanced] = 1 /\ Rank["energy_saver"] = 2
      /\ Rank["comfort_first"] = 3 /\ Rank["carbon_aware"] = 4
  BY DEF Rank, Balanced
<1>3. \E p \in Policies : \A q \in Policies : Beats(totals, p, q)
  <2>1. CASE a >= b /\ a >= c /\ a >= d
    BY <1>1, <1>2, <2>1, FourPolicies DEF Beats
  <2>2. CASE b > a /\ b >= c /\ b >= d
    BY <1>1, <1>2, <2>2, FourPolicies DEF Beats
  <2>3. CASE c > a /\ c > b /\ c >= d
    BY <1>1, <1>2, <2>3, FourPolicies DEF Beats
  <2>4. CASE d > a /\ d > b /\ d > c
    BY <1>1, <1>2, <2>4, FourPolicies DEF Beats
  <2> HIDE DEF a, b, c, d
  <2> QED
    BY <1>1, <2>1, <2>2, <2>3, <2>4
<1> QED
  BY <1>3 DEF Selected

\* A policy that is below another one is not selected.
LEMMA LowerLoses ==
    ASSUME NEW totals, \A p \in Policies : totals[p] \in Int,
           NEW p \in Policies, NEW q \in Policies, totals[p] < totals[q]
    PROVE  Selected(totals) # p
<1>1. Beats(totals, Selected(totals), q)
  BY SelectedBeats
<1>2. totals[p] \in Int /\ totals[q] \in Int
  OBVIOUS
<1> QED
  BY <1>1, <1>2 DEF Beats

\* Learning breaks close votes only: support of more than 0.3 above every other
\* policy decides, for every reading, signal and memory (decision_engine.py 53-58:
\* "Learning is deliberately bounded and only breaks close votes").
THEOREM LearningIsBounded ==
    ASSUME NEW r \in Readings, NEW signal \in Signals, NEW m \in [Policies -> Records]
    PROVE  ClearVoteWins(r, signal, m)
<1> DEFINE e == Evidence(r, signal)
           totals == Totals(r, signal, m)
<1>1. \A p \in Policies : e[p] \in Nat
  BY EvidenceType
<1>2. \A p \in Policies :
        totals[p] \in Int /\ totals[p] <= e[p] + 300 /\ totals[p] >= e[p] - 300
  BY TotalsBound
<1> SUFFICES ASSUME NEW p \in Policies, \A q \in Policies \ {p} : e[p] > e[q] + 600
             PROVE  Selected(totals) = p
  BY DEF ClearVoteWins
<1> HIDE DEF e, totals
<1>3. \A q \in Policies \ {p} : totals[q] < totals[p]
  <2> SUFFICES ASSUME NEW q \in Policies \ {p} PROVE totals[q] < totals[p]
    OBVIOUS
  <2>1. /\ e[p] \in Nat /\ e[q] \in Nat /\ e[p] > e[q] + 600
        /\ totals[p] \in Int /\ totals[p] >= e[p] - 300
        /\ totals[q] \in Int /\ totals[q] <= e[q] + 300
    BY <1>1, <1>2
  <2> QED
    BY <2>1
<1>4. Selected(totals) \in Policies
  BY <1>2, SelectedBeats
<1>5. \A q \in Policies \ {p} : Selected(totals) # q
  BY <1>2, <1>3, LowerLoses
<1> QED
  BY <1>4, <1>5

\* The balanced votes of all the agents together weigh less than one concern.
LEMMA BalancedIsBelow ==
    ASSUME NEW r \in Readings, NEW signal \in Signals,
           \E v \in {ComfortVote(r), EnergyVote(r), CarbonVote(signal)} : v.policy # Balanced
    PROVE  \E q \in Policies : Evidence(r, signal)[Balanced] < Evidence(r, signal)[q]
<1> DEFINE comfort == ComfortVote(r)
           energy == EnergyVote(r)
           occupancy == OccupancyVote(r)
           carbon == CarbonVote(signal)
           e == Evidence(r, signal)
<1>1. \A p \in Policies : e[p] = Support(comfort, p) + Support(energy, p)
                                     + Support(occupancy, p) + Support(carbon, p)
  BY DEF Evidence
<1>2. /\ comfort.score \in 0..100 /\ energy.score \in 0..100
      /\ occupancy.score \in 0..100 /\ carbon.score \in 0..100
  BY ComfortScore, EnergyScore, OccupancyScore, CarbonScore
<1>3. \A p \in Policies :
        /\ Support(comfort, p) \in Nat /\ Support(energy, p) \in Nat
        /\ Support(occupancy, p) \in Nat /\ Support(carbon, p) \in Nat
  BY <1>2, SupportType
<1>4. Balanced \in Policies
  BY FourPolicies
<1>5. /\ Support(comfort, Balanced) <= 325 /\ Support(energy, Balanced) <= 245
      /\ Support(occupancy, Balanced) <= 200 /\ Support(carbon, Balanced) <= 325
  <2>1. /\ comfort.policy = Balanced => comfort.score <= 65
        /\ energy.policy = Balanced => energy.score <= 49
        /\ occupancy.policy = Balanced => occupancy.score <= 40
        /\ carbon.policy = Balanced => carbon.score <= 65
    BY ComfortScore, EnergyScore, OccupancyScore, CarbonScore DEF Balanced
  <2> HIDE DEF comfort, energy, occupancy, carbon
  <2>2. ASSUME NEW v, v.score \in 0..100, NEW k \in Nat, v.policy = Balanced => v.score <= k
        PROVE  Support(v, Balanced) <= 5 * k
    <3>1. CASE v.policy = Balanced
      BY <1>4, <2>2, <3>1, SupportType
    <3>2. CASE v.policy # Balanced
      <4>1. Support(v, Balanced) = 0
        BY <1>4, <2>2, <3>2, SupportType
      <4> QED
        BY <2>2, <4>1
    <3> QED
      BY <3>1, <3>2
  <2> QED
    BY <1>2, <2>1, <2>2
<1>6. CASE comfort.policy # Balanced
  <2>1. comfort.policy = "comfort_first" /\ comfort.score >= 65
    BY <1>6, ComfortScore
  <2>2. comfort.policy \in Policies /\ comfort.policy # Balanced
    BY <1>6, <2>1, FourPolicies
  <2>3. Support(comfort, comfort.policy) = 20 * comfort.score /\ Support(comfort, Balanced) = 0
    BY <1>2, <1>4, <2>2, SupportType
  <2> HIDE DEF comfort, energy, occupancy, carbon, e
  <2>4. e[Balanced] <= 770 /\ e[comfort.policy] >= 1300
    BY <1>1, <1>2, <1>3, <1>4, <1>5, <2>1, <2>2, <2>3
  <2> QED
    BY <1>1, <1>3, <1>4, <2>2, <2>4 DEF e
<1>7. CASE energy.policy # Balanced
  <2>1. energy.policy = "energy_saver" /\ energy.score >= 50
    BY <1>7, EnergyScore
  <2>2. energy.policy \in Policies /\ energy.policy # Balanced
    BY <1>7, <2>1, FourPolicies
  <2>3. Support(energy, energy.policy) = 20 * energy.score /\ Support(energy, Balanced) = 0
    BY <1>2, <1>4, <2>2, SupportType
  <2> HIDE DEF comfort, energy, occupancy, carbon, e
  <2>4. e[Balanced] <= 850 /\ e[energy.policy] >= 1000
    BY <1>1, <1>2, <1>3, <1>4, <1>5, <2>1, <2>2, <2>3
  <2> QED
    BY <1>1, <1>3, <1>4, <2>2, <2>4 DEF e
<1>8. CASE carbon.policy # Balanced
  <2>1. carbon.policy = "carbon_aware" /\ carbon.score >= 65
    BY <1>8, CarbonScore
  <2>2. carbon.policy \in Policies /\ carbon.policy # Balanced
    BY <1>8, <2>1, FourPolicies
  <2>3. Support(carbon, carbon.policy) = 20 * carbon.score /\ Support(carbon, Balanced) = 0
    BY <1>2, <1>4, <2>2, SupportType
  <2> HIDE DEF comfort, energy, occupancy, carbon, e
  <2>4. e[Balanced] <= 770 /\ e[carbon.policy] >= 1300
    BY <1>1, <1>2, <1>3, <1>4, <1>5, <2>1, <2>2, <2>3
  <2> QED
    BY <1>1, <1>3, <1>4, <2>2, <2>4 DEF e
<1> QED
  BY <1>6, <1>7, <1>8

\* With nothing learned, a concern for comfort, energy or carbon overrides all the
\* balanced votes, for every reading and signal (decision_engine.py 48-52: "A material
\* comfort, energy, or carbon concern must be able to override several weak
\* fallback recommendations").
THEOREM ConcernsOverride ==
    ASSUME NEW r \in Readings, NEW signal \in Signals
    PROVE  ConcernOverridesFallbacks(r, signal)
<1> DEFINE e == Evidence(r, signal)
           totals == Totals(r, signal, NothingLearned)
<1>1. \A p \in Policies : e[p] \in Nat
  BY EvidenceType
<1>2. \A p \in Policies : totals[p] = e[p] + 2 * Adjustment(NothingLearned[p])
  BY DEF Totals
<1> SUFFICES ASSUME \E v \in {ComfortVote(r), EnergyVote(r), CarbonVote(signal)} :
                        v.policy # Balanced
             PROVE  Selected(totals) # Balanced
  BY DEF ConcernOverridesFallbacks
<1>3. PICK q \in Policies : e[Balanced] < e[q]
  BY BalancedIsBelow
<1> HIDE DEF e, totals
<1>4. \A p \in Policies : totals[p] = e[p] /\ totals[p] \in Int
  <2> SUFFICES ASSUME NEW p \in Policies PROVE totals[p] = e[p] /\ totals[p] \in Int
    OBVIOUS
  <2>1. totals[p] = e[p] + 2 * 0
    BY <1>2, NoAdjustment
  <2> QED
    BY <1>1, <2>1
<1>5. Balanced \in Policies
  BY FourPolicies
<1>6. totals[Balanced] < totals[q]
  BY <1>3, <1>4, <1>5
<1> QED
  BY <1>4, <1>5, <1>6, LowerLoses
-----------------------------------------------------------------------------
(* The strategic job.                                                         *)

\* What the worker has at each point of its job.
AtPoint ==
    /\ pc = "take" <=> job = NoJob
    /\ \A j \in Jobs : status[j] = "running" <=> job = j
    /\ pc \in {"take", "chat"} => advice = NoPolicy
    /\ pc \in {"take", "chat", "answer", "plan"} => plan = NoPlan
    /\ pc \in {"answer", "plan", "publish", "complete"} => summary # NoReading
    /\ pc = "publish" => advice # NoPolicy

\* Advice was published for jobs that are completed, or about to be.
PublishedOnce ==
    \A j \in advisedJobs : status[j] = "completed" \/ (j = job /\ pc = "complete")

JobInvariant ==
    /\ TypeOK
    /\ AtPoint
    /\ PublishedOnce
    /\ AdviceIsInformed
    /\ GoalKeepsItsAdvantage

LEMMA InitJob == Init => JobInvariant
<1> SUFFICES ASSUME Init PROVE JobInvariant
  OBVIOUS
<1>1. MaxRounds \in Nat /\ NoJob \notin Jobs
  BY PlanningAssumption
<1>2. TypeOK
  <2>1. round \in 0..MaxRounds
    BY <1>1 DEF Init
  <2>2. plan.policy \in Policies \cup {NoPolicy}
    BY DEF Init, NoPlan
  <2>3. handoff \in [job : Jobs \cup {NoJob}, policy : Policies \cup {NoPolicy}]
    BY DEF Init, EmptySlot
  <2>4. status \in [Jobs -> {"queued", "running", "completed", "failed"}]
    BY DEF Init
  <2> QED
    BY <2>1, <2>2, <2>3, <2>4 DEF Init, TypeOK
<1>3. AtPoint
  BY <1>1 DEF Init, AtPoint
<1> QED
  BY <1>2, <1>3
     DEF Init, JobInvariant, PublishedOnce, AdviceIsInformed, GoalKeepsItsAdvantage

LEMMA RoundsAreCounted ==
    ASSUME round \in 0..MaxRounds, round < MaxRounds, round' = round + 1
    PROVE  round' \in 0..MaxRounds
<1>1. MaxRounds \in Nat
  BY PlanningAssumption
<1> QED
  BY <1>1

\* What goes on beside the worker touches nothing of its job.
LEMMA RestKeepsJob ==
    ASSUME JobInvariant,
           \/ \E r \in WindowReadings : Observe(r)
           \/ \E m \in Memories : Learn(m)
           \/ Decide
           \/ UNCHANGED vars
    PROVE  JobInvariant'
<1>1. UNCHANGED workerVars
  BY DEF Observe, Learn, Decide, vars, workerVars
<1>2. TypeOK'
  BY <1>1 DEF JobInvariant, TypeOK, Observe, Learn, Decide, vars, workerVars, conversation,
              EmptySlot
<1>3. AtPoint' /\ PublishedOnce' /\ AdviceIsInformed'
  BY <1>1 DEF JobInvariant, AtPoint, PublishedOnce, AdviceIsInformed, workerVars, conversation
<1>4. GoalKeepsItsAdvantage'
  BY <1>1 DEF JobInvariant, GoalKeepsItsAdvantage, workerVars
<1> QED
  BY <1>2, <1>3, <1>4 DEF JobInvariant

\* However a job ends, nothing of it is left with the worker.
LEMMA EndKeepsJob ==
    ASSUME JobInvariant, NEW from \in {"chat", "complete"}, NEW result \in {"completed", "failed"},
           Go(from, "take"), End(result), UNCHANGED <<advisedJobs, handoff>>,
           from = "complete" => result = "completed"
    PROVE  JobInvariant'
<1> USE DEF JobInvariant
<1>1. job \in Jobs /\ status[job] = "running"
  BY DEF Go, AtPoint, TypeOK
<1>2. TypeOK'
  <2>1. round' \in 0..MaxRounds
    BY PlanningAssumption DEF End
  <2>2. plan'.policy \in Policies \cup {NoPolicy}
    BY DEF End, NoPlan
  <2>3. status' \in [Jobs -> {"queued", "running", "completed", "failed"}]
    BY DEF End, TypeOK
  <2> QED
    BY <2>1, <2>2, <2>3 DEF Go, End, TypeOK
<1>3. AtPoint'
  BY <1>1, PlanningAssumption DEF Go, End, AtPoint, TypeOK
<1>4. PublishedOnce'
  BY <1>1 DEF Go, End, PublishedOnce, TypeOK
<1>5. AdviceIsInformed' /\ GoalKeepsItsAdvantage'
  BY DEF End, AdviceIsInformed, GoalKeepsItsAdvantage
<1> QED
  BY <1>2, <1>3, <1>4, <1>5

\* A job is begun with an empty conversation.
LEMMA TakeKeepsJob ==
    ASSUME JobInvariant, NEW j \in Jobs, Take(j)
    PROVE  JobInvariant'
<1> USE DEF JobInvariant
<1>1. pc = "take" /\ pc' = "chat" /\ job = NoJob /\ job' = j /\ status[j] = "queued"
  BY DEF Take, Go, AtPoint
<1>2. TypeOK'
  BY <1>1 DEF Take, Go, TypeOK
<1>3. AtPoint'
  BY <1>1, PlanningAssumption DEF Take, Go, AtPoint, TypeOK
<1>4. PublishedOnce'
  BY <1>1 DEF Take, Go, PublishedOnce, TypeOK
<1>5. AdviceIsInformed' /\ GoalKeepsItsAdvantage'
  BY <1>1 DEF Take, AtPoint, AdviceIsInformed, GoalKeepsItsAdvantage
<1> QED
  BY <1>2, <1>3, <1>4, <1>5

\* A conversation that goes on, or that ends with an answer of the model.
LEMMA ChatKeepsJob ==
    ASSUME JobInvariant,
           \/ AnswerTooEarly
           \/ \E calls \in SUBSET Tools \ {{}} : CallTools(calls)
           \/ \E p \in Policies \cup {NoPolicy} : Answer(p)
    PROVE  JobInvariant'
<1> USE DEF JobInvariant
<1>1. /\ pc = "chat" /\ pc' \in {"chat", "answer"} /\ summary # NoReading
      /\ round < MaxRounds
      /\ UNCHANGED <<window, memory, job, status, summary, plan, advisedJobs, handoff>>
      /\ jsonRequired' \in BOOLEAN
  BY DEF AnswerTooEarly, CallTools, Answer, Chat, Go
<1>2. round' = round \/ round' = round + 1
  BY DEF AnswerTooEarly, CallTools, Answer
<1>3. round' \in 0..MaxRounds
  BY <1>1, <1>2, RoundsAreCounted DEF TypeOK
<1>4. used' \subseteq Tools
  BY DEF TypeOK, AnswerTooEarly, CallTools, Answer
<1>5. advice' \in Policies \cup {NoPolicy} /\ (pc' = "chat" => advice' = advice)
  BY DEF TypeOK, AnswerTooEarly, CallTools, Answer, Chat, Go
<1>6. AdviceIsInformed'
  <2>1. CASE advice' = advice
    BY <1>1, <2>1 DEF AtPoint, AdviceIsInformed
  <2>2. CASE \E p \in Policies \cup {NoPolicy} : Answer(p)
    BY <1>1, <2>2 DEF Answer, Chat, AdviceIsInformed
  <2> QED
    BY <2>1, <2>2 DEF AnswerTooEarly, CallTools
<1>7. TypeOK'
  BY <1>1, <1>3, <1>4, <1>5 DEF TypeOK
<1>8. AtPoint' /\ PublishedOnce' /\ GoalKeepsItsAdvantage'
  BY <1>1, <1>5 DEF AtPoint, PublishedOnce, GoalKeepsItsAdvantage
<1> QED
  BY <1>6, <1>7, <1>8

\* The conversation is over, with an answer that is accepted or without one.
LEMMA LeaveChatKeepsJob ==
    ASSUME JobInvariant, AcceptAnswer \/ GiveUpOnModel
    PROVE  JobInvariant'
<1> USE DEF JobInvariant
<1>1. /\ pc \in {"chat", "answer"} /\ pc' = "plan" /\ summary # NoReading
      /\ UNCHANGED <<window, memory, job, status, summary, round, used, jsonRequired, plan,
                     advisedJobs, handoff>>
      /\ advice' = advice \/ advice' = NoPolicy
  BY DEF AcceptAnswer, GiveUpOnModel, Go, AtPoint, conversation
<1>2. TypeOK'
  BY <1>1 DEF TypeOK
<1>3. AtPoint' /\ PublishedOnce' /\ AdviceIsInformed' /\ GoalKeepsItsAdvantage'
  BY <1>1 DEF AtPoint, PublishedOnce, AdviceIsInformed, GoalKeepsItsAdvantage
<1> QED
  BY <1>2, <1>3

LEMMA DecisionType ==
    ASSUME NEW r \in Readings, NEW signal \in Signals
    PROVE  Decision(r, signal).selected \in Policies /\ Decision(r, signal).confidence \in Int
<1> DEFINE totals == Totals(r, signal, NothingLearned)
<1>1. NothingLearned \in [Policies -> Records]
  BY NoAdjustment DEF NothingLearned
<1>2. \A p \in Policies : totals[p] \in Int
  BY <1>1, TotalsBound
<1> HIDE DEF totals
<1>3. Selected(totals) \in Policies
  BY <1>2, SelectedBeats
<1>4. totals[Selected(totals)] \in Int
  BY <1>2, <1>3
<1>5. Rounded(8000 + totals[Selected(totals)], 160) \in Int
  BY <1>4, RoundedType
<1>6. Confidence(totals) \in Int
  BY <1>5 DEF Confidence, AtMost
<1> QED
  BY <1>3, <1>6 DEF Decision, totals

\* The goal's policy has an advantage of eighty percent of confidence, and what was
\* learned counts on both sides.
LEMMA PlanIsJustified ==
    ASSUME NEW r \in Readings, NEW g \in [policy : Policies \ {Balanced}, signal : Signals],
           NEW m \in [Policies -> Records], NEW a \in Policies \cup {NoPolicy}
    PROVE  /\ Plan(a, r, g, m).policy \in Policies
           /\ (a = NoPolicy /\ Plan(a, r, g, m).policy # g.policy)
                => /\ Plan(a, r, g, m).policy = Plan(a, r, g, m).selected
                   /\ \/ Plan(a, r, g, m).confidence > 80
                      \/ DidBetter(Plan(a, r, g, m).performance, Plan(a, r, g, m).selected,
                                   g.policy)
<1> DEFINE decision == Decision(r, g.signal)
<1>1. decision.selected \in Policies /\ decision.confidence \in Int
  BY DecisionType
<1>2. /\ Plan(a, r, g, m).policy = PlannedPolicy(a, decision, g.policy, m)
      /\ Plan(a, r, g, m).selected = decision.selected
      /\ Plan(a, r, g, m).confidence = decision.confidence
      /\ Plan(a, r, g, m).performance = m
  BY DEF Plan
<1> HIDE DEF decision
<1>3. PlannedPolicy(a, decision, g.policy, m) \in Policies
  BY <1>1 DEF PlannedPolicy
<1>4. ASSUME a = NoPolicy, PlannedPolicy(a, decision, g.policy, m) # g.policy
      PROVE  /\ PlannedPolicy(a, decision, g.policy, m) = decision.selected
             /\ \/ decision.confidence > 80
                \/ DidBetter(m, decision.selected, g.policy)
  <2>1. /\ PlannedPolicy(a, decision, g.policy, m) = decision.selected
        /\ Displaces(decision, g.policy, m)
    BY <1>4 DEF PlannedPolicy
  <2>2. Adjustment(m[decision.selected]) \in Int /\ Adjustment(m[g.policy]) \in Int
    BY <1>1, AdjustmentBound
  <2> QED
    BY <1>1, <2>1, <2>2 DEF Displaces, DidBetter
<1> QED
  BY <1>2, <1>3, <1>4

LEMMA PlanKeepsJob ==
    ASSUME JobInvariant, CreatePlan
    PROVE  JobInvariant'
<1> USE DEF JobInvariant
<1>1. /\ pc = "plan" /\ pc' = (IF advice = NoPolicy THEN "complete" ELSE "publish")
      /\ UNCHANGED <<window, memory, job, status, summary, round, used, jsonRequired, advice,
                     advisedJobs, handoff>>
      /\ plan' = Plan(advice, summary, Goals[job], memory)
  BY DEF CreatePlan, LeavePlanning, Go, conversation
<1>2. /\ summary \in Readings /\ memory \in [Policies -> Records]
      /\ advice \in Policies \cup {NoPolicy}
  <2>1. summary \in WindowReadings
    BY <1>1 DEF AtPoint, TypeOK
  <2>2. NothingLearned \in [Policies -> Records]
    BY NoAdjustment DEF NothingLearned
  <2> QED
    BY <2>1, <2>2, PlanningAssumption DEF TypeOK
<1>3. job \in Jobs /\ Goals[job] \in [policy : Policies \ {Balanced}, signal : Signals]
  BY <1>1, PlanningAssumption DEF AtPoint, TypeOK
<1>4. /\ plan'.policy \in Policies
      /\ (advice = NoPolicy /\ plan'.policy # Goals[job].policy)
            => /\ plan'.policy = plan'.selected
               /\ \/ plan'.confidence > 80
                  \/ DidBetter(plan'.performance, plan'.selected, Goals[job].policy)
  BY <1>1, <1>2, <1>3, PlanIsJustified
<1>5. TypeOK'
  BY <1>1, <1>4 DEF TypeOK
<1>6. AtPoint' /\ PublishedOnce' /\ AdviceIsInformed'
  BY <1>1 DEF AtPoint, PublishedOnce, AdviceIsInformed
<1>7. GoalKeepsItsAdvantage'
  BY <1>1, <1>4 DEF GoalKeepsItsAdvantage
<1> QED
  BY <1>5, <1>6, <1>7

LEMMA PublishKeepsJob ==
    ASSUME JobInvariant, Publish
    PROVE  JobInvariant'
<1> USE DEF JobInvariant
<1>1. /\ pc = "publish" /\ pc' = "complete" /\ job \in Jobs
      /\ UNCHANGED <<window, memory, job, status, summary, round, used, jsonRequired, advice, plan>>
      /\ handoff' = [job |-> job, policy |-> advice] /\ advisedJobs' = advisedJobs \cup {job}
  BY DEF Publish, Go, conversation, AtPoint, TypeOK
<1>2. TypeOK'
  <2>1. handoff' \in [job : Jobs \cup {NoJob}, policy : Policies \cup {NoPolicy}]
    BY <1>1 DEF TypeOK
  <2> QED
    BY <1>1, <2>1 DEF TypeOK
<1>3. AtPoint' /\ PublishedOnce' /\ AdviceIsInformed' /\ GoalKeepsItsAdvantage'
  BY <1>1 DEF AtPoint, PublishedOnce, AdviceIsInformed, GoalKeepsItsAdvantage
<1> QED
  BY <1>2, <1>3

LEMMA NextJob == JobInvariant /\ [Next]_vars => JobInvariant'
<1> SUFFICES ASSUME JobInvariant, [Next]_vars PROVE JobInvariant'
  OBVIOUS
<1>1. CASE \E j \in Jobs : Take(j)
  BY <1>1, TakeKeepsJob
<1>2. CASE FailWithoutTelemetry \/ FailInChat
  BY <1>2, EndKeepsJob DEF FailWithoutTelemetry, FailInChat
<1>3. CASE Complete
  BY <1>3, EndKeepsJob DEF Complete
<1>4. CASE Conversation
  BY <1>2, <1>4, ChatKeepsJob, LeaveChatKeepsJob DEF Conversation
<1>5. CASE CreatePlan \/ Publish
  BY <1>5, PlanKeepsJob, PublishKeepsJob
<1>6. CASE \/ \E r \in WindowReadings : Observe(r)
           \/ \E m \in Memories : Learn(m)
           \/ Decide
           \/ UNCHANGED vars
  BY <1>6, RestKeepsJob
<1> QED
  BY <1>1, <1>3, <1>4, <1>5, <1>6 DEF Next, Worker

LEMMA JobIsInvariant == Spec => []JobInvariant
  BY InitJob, NextJob, PTL DEF Spec

\* Whatever the model answers and whatever else happens, every variable of the job
\* keeps its type, and a plan always names a policy.
THEOREM TypeCorrect == Spec => []TypeOK
<1>1. JobInvariant => TypeOK
  BY DEF JobInvariant
<1> QED
  BY <1>1, JobIsInvariant, PTL

\* Advice rests on the required tools and on the policy schema, for any tools and
\* number of rounds (ollama_client.py 112-165).
THEOREM AdviceRestsOnTools == Spec => []AdviceIsInformed
<1>1. JobInvariant => AdviceIsInformed
  BY DEF JobInvariant
<1> QED
  BY <1>1, JobIsInvariant, PTL

\* A plan leaves the policy of its goal for a reason, for every window, goal and
\* memory (strategic_reasoner.py 36-40).
THEOREM PlansAreJustified == Spec => []GoalKeepsItsAdvantage
<1>1. JobInvariant => GoalKeepsItsAdvantage
  BY DEF JobInvariant
<1> QED
  BY <1>1, JobIsInvariant, PTL

\* A clear vote decides whenever a cycle decides, whatever was learned by then
\* (decision_engine.py 53-58).
THEOREM ClearVotesDecide == Spec => []ClearVotesWin
<1>1. NothingLearned \in [Policies -> Records] /\ NoSignal \in Signals
  BY NoAdjustment DEF NothingLearned, Signals
<1>2. TypeOK => ClearVotesWin
  BY <1>1, LearningIsBounded, PlanningAssumption DEF TypeOK, ClearVotesWin
<1> QED
  BY <1>2, TypeCorrect, PTL
-----------------------------------------------------------------------------
(* Each job ends once.                                                        *)

AdviceUnchanged == UNCHANGED <<Outstanding, Ended, handoff.job>>

\* A job that ends without advice is no longer outstanding; one that was advised
\* ended when its advice was published.
LEMMA EndAdvice ==
    ASSUME JobInvariant, NEW from \in {"chat", "complete"}, NEW result \in {"completed", "failed"},
           Go(from, "take"), End(result), UNCHANGED <<advisedJobs, handoff>>,
           from = "complete" => result = "completed"
    PROVE  Advice!EndWithoutAdvice(job) \/ AdviceUnchanged
<1>1. /\ job \in Jobs /\ status[job] = "running" /\ status' = [status EXCEPT ![job] = result]
      /\ status \in [Jobs -> {"queued", "running", "completed", "failed"}]
  BY DEF JobInvariant, AtPoint, TypeOK, Go, End
<1>2. handoff'.job = handoff.job
  OBVIOUS
<1>3. CASE job \in advisedJobs
  <2>1. Outstanding' = Outstanding /\ Ended' = Ended
    BY <1>1, <1>3 DEF Outstanding, Ended
  <2> QED
    BY <1>2, <2>1 DEF AdviceUnchanged
<1>4. CASE job \notin advisedJobs
  <2>1. /\ job \in Outstanding /\ Outstanding' = Outstanding \ {job}
        /\ Ended' = Ended \cup {job}
    BY <1>1, <1>4 DEF Outstanding, Ended
  <2> QED
    BY <1>2, <2>1 DEF Advice!EndWithoutAdvice, Advice!End
<1> QED
  BY <1>3, <1>4

LEMMA NextAdvice == JobInvariant /\ [Next]_vars => [Advice!AdviceNext]_(Advice!adviceVars)
<1> SUFFICES ASSUME JobInvariant, [Next]_vars
             PROVE  Advice!AdviceNext \/ AdviceUnchanged
  BY DEF AdviceUnchanged, Advice!adviceVars
<1>1. CASE \E j \in Jobs : Take(j)
  <2>1. PICK j \in Jobs : Take(j)
    BY <1>1
  <2>2. /\ status[j] = "queued" /\ status' = [status EXCEPT ![j] = "running"]
        /\ UNCHANGED <<advisedJobs, handoff>>
        /\ status \in [Jobs -> {"queued", "running", "completed", "failed"}]
    BY <2>1 DEF Take, JobInvariant, TypeOK
  <2>3. Outstanding' = Outstanding /\ Ended' = Ended
    BY <2>2 DEF Outstanding, Ended
  <2> QED
    BY <2>2, <2>3 DEF AdviceUnchanged
<1>2. CASE FailWithoutTelemetry \/ FailInChat \/ Complete
  <2>1. job \in Jobs
    BY <1>2 DEF FailWithoutTelemetry, FailInChat, Complete, Go, JobInvariant, AtPoint, TypeOK
  <2>2. Advice!EndWithoutAdvice(job) \/ AdviceUnchanged
    BY <1>2, EndAdvice DEF FailWithoutTelemetry, FailInChat, Complete
  <2> QED
    BY <2>1, <2>2 DEF Advice!AdviceNext
<1>3. CASE Publish
  <2>1. /\ job \in Jobs /\ status[job] = "running" /\ job \notin advisedJobs
        /\ status' = status /\ advisedJobs' = advisedJobs \cup {job} /\ handoff'.job = job
    BY <1>3 DEF Publish, Go, JobInvariant, AtPoint, PublishedOnce, TypeOK
  <2>2. /\ job \in Outstanding /\ Outstanding' = Outstanding \ {job}
        /\ Ended' = Ended \cup {job}
    BY <2>1 DEF Outstanding, Ended
  <2>3. Advice!Advise(job)
    BY <2>1, <2>2 DEF Advice!Advise, Advice!End
  <2> QED
    BY <2>1, <2>3 DEF Advice!AdviceNext
<1>4. CASE Decide
  <2>1. handoff'.job = NoJob /\ UNCHANGED <<status, advisedJobs>>
    BY <1>4 DEF Decide, EmptySlot, workerVars
  <2>2. Outstanding' = Outstanding /\ Ended' = Ended
    BY <2>1 DEF Outstanding, Ended
  <2>3. Advice!Consume
    BY <2>1, <2>2 DEF Advice!Consume
  <2> QED
    BY <2>3 DEF Advice!AdviceNext
<1>5. CASE UNCHANGED <<status, advisedJobs, handoff>>
  BY <1>5 DEF AdviceUnchanged, Outstanding, Ended
<1>6. CASE \/ \E r \in WindowReadings : Observe(r)
           \/ \E m \in Memories : Learn(m)
           \/ CreatePlan
           \/ UNCHANGED vars
  BY <1>5, <1>6 DEF Observe, Learn, CreatePlan, LeavePlanning, vars, workerVars
<1>7. CASE Conversation
  <2>1. \/ UNCHANGED <<status, advisedJobs, handoff>>
        \/ FailWithoutTelemetry \/ FailInChat
    BY <1>7 DEF Conversation, GiveUpOnModel, AnswerTooEarly, AcceptAnswer, CallTools, Answer, Chat
  <2> QED
    BY <1>2, <1>5, <2>1
<1> QED
  BY <1>1, <1>2, <1>3, <1>4, <1>6, <1>7 DEF Next, Worker

\* Every step of the conversation is one that the control loop's model allows the
\* worker, or none at all: each job ends once, with advice in the slot or without
\* (strategic_worker.py 71-105).
THEOREM JobsEndOnce == Spec => EndsEachJobOnce
  BY NextAdvice, JobIsInvariant, PTL DEF Spec, EndsEachJobOnce
=============================================================================
