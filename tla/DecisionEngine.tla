--------------------------- MODULE DecisionEngine ---------------------------
(* The four agents and their arbitration (app/agents/specialized.py,          *)
(* app/services/decision_engine.py), and the learned preference that          *)
(* app/services/adaptive_policy.py adds to it, as operators over integers.    *)
(*                                                                            *)
(* A reading has the temperature in tenths of a degree, the power in tenths   *)
(* of a kW, humidity and occupancy in percent. Scores are in hundredths, as   *)
(* the agents round them; average rewards and adjustments are in thousandths, *)
(* as the code rounds them; the arbitration adds both in units of 1/2000,     *)
(* where a quarter of a hundredth is 5. A tie of a rounding goes up.          *)
EXTENDS Integers

Policies == {"balanced", "energy_saver", "comfort_first", "carbon_aware"}

Balanced == "balanced"

\* The order of the enumeration, in which max looks at the policies.
Rank == [balanced |-> 1, energy_saver |-> 2, comfort_first |-> 3, carbon_aware |-> 4]

Readings == [temperature : Int, humidity : Nat, occupancy : Nat, power : Nat]

NoSignal == -1               \* no carbon signal: the grid's default is used

Signals == Nat \cup {NoSignal}

AtMost(limit, x) == IF x > limit THEN limit ELSE x

AtLeast(limit, x) == IF x < limit THEN limit ELSE x

Abs(x) == IF x < 0 THEN -x ELSE x

\* a / b rounded to the nearest integer, for b > 0.
Rounded(a, b) == IF a < 0 THEN -((2 * Abs(a) + b) \div (2 * b)) ELSE (2 * a + b) \div (2 * b)
-----------------------------------------------------------------------------
(* The agents: each votes for a policy, with a score.                         *)

Vote(policy, score) == [policy |-> policy, score |-> score]

\* How far temperature and humidity are from comfort: a quarter of the score for
\* each degree from 22, and for each 10 % of humidity above 60.
Discomfort(r) == Abs(r.temperature - 220) + AtLeast(0, r.humidity - 60)

ComfortVote(r) ==
    Vote(IF 450 + 25 * Discomfort(r) >= 650 THEN "comfort_first" ELSE Balanced,
         AtMost(100, Rounded(450 + 25 * Discomfort(r), 10)))

EnergyVote(r) ==
    Vote(IF r.power >= 35 THEN "energy_saver" ELSE Balanced,
         AtMost(100, Rounded(10 * r.power, 7)))

OccupancyVote(r) ==
    Vote(IF r.occupancy <= 20 THEN "energy_saver" ELSE Balanced,
         AtLeast(0, Rounded(100 * (35 - r.occupancy), 35)))

Intensity(signal) == IF signal = NoSignal THEN 400 ELSE signal

CarbonVote(signal) ==
    Vote(IF 100 * Intensity(signal) >= 65 * 700 THEN "carbon_aware" ELSE Balanced,
         AtMost(100, Rounded(Intensity(signal), 7)))
-----------------------------------------------------------------------------
(* Arbitration.                                                               *)

\* A balanced vote is a fallback and counts a quarter.
Weight(policy) == IF policy = Balanced THEN 5 ELSE 20

Support(vote, policy) == IF vote.policy = policy THEN vote.score * Weight(policy) ELSE 0

Evidence(r, signal) ==
    LET comfort == ComfortVote(r)
        energy == EnergyVote(r)
        occupancy == OccupancyVote(r)
        carbon == CarbonVote(signal)
    IN [p \in Policies |->
           Support(comfort, p) + Support(energy, p) + Support(occupancy, p) + Support(carbon, p)]

\* What the memory knows of a policy: the number of its episodes and the sum of
\* their rewards, which are between -1000 and 1000 each.
Records == {k \in [observations : Nat, rewards : Int] :
               Abs(k.rewards) <= 1000 * k.observations}

NothingLearned == [p \in Policies |-> [observations |-> 0, rewards |-> 0]]

AverageReward(k) == IF k.observations = 0 THEN 0 ELSE Rounded(k.rewards, k.observations)

\* Mutant of Adjustment: the number of episodes is not capped.
UncappedAdjustment(k) == Rounded(AverageReward(k) * k.observations * 15, 2000)

\* The average reward times 0.15, in full from 20 episodes on.
Adjustment(k) == Rounded(AverageReward(k) * AtMost(20, k.observations) * 15, 2000)

Totals(r, signal, memory) ==
    LET evidence == Evidence(r, signal)
    IN [p \in Policies |-> evidence[p] + 2 * Adjustment(memory[p])]

\* The first policy, in the order of the enumeration, with the highest total.
Beats(totals, p, q) == totals[p] > totals[q] \/ (totals[p] = totals[q] /\ Rank[p] <= Rank[q])

Selected(totals) == CHOOSE p \in Policies : \A q \in Policies : Beats(totals, p, q)

\* In hundredths: one half and an eighth of the winning total.
Confidence(totals) == AtMost(100, Rounded(8000 + totals[Selected(totals)], 160))
-----------------------------------------------------------------------------
(* What decisions promise.                                                    *)

\* Learning breaks close votes only: what the agents support by more than 0.3
\* above every other policy is selected whatever was learned
\* (decision_engine.py 53-58: "Learning is deliberately bounded and only breaks
\* close votes").
ClearVoteWins(r, signal, memory) ==
    LET evidence == Evidence(r, signal) IN
    \A p \in Policies :
        (\A q \in Policies \ {p} : evidence[p] > evidence[q] + 600)
            => Selected(Totals(r, signal, memory)) = p

\* With nothing learned, a concern for comfort, energy or carbon overrides
\* whatever number of balanced votes (decision_engine.py 48-52: "A material
\* comfort, energy, or carbon concern must be able to override several weak
\* fallback recommendations").
ConcernOverridesFallbacks(r, signal) ==
    (\E v \in {ComfortVote(r), EnergyVote(r), CarbonVote(signal)} : v.policy # Balanced)
        => Selected(Totals(r, signal, NothingLearned)) # Balanced
=============================================================================
