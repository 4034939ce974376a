------------------------ MODULE MCStrategicPlanning -------------------------
(* Readings, goals and memories for the run of StrategicPlanning.             *)
EXTENDS StrategicPlanning

Reading(temperature, humidity, occupancy, power) ==
    [temperature |-> temperature, humidity |-> humidity, occupancy |-> occupancy,
     power |-> power]

\* Each concern at its threshold and well beyond, against the strongest balanced
\* votes of the other agents.
MCReadings ==
    { Reading(227, 60, 21, 35),      \* demand at the threshold
      Reading(228, 60, 21, 34),      \* comfort at the threshold
      Reading(230, 66, 80, 20),      \* warm and humid: comfort is clear
      Reading(220, 50, 5, 70) }      \* idle and at full power: energy is certain

MCGoals ==
    [j1 |-> [policy |-> "comfort_first", signal |-> NoSignal],
     j2 |-> [policy |-> "energy_saver", signal |-> 455]]

MCJobs == {"j1", "j2"}

\* One policy did well and one badly, in few and in many episodes.
Learned(good, bad, n) ==
    [p \in Policies |->
        [observations |-> n,
         rewards |-> IF p = good THEN 1000 * n ELSE IF p = bad THEN -1000 * n ELSE 0]]

MCMemories ==
    { Learned("balanced", "energy_saver", 20), Learned("carbon_aware", "comfort_first", 60) }
=============================================================================
