-------------------------- MODULE MCGoalManagement --------------------------
(* Readings and requests for the runs of GoalManagement: every branch of      *)
(* generate_proactive, with goals that are feasible and goals that are not.   *)
EXTENDS GoalManagement

Reading(power, temperature, humidity, occupancy) ==
    [power |-> power, temperature |-> temperature, humidity |-> humidity,
     occupancy |-> occupancy]

MCReadings ==
    { Reading(80, 220, 500, 500),      \* a power spike
      Reading(20, 240, 500, 500),      \* too hot: comfort 24 of 12 percent
      Reading(20, 220, 660, 500),      \* humid: comfort 10 of 12 percent
      Reading(10, 220, 500, 100),      \* empty: energy 11 of 10 percent
      Reading(20, 220, 500, 500) }     \* nothing to react to

MCHumanRequests ==
    { [objective |-> "carbon_reduction", target |-> 1000, priority |-> 80] }
=============================================================================
