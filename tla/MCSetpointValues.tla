-------------------------- MODULE MCSetpointValues --------------------------
(* The constants of the program for the model-checking modules. Temperatures  *)
(* are in half degrees, percentages in steps of 5 %, so every number of the   *)
(* code is exact: 16..30 degrees are 32..60, 2 degrees are 4, 25 % are 5 and  *)
(* 30 % are 6.                                                                *)

MCDefault == [hvac |-> 44, vent |-> 10, light |-> 20]

MCPolicies == {"balanced", "energy_saver", "comfort_first", "carbon_aware"}

MCPolicySetpoints ==
    [balanced      |-> [hvac |-> 44, vent |-> 10, light |-> 20],
     energy_saver  |-> [hvac |-> 48, vent |-> 7,  light |-> 14],
     comfort_first |-> [hvac |-> 44, vent |-> 13, light |-> 20],
     carbon_aware  |-> [hvac |-> 47, vent |-> 8,  light |-> 15]]

\* The concurrent run keeps one policy; requests and recoveries leave it.
MCOnePolicy == {"balanced"}

MCOnePolicySetpoints == [p \in MCOnePolicy |-> MCPolicySetpoints[p]]

\* The run with requests keeps the two policies that serve the occupants.
MCServicePolicies == {"balanced", "comfort_first"}

MCServicePolicySetpoints == [p \in MCServicePolicies |-> MCPolicySetpoints[p]]
=============================================================================
