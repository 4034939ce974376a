--------------------------- MODULE SetpointPolicy ---------------------------
(* Where proposals come from: the table of operating policies                 *)
(* (app/services/decision_engine.py) and the recovery move of the             *)
(* self-healing loop (app/services/self_healing.py).                          *)
EXTENDS SafetySentinel

CONSTANTS
    Policies,                \* OperatingPolicy
    PolicySetpoints,         \* POLICY_SETPOINTS
    ComfortTemperature,      \* 22 degrees, the ceiling of the comfort fallback
    FallbackTemperatureStep, \* 2 degrees, the cooling of one fallback
    FallbackVentilationStep  \* 25 %, the extra ventilation of one fallback

ASSUME PolicyAssumption ==
    /\ PolicySetpoints \in [Policies -> Setpoints]
    /\ ComfortTemperature \in HvacMin..HvacMax
    /\ FallbackTemperatureStep \in Nat
    /\ FallbackVentilationStep \in Nat

Smaller(a, b) == IF a <= b THEN a ELSE b
Larger(a, b) == IF a >= b THEN a ELSE b

\* Mutant of ComfortFallback: the floor of the range is forgotten.
UnclampedFallback(from) ==
    [hvac  |-> Smaller(ComfortTemperature, from.hvac - FallbackTemperatureStep),
     vent  |-> Smaller(PctMax, from.vent + FallbackVentilationStep),
     light |-> from.light]

\* The comfort fallback of SelfHealingLoop.evaluate.
ComfortFallback(from) ==
    [hvac  |-> Smaller(ComfortTemperature,
                       Larger(HvacMin, from.hvac - FallbackTemperatureStep)),
     vent  |-> Smaller(PctMax, from.vent + FallbackVentilationStep),
     light |-> from.light]
=============================================================================
