--------------------------- MODULE SafetySentinel ---------------------------
(* The setpoint record (app/schemas/telemetry.py) and the deterministic       *)
(* validation every proposal goes through (app/services/safety_sentinel.py).  *)
(* Quantities are integers: the unit of each field is chosen by the module    *)
(* that instantiates the constants (half degrees and steps of 5 % in the      *)
(* model-checking modules, which represent every number of the code exactly). *)
(* The operators are pure: a sentinel is a value [at, delta], the instant and *)
(* the three deltas of the change it last remembered.                         *)
EXTENDS Integers

CONSTANTS
    HvacMin, HvacMax,        \* 16 and 30 degrees
    PctMax,                  \* 100 %
    DefaultSetpoints,        \* Setpoints() with its default field values
    MaxTemperatureStep,      \* 2 degrees
    MaxVentilationStep,      \* 25 %
    MaxLightingStep,         \* 30 %
    MinChangeInterval        \* 5 minutes, in ticks of the clock

Setpoints == [hvac: HvacMin..HvacMax, vent: 0..PctMax, light: 0..PctMax]

ASSUME SentinelAssumption ==
    /\ HvacMin \in Int /\ HvacMax \in Int
    /\ PctMax \in Nat
    /\ DefaultSetpoints \in Setpoints
    /\ MaxTemperatureStep \in Nat
    /\ MaxVentilationStep \in Nat
    /\ MaxLightingStep \in Nat
    /\ MinChangeInterval \in Nat

Deltas == [hvac: Int, vent: Int, light: Int]
NoDelta == [hvac |-> 0, vent |-> 0, light |-> 0]

\* _last_accepted_at is None until a change is accepted.
Never == -1

Sentinels == [at: Nat \cup {Never}, delta: Deltas]

InitialSentinel == [at |-> Never, delta |-> NoDelta]

\* What the proposal changes, field by field.
Delta(current, proposed) ==
    [hvac  |-> proposed.hvac - current.hvac,
     vent  |-> proposed.vent - current.vent,
     light |-> proposed.light - current.light]

AtMost(x, bound) == -bound <= x /\ x <= bound

WithinStepLimits(delta) ==
    /\ AtMost(delta.hvac, MaxTemperatureStep)
    /\ AtMost(delta.vent, MaxVentilationStep)
    /\ AtMost(delta.light, MaxLightingStep)

\* The code tests x * y < 0.
OppositeSigns(x, y) == (x < 0 /\ y > 0) \/ (x > 0 /\ y < 0)

\* Some field moves against the move remembered for it.
Reverses(delta, remembered) ==
    \/ OppositeSigns(delta.hvac, remembered.hvac)
    \/ OppositeSigns(delta.vent, remembered.vent)
    \/ OppositeSigns(delta.light, remembered.light)

\* Mutant of Oscillates: the comparison with the interval the wrong way round.
OscillatesLater(sentinel, current, proposed, now, emergency) ==
    /\ sentinel.at # Never
    /\ proposed # current
    /\ now - sentinel.at >= MinChangeInterval
    /\ ~emergency
    /\ Reverses(Delta(current, proposed), sentinel.delta)

\* The reversal guard of validate at instant now.
Oscillates(sentinel, current, proposed, now, emergency) ==
    /\ sentinel.at # Never
    /\ proposed # current
    /\ now - sentinel.at < MinChangeInterval
    /\ ~emergency
    /\ Reverses(Delta(current, proposed), sentinel.delta)

\* validate returns accepted=True.
Accepts(sentinel, current, proposed, now, emergency) ==
    /\ WithinStepLimits(Delta(current, proposed))
    /\ ~Oscillates(sentinel, current, proposed, now, emergency)
=============================================================================
