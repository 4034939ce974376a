\* Two threads inside the gateway at once: what the interleavings preserve, and what
\* a call that overlaps no other restores.
SPECIFICATION HistorySpec
CONSTANTS
    HvacMin = 32
    HvacMax = 60
    PctMax = 20
    DefaultSetpoints <- MCDefault
    MaxTemperatureStep = 4
    MaxVentilationStep = 5
    MaxLightingStep = 6
    MinChangeInterval = 1
    Policies <- MCOnePolicy
    PolicySetpoints <- MCOnePolicySetpoints
    ComfortTemperature = 44
    FallbackTemperatureStep = 4
    FallbackVentilationStep = 5
    Callers = {api, control_loop}
    HvacRequests = {48, 61}
    VentRequests = {}
    LightRequests = {}
    MaxClock = 1
INVARIANT
    TypeOK
PROPERTY
    LoneMovesAreSafe
