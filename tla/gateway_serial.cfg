\* One caller at a time: the gateway keeps its promise.
SPECIFICATION HistorySpec
CONSTANTS
    HvacMin = 32
    HvacMax = 60
    PctMax = 20
    DefaultSetpoints <- MCDefault
    MaxTemperatureStep = 4
    MaxVentilationStep = 5
    MaxLightingStep = 6
    MinChangeInterval = 2
    Policies <- MCPolicies
    PolicySetpoints <- MCPolicySetpoints
    ComfortTemperature = 44
    FallbackTemperatureStep = 4
    FallbackVentilationStep = 5
    Callers = {control_loop}
    HvacRequests = {31, 43, 48}
    VentRequests = {12, 21}
    LightRequests = {0, 16}
    MaxClock = 3
PROPERTY
    ImplementsSafeActuation
