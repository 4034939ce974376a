\* Two threads inside the gateway: their writes add up beyond the step limits.
SPECIFICATION HistorySpec
CONSTANTS
    HvacMin = 32
    HvacMax = 60
    PctMax = 20
    DefaultSetpoints <- MCDefault
    MaxTemperatureStep = 4
    MaxVentilationStep = 5
    MaxLightingStep = 6
    MinChangeInterval = 2
    Policies <- MCPolicies
    PolicySetpoints <- MCPolicySetpoints
    ComfortTemperature = 44
    FallbackTemperatureStep = 4
    FallbackVentilationStep = 5
    Callers = {api, control_loop}
    HvacRequests = {40, 48}
    VentRequests = {}
    LightRequests = {}
    MaxClock = 0
PROPERTY
    EveryMoveWithinLimits
