\* Operators, feedback and applied policies interleave with the loop.
SPECIFICATION Spec
CONSTANTS
    HvacMin = 40
    HvacMax = 60
    PctMax = 20
    DefaultSetpoints <- MCDefault
    MaxTemperatureStep = 4
    MaxVentilationStep = 5
    MaxLightingStep = 6
    MinChangeInterval = 0
    Policies <- MCServicePolicies
    PolicySetpoints <- MCServicePolicySetpoints
    ComfortTemperature = 44
    FallbackTemperatureStep = 4
    FallbackVentilationStep = 5
    Balanced = "balanced"
    ComfortFirst = "comfort_first"
    NoPolicy = "none"
    MinComfort = 92
    ExpectedComfort = 95
    ErrorThreshold = 5
    ComfortReadings = {80, 91}
    PutRequests <- MCPutRequests
    RequestedPolicies = {"comfort_first"}
    FeedbackErrors = {10}
    MaxJobs = 0
INVARIANT
    LoopRegainsControl
