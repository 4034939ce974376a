\* Two recoveries in a row leave no policy within the step limits.
SPECIFICATION Spec
CONSTANTS
    HvacMin = 32
    HvacMax = 60
    PctMax = 20
    DefaultSetpoints <- MCDefault
    MaxTemperatureStep = 4
    MaxVentilationStep = 5
    MaxLightingStep = 6
    MinChangeInterval = 2
    Policies <- MCPolicies
    PolicySetpoints <- MCPolicySetpoints
    ComfortTemperature = 44
    FallbackTemperatureStep = 4
    FallbackVentilationStep = 5
    Balanced = "balanced"
    ComfortFirst = "comfort_first"
    NoPolicy = "none"
    MinComfort = 90
    ExpectedComfort = 95
    ErrorThreshold = 5
    ComfortReadings = {80, 100}
    PutRequests = {}
    RequestedPolicies = {}
    FeedbackErrors = {}
    MaxJobs = 1
INVARIANT
    SomePolicyWithinReach
