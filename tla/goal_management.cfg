SPECIFICATION Spec
CONSTANTS
    Loop = loop
    ApiThreads = {api}
    Operator = operator
    NoRequest = noRequest
    NoGoal = noGoal
    DedupeInterval = 2
    ReviewInterval = 2
    Readings <- MCReadings
    HumanRequests <- MCHumanRequests
    MaxClock = 3
    MaxGoals = 3
INVARIANTS
    TypeOK
    ActiveObjectiveIsNewest
    OnePerGenerator
PROPERTY TransitionIsReasonedAbout
CHECK_DEADLOCK FALSE
