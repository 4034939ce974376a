\* Two measurements, a dashboard with a queue of one, a window of two, and one fault:
\* a connection that breaks, or an attempt of the producer that fails.
SPECIFICATION FairSpec
CONSTANTS
    Clients = {screen}
    MaxQueue = 1
    MaxSamples = 2
    MaxEvents = 2
    MaxFaults = 1
INVARIANTS
    TypeOK
    RecordedOnce
    NothingElseIsLost
    DashboardGetsLatest
PROPERTIES
    LatestGoesForward
    EventsAreRecorded
CHECK_DEADLOCK FALSE
