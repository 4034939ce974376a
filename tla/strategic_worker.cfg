\* Two submissions, a worker, one stop and a restart.
SPECIFICATION FairSpec
CONSTANTS
    Jobs = {j1, j2}
    NoJob = none
    MaxStops = 1
INVARIANTS
    TypeOK
    EachJobSomewhere
PROPERTIES
    ImplementsAdviceService
    QueuedJobsEnd
CHECK_DEADLOCK FALSE
