\* Two jobs, one after the other, with a model that may call the tool, another
\* one or none, in conversations of three rounds.
SPECIFICATION FairSpec
CONSTANTS
    Jobs <- MCJobs
    NoJob = none
    Goals <- MCGoals
    WindowReadings <- MCReadings
    NoReading = empty
    Memories <- MCMemories
    Tools = {inspect, other}
    RequiredTools = {inspect}
    MaxRounds = 3
INVARIANTS
    TypeOK
    AdviceIsInformed
    GoalKeepsItsAdvantage
    ClearVotesWin
PROPERTIES
    JobsEnd
CHECK_DEADLOCK FALSE
