\* The control loop and one API thread, two episodes each, a history of two, and
\* two starts with a stop or a crash between them.
SPECIFICATION FairSpec
CONSTANTS
    Recorders = {loop, api}
    NoEpisode = none
    MaxEpisodes = 2
    MaxRecorded = 2
    MaxStarts = 2
INVARIANTS
    TypeOK
    EachEpisodeOnce
    RowsInOrder
    HistoryIsNewest
PROPERTIES
    QueuedEpisodesEnd
CHECK_DEADLOCK FALSE
