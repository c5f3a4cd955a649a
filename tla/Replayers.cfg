SPECIFICATION FairSpec
CONSTANTS
    p1 = p1
    p2 = p2
    Jobs <- MCJobs
    Partitions <- MCPartitions
    DlqContents <- MCDlqContents
    Archives <- MCArchives
    Trades <- MCTrades
    HourLength = 2
    Now = 3
    MaxTime = 4
    MaxMessages = 3
    MaxLive = 1
    MaxTroubles = 1
INVARIANTS
    ReplaysItsWindow
PROPERTIES
    JobEnds
\* A job that has ended does nothing more.
CHECK_DEADLOCK FALSE
