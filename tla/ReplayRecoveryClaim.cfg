SPECIFICATION FairSpec
CONSTANTS
    e1 = e1
    e2 = e2
    Engines <- MCEngines
    MaxJobs = 2
    Unreadable <- MCNone
    RecentMax = 1
    ListMax = 2
    MaxTroubles = 1
PROPERTY RunningJobsRecovered
CHECK_DEADLOCK FALSE
