SPECIFICATION FairSpec
CONSTANTS
    e1 = e1
    e2 = e2
    Engines <- MCEngines
    MaxJobs = 3
    Unreadable <- MCUnreadable
    RecentMax = 2
    ListMax = 2
    MaxTroubles = 2
INVARIANTS
    TypeOK
    AtMostOnce
    EachLossHasItsIncident
PROPERTIES
    ListingComplete
    SettledForGood
    AcceptedJobsSettle
\* The engines wait for jobs once all of them are settled.
CHECK_DEADLOCK FALSE
