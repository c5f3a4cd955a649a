SPECIFICATION FairSpec
CONSTANTS
    n1 = n1
    n2 = n2
    w1 = w1
    w2 = w2
    databento = databento
    emulator = emulator
    monthly = monthly
    quarterly = quarterly
    Replicas <- MCReplicas
    Sources <- MCSources
    Validated <- MCValidated
    Curves <- MCCurves
    Assignments <- MCAssignments
    WAssignments <- MCWAssignments
    CurveOf <- MCCurveOf
    Writers <- MCWriters
    Instruments <- MCInstruments
    HistoryMax = 2
    MinTenors = 2
    FirstMonth <- MCFirstMonth
    LastMonth <- MCLastMonth
    MaxTroubles = 1
INVARIANTS
    VersionsUnique
    HistoryHoldsMostRecent
    CommittedPricesStick
    SnapshotIsTheHash
    TenorsAgree
PROPERTIES
    EveryEventArrives
\* The services wait for messages once they have read everything.
CHECK_DEADLOCK FALSE
