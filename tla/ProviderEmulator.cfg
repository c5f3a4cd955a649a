SPECIFICATION FairSpec
CONSTANTS
    ttf = ttf
    brent = brent
    Instruments <- MCInstruments
    Tenors <- MCTenors
    Bars <- MCBars
    QueueMax = 1
    RefreshEvery = 2
    MaxCycles = 2
    MaxFaults = 2
    MaxOutages = 1
    MaxRaises = 1
INVARIANTS
    TypeOK
    NothingUnaccounted
    FaultsAreRecorded
PROPERTIES
    HeldComeOut
\* The process ends when it is told to stop.
CHECK_DEADLOCK FALSE
