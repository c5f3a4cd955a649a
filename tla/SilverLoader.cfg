SPECIFICATION FairSpec
CONSTANTS
    MaxOffset = 4
    Malformed <- MCMalformed
    BatchSize = 2
    MaxFailures = 3
    MaxStops = 1
INVARIANTS
    TypeOK
    NothingMislaid
    RowsExplained
    GiveUpsAreEarned
PROPERTIES
    ImplementsSink
    EventuallyStored
\* The consumer waits for messages once it has read the whole log.
CHECK_DEADLOCK FALSE
