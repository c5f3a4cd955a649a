SPECIFICATION FairSpec
CONSTANTS
    databento = databento
    emulator = emulator
    MaxOffset = 5
    Malformed <- MCMalformed
    Providers <- MCProviders
    ProviderOf <- MCProviderOf
    BatchSize = 2
    MaxFailures = 2
    MaxStops = 1
INVARIANTS
    TypeOK
    NothingMislaid
    CopiesExplained
    LossWindow
PROPERTIES
    ImplementsSink
    EventuallyStored
\* The consumer waits for messages once it has read the whole log.
CHECK_DEADLOCK FALSE
