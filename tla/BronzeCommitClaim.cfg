SPECIFICATION Spec
CONSTANTS
    databento = databento
    emulator = emulator
    MaxOffset = 3
    Malformed <- MCMalformed
    Providers <- MCProviders
    ProviderOf <- MCProviderOf
    BatchSize = 2
    MaxFailures = 0
    MaxStops = 1
INVARIANT CommitsOnlyAfterFlush
CHECK_DEADLOCK FALSE
