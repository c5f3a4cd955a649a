SPECIFICATION FairSpec
CONSTANTS
    front = front
    back = back
    MaxOffset = 6
    Malformed <- MCMalformed
    MaxWindow = 2
    WindowOf <- MCWindowOf
    TenorOf <- MCTenorOf
    Poor <- MCPoor
    MinPct = 50
    AuthPct = 95
    ExpectedTenors = 0
    MaxNow = 6
    MaxFailures = 2
    MaxStops = 1
INVARIANTS
    TypeOK
    NothingMislaid
PROPERTIES
    PricesNeverGoBack
    RowsDoNotCollapse
    EveryWindowCloses
\* The clock stops and the consumer waits for messages.
CHECK_DEADLOCK FALSE
