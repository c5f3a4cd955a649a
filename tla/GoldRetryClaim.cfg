SPECIFICATION Spec
CONSTANTS
    front = front
    back = back
    MaxOffset = 6
    Malformed <- MCMalformed
    MaxWindow = 2
    WindowOf <- MCWindowOf
    TenorOf <- MCTenorOf
    Poor <- MCPoor
    MinPct = 50
    AuthPct = 95
    ExpectedTenors = 0
    MaxNow = 6
    MaxFailures = 2
    MaxStops = 0
INVARIANT NextPollRetries
CHECK_DEADLOCK FALSE
