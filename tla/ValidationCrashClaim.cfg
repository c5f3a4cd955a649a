SPECIFICATION Spec
CONSTANTS
    r1 = r1
    r2 = r2
    a = a
    b = b
    Replicas <- MCReplicas
    MaxOffset = 4
    Ids <- MCIds
    IdOf <- MCIdOf
    KindOf <- MCKindOf
    MaxTroubles = 1
INVARIANT NeverSilentlyDiscarded
CHECK_DEADLOCK FALSE
