SPECIFICATION FairSpec
CONSTANTS
    r1 = r1
    r2 = r2
    a = a
    b = b
    Replicas <- MCReplicas
    MaxOffset = 4
    Ids <- MCIds
    IdOf <- MCIdOf
    KindOf <- MCKindOf
    MaxTroubles = 2
INVARIANTS
    TypeOK
    OneVerdictPerKey
    CommittedHasOutcome
PROPERTIES
    CommitsAdvance
    
\* The replicas wait for messages once the whole log is read.
CHECK_DEADLOCK FALSE
