SPECIFICATION FairSpec
CONSTANTS
    k1 = k1
    k2 = k2
    Kinds = {k1, k2}
    NumLoads = 2
    MaxFailures = 3
CHECK_DEADLOCK FALSE
INVARIANT FlagPending
INVARIANT Serviced
INVARIANT DialsTested
PROPERTY Recovers
