SPECIFICATION FairSpec
CONSTANTS
    k1 = k1
    k2 = k2
    Kinds = {k1, k2}
    NumLoads = 2
    MaxFailures = 2
CHECK_DEADLOCK FALSE
PROPERTY ReconnectFinishes
