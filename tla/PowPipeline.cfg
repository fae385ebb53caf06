SPECIFICATION Spec
CONSTANTS
    a1 = a1
    a2 = a2
    Agents = {a1, a2}
    NumStrats <- MCOneStrategy
    TxPerBlock = 1
    KeepBlocks = 1
    Modulus = 8
    QueueCap = 1
    MaxRetries = 1
    MaxHeight = 5
    MaxInputs = 2
INVARIANT ProofSpentOnce
INVARIANT StoreWindow
INVARIANT FreshProofsKept
PROPERTY StreamSpec
PROPERTY SignersSpec
