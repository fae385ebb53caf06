SPECIFICATION FairSpec
CONSTANTS
    a1 = a1
    a2 = a2
    Agents = {a1}
    NumStrats <- MCTwoStrategies
    TxPerBlock = 2
    KeepBlocks = 1
    Modulus = 8
    QueueCap = 2
    MaxRetries = 1
    MaxHeight = 4
    MaxInputs = 5
INVARIANT SpamRule
PROPERTY EveryInputSettled
