SPECIFICATION FairSpec
CONSTANTS
    a1 = a1
    a2 = a2
    m1 = m1
    m2 = m2
    Lists <- TheLists
    Assets = {"USDT", "VEGA"}
    Vega = "VEGA"
    Balances <- TheBalances
    QueueCap = 1
CHECK_DEADLOCK FALSE
INVARIANT WiredAlike
INVARIANT RunsPrepared
INVARIANT StaleBatchesBounded
INVARIANT GaugesOwn
INVARIANT BalancesTrue
INVARIANT NobodyWaitsInVain
PROPERTY NeverStuck
