SPECIFICATION Spec
CONSTANTS
    t1 = t1
    t2 = t2
    Timers = {t1, t2}
    Scale = 100
    Strategies <- MCStrategies
    Books <- MCBooks
    BinanceBooks <- MCBinanceBooks
    Positions <- MCPositions
    ExternalBooks <- MCExternalBooks
    Balances = {0, 1000}
    MaxInt = 40000
    MaxSteps = 20
CHECK_DEADLOCK FALSE
INVARIANT PricedOffTheBook
