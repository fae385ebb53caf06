SPECIFICATION Spec
CONSTANTS
    m1 = m1
    m2 = m2
    p1 = p1
    p2 = p2
    a1 = a1
    a2 = a2
    Stores <- TheStores
    Assets = {a1, a2}
    Kinds = {"markets", "marketData", "accounts", "positions", "assets", "liquidity", "stake"}
    Provisions <- TheProvisions
    MaxOpenings = 2
    MaxChanges = 1
SYMMETRY AssetSymmetry
CHECK_DEADLOCK FALSE
INVARIANT OwnDataOnly
INVARIANT ValuesExact
INVARIANT LoadsFresh
PROPERTY BackOnlyByOverlap
