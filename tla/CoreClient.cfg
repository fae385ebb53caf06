SPECIFICATION FairSpec
CONSTANT MaxFailures = 3
INVARIANT FlagPending
INVARIANT Serviced
INVARIANT HandlerDialsTested
INVARIANT LoopsBounded
PROPERTY Recovers
