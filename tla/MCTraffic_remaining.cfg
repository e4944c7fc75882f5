SPECIFICATION Spec
CONSTANTS
    Id = {"m", "n"}
    Seg = {"s1", "s2"}
    Loc = {"a", "b"}
    Covers <- MCCovers
    Ahead <- MCAhead
    Data = {"slow", "closed"}
    NoData = NoData
    Feed <- MCFeed
    MaxReceived = 3
    MaxTime = 1
    MaxRestarts = 1
INVARIANT
    RemainingIsInForce
