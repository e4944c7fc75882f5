SPECIFICATION Spec
CONSTANTS
    s1 = s1
    s2 = s2
    s3 = s3
    s4 = s4
    Ways <- MCWays
    WaysBetween <- MCWaysBetween
    LegIds = {l1, l2, l3, l4, l5, l6}
    MaxDests = 2
    MaxEvents = 4
    Arrival = Arrival
    NoLeg = NoLeg
    FreedLeg = FreedLeg
    Closed = Closed
INVARIANT NoPartOfAList
CHECK_DEADLOCK FALSE
