SPECIFICATION Spec
CONSTANTS
  p1 = p1
  p2 = p2
  d1 = d1
  d2 = d2
  Places = {p1, p2}
  Dests = {d1, d2}
  Readers = {r1, r2}
  LegIds = {l1, l2, l3, l4}
  Fixes <- OnStreetOrNeither
  Unlinked <- AllLinked
  MaxDests = 2
  MaxTraffic = 0
  NoPos = NoPos
  OffRoad = OffRoad
  NoDst = NoDst
  NoLeg = NoLeg
  FreedLeg = FreedLeg
  Closed = Closed
INVARIANTS
  FloodedForCurrentDestination
  CountsEveryUser
PROPERTIES
  UpdateSparesReaders
SYMMETRY Symmetry
VIEW NoLeakedLegs
CHECK_DEADLOCK FALSE
