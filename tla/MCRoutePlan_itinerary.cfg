SPECIFICATION Spec
CONSTANTS
  p1 = p1
  p2 = p2
  d1 = d1
  d2 = d2
  Places = {p1, p2}
  Dests = {d1, d2}
  Readers = {r1}
  LegIds = {l1, l2, l3, l4, l5}
  Fixes <- OnStreet
  Unlinked <- AllLinked
  MaxDests = 2
  MaxTraffic = 1
  NoPos = NoPos
  OffRoad = OffRoad
  NoDst = NoDst
  NoLeg = NoLeg
  FreedLeg = FreedLeg
  Closed = Closed
INVARIANTS
  FullItinerary
  UpdateIsDefined
  PathStartsAtPosition
  NoLegLeaks
SYMMETRY Symmetry
