SPECIFICATION FairSpec
CONSTANTS
  a = a
  b = b
  c = c
  x = x
  ab = ab
  bc = bc
  ac = ac
  cx = cx
  t1 = t1
  t2 = t2
  Points <- ThreePoints
  Segments <- FourSegments
  Item <- OneStreet
  From <- LoopFrom
  To <- LoopTo
  Time <- Uneven
  Penalty2 = 4
  Dests <- OnLoop
  Distortions = {t1, t2}
  DFrom <- RowFrom
  DTo <- RowTo
  OneWay <- BothWays
  Delays = {3, 60}
  Inf = 60
  NoSeg = NoSeg
  NoKey = NoKey
  NoChange = NoChange
  NoDest = NoDest
INVARIANTS
  InconsistentIsOnHeap
PROPERTIES
  ComputationEnds
