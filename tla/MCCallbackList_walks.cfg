SPECIFICATION FairSpec
CONSTANTS
  a = a
  b = b
  c = c
  s = s
  t = t
  Cbs = {a, b, c}
  Types = {s, t}
  AnyType = AnyType
  Type <- TypeOfEach
  Removes <- ItselfAndOthers
  Calls <- CallsOthers
  Destroys = {c}
  MaxDepth = 3
  NoItem = NoItem
  FreedItem = FreedItem
INVARIANTS
  ListOutlivesWalks
PROPERTIES
  ZombieIsFreed
  EachIsReachedOnce
CHECK_DEADLOCK FALSE
