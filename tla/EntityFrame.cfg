SPECIFICATION FairSpec
CONSTANTS
  Player = {p1, p2, p3}
  Move = {m1, m2}
  Id = {i1, i2}
  None = None
INVARIANT TypeOK
INVARIANT FreeIsUnused
INVARIANT NoneLost
INVARIANT OneMoveEach
INVARIANT CrashOnlyMovesFirst
PROPERTY RemovedIsFreed
CHECK_DEADLOCK FALSE
