SPECIFICATION LiveSpec
CONSTANTS
  World = {city}
  Space = {s1, s2}
  Game = {g1}
  Player = {p1, p2}
  Known = {s1, s2}
  Mgr = Mgr
  None = None
  MaxLogin = 2
  MaxCrash = 1
INVARIANT TypeOK
INVARIANT CreatingIsUnderWay
INVARIANT CreatedExists
INVARIANT OnceUnlessAgain
INVARIANT RegisteredHasProxy
PROPERTY CreatingEnds
PROPERTY ServedUnlessFailure
CHECK_DEADLOCK FALSE
