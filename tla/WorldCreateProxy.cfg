SPECIFICATION Spec
CONSTANTS
  World = {city}
  Space = {s1}
  Game = {g1, g2}
  Player = {p1, p2}
  Known = {s1}
  Mgr = Mgr
  None = None
  MaxLogin = 2
  MaxCrash = 0
SYMMETRY Alike
INVARIANT OneProxy
CHECK_DEADLOCK FALSE
