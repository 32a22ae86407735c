SPECIFICATION Spec
CONSTANTS
  LogicNum = 0
  MysqlNum = 2
  NetThread = 0
  Packet = {p1, p2}
  None = None
  MaxMalloc = 3
SYMMETRY Symmetry
INVARIANTS TypeOK NoUseAfterFree RefCountsLists
PROPERTIES HandledInOrder
