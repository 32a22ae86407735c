SPECIFICATION FairSpec
CONSTANTS
  LogicNum = 1
  MysqlNum = 0
  NetThread = 1
  Packet = {p1, p2}
  None = None
  MaxMalloc = 3
INVARIANTS NoUseAfterFree RefCountsLists
PROPERTIES BroadcastSpec DispatchedIsRecycled SentIsRecycled
