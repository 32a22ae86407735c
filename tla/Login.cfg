SPECIFICATION LiveSpec
CONSTANTS
  a1 = a1
  Account = {a1}
  Conn = {c1, c2}
  Server = {l1, l2}
  None = None
  MaxCrash = 1
  Owner <- SameOwner
INVARIANT TypeOK
INVARIANT OneInLogin
INVARIANT FlagHeld
PROPERTY Answered
PROPERTY FlagEnds
CHECK_DEADLOCK FALSE
