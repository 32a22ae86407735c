SPECIFICATION Spec
CONSTANTS
  Account = {1}
  Socket = {1, 2}
  Owner <- OwnerOf
  World = {A}
  Pending = {A}
  Home = {A}
  None = None
  Patient = TRUE
  MayClose = TRUE
  MaxMove = 0
  MaxRefresh = 1
INVARIANT OnlineFlagSet
INVARIANT WorldsAgree
CHECK_DEADLOCK FALSE
