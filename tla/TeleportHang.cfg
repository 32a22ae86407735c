SPECIFICATION LiveSpec
CONSTANTS
  Account = {1}
  Socket = {1}
  Owner <- OwnerOf
  World = {A, B}
  Pending = {B}
  Home = {A, B}
  None = None
  Patient = TRUE
  MayClose = FALSE
  MaxMove = 1
  MaxRefresh = 0
PROPERTY AllWaitingTeleport
CHECK_DEADLOCK FALSE
