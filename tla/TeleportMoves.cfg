SPECIFICATION Spec
CONSTANTS
  Account = {1}
  Socket = {1}
  Owner <- OwnerOf
  World = {A, B}
  Pending = {B}
  Home = {A, B}
  None = None
  Patient = TRUE
  MayClose = FALSE
  MaxMove = 2
  MaxRefresh = 0
INVARIANT TypeOK
INVARIANT InOnePlace
INVARIANT OnlineFlagSet
CHECK_DEADLOCK FALSE
