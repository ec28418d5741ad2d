SPECIFICATION Spec
CONSTANTS
  Mod = 4
  MaxWindow = 0
  MaxRetx = 1
  Submits <- Settling
  QueueSize = 1
  MayDiscard = FALSE
  InFlight = 2
  Statuses = 1
  NoBuffer = {}
PROPERTIES
    EverySduIsSettled
CHECK_DEADLOCK FALSE
