SPECIFICATION Spec
CONSTANTS
  Mod = 4
  MaxWindow = 0
  MaxRetx = 1
  Submits <- Mixed
  QueueSize = 1
  MayDiscard = TRUE
  InFlight = 2
  Statuses = 1
  NoBuffer = {2}
INVARIANTS
    TransmitterIsSound
    TransferIsReliable
    ReceiverIsSound
CHECK_DEADLOCK FALSE
