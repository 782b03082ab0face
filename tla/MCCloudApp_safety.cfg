SPECIFICATION Spec
CONSTANTS
  Apps = {"agriculture", "light", "gps"}
  NULL = NULL
  Blocks = {b1, b2, b3, b4}
  MSGQUEUE_COUNT = 2
  Commands <- AllCommands
  EngineLock = FALSE
  MaxDelivered = 2
  MaxSamples = 2
SYMMETRY BlockSymmetry
INVARIANTS TypeOK HeapOwnership ReportsTrue
PROPERTIES FreedWhenAnsweredOrFull ImplementsService
CHECK_DEADLOCK FALSE
