SPECIFICATION FairSpec
CONSTANTS
  Apps = {"agriculture", "smoke", "light", "gps"}
  NULL = NULL
  Blocks = {b1, b2, b3}
  MSGQUEUE_COUNT = 1
  Commands <- ProfileCommands
  EngineLock = TRUE
  MaxDelivered = 2
  MaxSamples = 1
INVARIANTS TreesReleased
PROPERTIES CommandsAnswered
CHECK_DEADLOCK FALSE
